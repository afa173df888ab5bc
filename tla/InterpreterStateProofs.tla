----------------------- MODULE InterpreterStateProofs -----------------------
(***************************************************************************)
(* The invariants of InterpreterState for any threads, greenlets,          *)
(* contexts and bounds.                                                    *)
(*                                                                         *)
(* BaseInv makes SavedIntoEmpty inductive: the current greenlet of a       *)
(* thread is at home there, so that no two threads share one, and is not   *)
(* new.  FullInv adds what the states, frames and chunks are and implies   *)
(* all the others.                                                         *)
(*                                                                         *)
(* The first part says what the recursive functions of InterpreterState    *)
(* compute: the frames that Walk meets, and the chunks of a list.  A       *)
(* statement about every number is proved by its least counterexample.     *)
(***************************************************************************)
EXTENDS InterpreterState, TLAPS, FiniteSetTheorems

\* A set of natural numbers has a least element, because the intervals below its
\* elements are finite sets, which strict inclusion orders well.
LEMMA LeastNumber ==
  ASSUME NEW S \in SUBSET Nat, S # {}
  PROVE  \E m \in S : \A k \in S : m <= k
  <1> DEFINE F == {0..(m - 1) : m \in S}
  <1>1. F \subseteq FiniteSubsetsOf(Nat) /\ F # {}
    <2> SUFFICES ASSUME NEW m \in S PROVE 0..(m - 1) \in FiniteSubsetsOf(Nat)
      OBVIOUS
    <2>1. IsFiniteSet(0..(m - 1))
      BY FS_Interval
    <2> QED
      BY <2>1 DEF FiniteSubsetsOf
  <1>2. PICK I \in F : \A J \in F : <<J, I>> \notin StrictSubsetOrdering(Nat)
    <2> HIDE DEF F
    <2> QED
      BY <1>1, FS_StrictSubsetOrderingWellFounded, WFMin
  <1>3. PICK m \in S : I = 0..(m - 1)
    OBVIOUS
  <1>4. ASSUME NEW k \in S, k < m PROVE FALSE
    <2>1. 0..(k - 1) \in F /\ 0..(k - 1) \subseteq I /\ 0..(k - 1) # I
      BY <1>3, <1>4
    <2>2. <<0..(k - 1), I>> \in StrictSubsetOrdering(Nat)
      BY <1>1, <2>1 DEF StrictSubsetOrdering, FiniteSubsetsOf
    <2> QED
      BY <1>2, <2>1, <2>2
  <1> QED
    BY <1>4

\* A set of numbers up to n has a greatest one.
LEMMA GreatestNumber ==
  ASSUME NEW n \in Nat, NEW S \in SUBSET (0..n), S # {}
  PROVE  \E m \in S : \A k \in S : m >= k
  <1> DEFINE T == {n - k : k \in S}
  <1>1. T \in SUBSET Nat
    OBVIOUS
  <1>2. PICK d \in T : \A e \in T : d <= e
    <2>1. PICK k \in S : TRUE
      OBVIOUS
    <2>2. n - k \in T
      BY <2>1
    <2> HIDE DEF T
    <2> QED
      BY <1>1, <2>2, LeastNumber
  <1>3. PICK m \in S : d = n - m
    BY <1>2
  <1>4. \A k \in S : n - m <= n - k
    BY <1>2, <1>3
  <1> QED
    BY <1>3, <1>4

-----------------------------------------------------------------------------
(* Frames *)

\* The highest frame of a set, or Null when it is empty.
LEMMA HighestOf ==
  ASSUME NEW n \in Nat, NEW S \in SUBSET (1..n)
  PROVE  /\ Highest(S) \in S \cup {Null}
         /\ Highest(S) \in 0..n
         /\ \A k \in S : k <= Highest(S)
         /\ Highest(S) = Null <=> S = {}
  <1> DEFINE T == S \cup {Null}
  <1>1. T \in SUBSET (0..n) /\ T # {} /\ 0 \in T
    BY DEF Null
  <1>2. PICK m \in T : \A k \in T : m >= k
    <2> HIDE DEF T
    <2> QED
      BY <1>1, GreatestNumber
  <1>3. Max(T) \in T /\ \A k \in T : Max(T) >= k
    <2> HIDE DEF T
    <2> QED
      BY <1>2 DEF Max
  <1>4. Highest(S) = Max(T)
    BY DEF Highest
  <1> HIDE DEF T
  <1>5. Highest(S) \in 0..n /\ \A k \in T : k <= Highest(S)
    BY <1>1, <1>3, <1>4
  <1> QED
    BY <1>3, <1>4, <1>5 DEF T, Null

\* Every link goes to a lower frame, or to none.
Down(fs) == /\ Len(fs) \in Nat
            /\ \A k \in 1..Len(fs) : fs[k].previous \in 0..(k - 1)

\* met is what Walk computes, for the frames up to m.
Meets(met, fs, m) == met = [k \in 0..m |-> IF k = Null THEN {} ELSE {k} \cup met[fs[k].previous]]

LEMMA WalkExtends ==
  ASSUME NEW fs, Down(fs), NEW m \in 1..Len(fs), NEW f, Meets(f, fs, m - 1)
  PROVE  \E met : Meets(met, fs, m)
  <1> DEFINE h == [k \in 0..m |-> IF k = m THEN {m} \cup f[fs[m].previous] ELSE f[k]]
  <1>1. Len(fs) \in Nat /\ m \in Nat /\ m > 0
    BY DEF Down
  <1>2. \A k \in 1..m : fs[k].previous \in 0..(k - 1) /\ k \in Nat
    BY <1>1 DEF Down
  <1>3. \A k \in 0..(m - 1) : f[k] = IF k = Null THEN {} ELSE {k} \cup f[fs[k].previous]
    BY DEF Meets
  <1>4. ASSUME NEW k \in 1..m PROVE h[fs[k].previous] = f[fs[k].previous]
    <2>1. fs[k].previous \in 0..m /\ fs[k].previous # m
      BY <1>1, <1>2
    <2> QED
      BY <2>1
  <1>5. ASSUME NEW k \in 0..m
        PROVE  (IF k = m THEN {m} \cup f[fs[m].previous] ELSE f[k])
                = IF k = Null THEN {} ELSE {k} \cup h[fs[k].previous]
    <2>1. CASE k = m
      <3>1. k \in 1..m /\ k # 0
        BY <1>1, <2>1
      <3>2. h[fs[k].previous] = f[fs[k].previous]
        BY <1>4, <3>1
      <3> HIDE DEF h
      <3> QED
        BY <2>1, <3>1, <3>2 DEF Null
    <2>2. CASE k # m /\ k # 0
      <3>1. k \in 1..m /\ k \in 0..(m - 1)
        BY <1>1, <2>2
      <3>2. f[k] = {k} \cup f[fs[k].previous]
        BY <1>3, <2>2, <3>1 DEF Null
      <3>3. h[fs[k].previous] = f[fs[k].previous]
        BY <1>4, <3>1
      <3> HIDE DEF h
      <3> QED
        BY <2>2, <3>2, <3>3 DEF Null
    <2>3. CASE k # m /\ k = 0
      <3>1. k \in 0..(m - 1)
        BY <1>1, <2>3
      <3> HIDE DEF h
      <3> QED
        BY <1>3, <2>3, <3>1 DEF Null
    <2> QED
      BY <2>1, <2>2, <2>3
  <1>6. h = [k \in 0..m |-> IF k = Null THEN {} ELSE {k} \cup h[fs[k].previous]]
    BY <1>5
  <1> HIDE DEF h
  <1> QED
    BY <1>6 DEF Meets

\* The recursion of Walk ends.
LEMMA WalkExists ==
  ASSUME NEW fs, Down(fs)
  PROVE  \E met : Meets(met, fs, Len(fs))
  <1> DEFINE Bad == {m \in 0..Len(fs) : ~\E met : Meets(met, fs, m)}
  <1>1. Len(fs) \in Nat
    BY DEF Down
  <1>2. ASSUME Bad # {} PROVE FALSE
    <2>1. PICK m \in Bad : \A k \in Bad : m <= k
      <3>1. Bad \subseteq Nat
        BY <1>1
      <3> HIDE DEF Bad
      <3> QED
        BY <1>2, <3>1, LeastNumber
    <2>2. CASE m = 0
      <3>1. Meets([k \in 0..0 |-> {}], fs, 0)
        BY DEF Meets, Null
      <3> QED
        BY <3>1, <2>2
    <2>3. CASE m # 0
      <3>1. m \in 1..Len(fs) /\ m - 1 \in 0..Len(fs) /\ m - 1 \notin Bad
        BY <1>1, <2>1, <2>3
      <3>2. PICK f : Meets(f, fs, m - 1)
        BY <3>1
      <3> QED
        BY <3>1, <3>2, WalkExtends
    <2> QED
      BY <2>2, <2>3
  <1> QED
    BY <1>1, <1>2

LEMMA WalkStep ==
  ASSUME NEW fs, Down(fs)
  PROVE  /\ Walk(fs, 0) = {}
         /\ \A k \in 1..Len(fs) : Walk(fs, k) = {k} \cup Walk(fs, fs[k].previous)
  <1> DEFINE w == CHOOSE met : Meets(met, fs, Len(fs))
  <1>1. Meets(w, fs, Len(fs))
    BY WalkExists
  <1>2. \A i : Walk(fs, i) = w[i]
    BY DEF Walk, Meets
  <1> HIDE DEF w
  <1>3. \A k \in 0..Len(fs) : w[k] = IF k = Null THEN {} ELSE {k} \cup w[fs[k].previous]
    BY <1>1 DEF Meets
  <1>4. w[0] = {}
    <2>1. 0 \in 0..Len(fs)
      BY DEF Down
    <2> QED
      BY <1>3, <2>1 DEF Null
  <1>5. \A k \in 1..Len(fs) : k \in 0..Len(fs) /\ k # 0
    BY DEF Down
  <1> QED
    BY <1>2, <1>3, <1>4, <1>5 DEF Null

\* W is what Walk computes for the frames of R, if it satisfies the recursion there.
Walked(fs, R, W) ==
    /\ R \subseteq 1..Len(fs)
    /\ W[0] = {}
    /\ \A k \in R : fs[k].previous \in R \cup {0} /\ W[k] = {k} \cup W[fs[k].previous]

LEMMA WalkIs ==
  ASSUME NEW fs, Down(fs), NEW R, NEW W, Walked(fs, R, W)
  PROVE  \A k \in R \cup {0} : Walk(fs, k) = W[k]
  <1> DEFINE Bad == {k \in R \cup {0} : Walk(fs, k) # W[k]}
  <1>1. ASSUME Bad # {} PROVE FALSE
    <2>1. PICK m \in Bad : \A k \in Bad : m <= k
      <3>1. R \cup {0} \subseteq Nat
        BY DEF Down, Walked
      <3>2. Bad \in SUBSET Nat
        BY <3>1
      <3> HIDE DEF Bad
      <3> QED
        BY <1>1, <3>2, LeastNumber
    <2>2. m # 0
      BY <2>1, WalkStep DEF Walked
    <2>3. m \in R /\ m \in 1..Len(fs) /\ fs[m].previous \in R \cup {0}
      BY <2>1, <2>2 DEF Walked
    <2>4. ~(m <= fs[m].previous)
      BY <2>3 DEF Down
    <2>5. Walk(fs, fs[m].previous) = W[fs[m].previous]
      BY <2>1, <2>3, <2>4
    <2>6. Walk(fs, m) = {m} \cup Walk(fs, fs[m].previous)
      BY <2>3, WalkStep
    <2>7. W[m] = {m} \cup W[fs[m].previous]
      BY <2>3 DEF Walked
    <2> QED
      BY <2>1, <2>5, <2>6, <2>7
  <1> QED
    BY <1>1

\* The complete frames of fs below k.
CompleteBelow(fs, k) == {j \in 1..Len(fs) : fs[j].complete /\ j < k}

LEMMA BelowOf ==
  ASSUME NEW fs, Len(fs) \in Nat, NEW k \in 1..Len(fs)
  PROVE  /\ Highest(CompleteBelow(fs, k)) \in CompleteBelow(fs, k) \cup {0}
         /\ Highest(CompleteBelow(fs, k)) \in 0..(k - 1)
         /\ \A j \in CompleteBelow(fs, k) : j <= Highest(CompleteBelow(fs, k))
  <1>1. CompleteBelow(fs, k) \in SUBSET (1..(k - 1)) /\ k - 1 \in Nat
    BY DEF CompleteBelow
  <1> QED
    BY <1>1, HighestOf DEF Null

\* Where each frame is linked to the one below, or to the complete one next below,
\* Walk meets all the complete ones.
Covered(fs, k) ==
    Walk(fs, k) \subseteq 1..Len(fs) /\ \A j \in 1..k : fs[j].complete => j \in Walk(fs, k)

LEMMA WalkCovers ==
  ASSUME NEW fs, Len(fs) \in Nat,
         \A k \in 1..Len(fs) : fs[k].previous \in {k - 1, Highest(CompleteBelow(fs, k))}
  PROVE  Down(fs) /\ Covered(fs, Len(fs))
  <1>1. PICK n \in Nat : n = Len(fs)
    OBVIOUS
  <1>2. Down(fs)
    <2> SUFFICES ASSUME NEW k \in 1..n PROVE fs[k].previous \in 0..(k - 1)
      BY <1>1 DEF Down
    <2>1. Highest(CompleteBelow(fs, k)) \in 0..(k - 1)
      BY <1>1, BelowOf
    <2> QED
      BY <1>1, <2>1
  <1> DEFINE Bad == {k \in 0..n : ~Covered(fs, k)}
  <1>3. ASSUME Bad # {} PROVE FALSE
    <2>1. PICK m \in Bad : \A k \in Bad : m <= k
      <3>1. Bad \in SUBSET Nat
        OBVIOUS
      <3> HIDE DEF Bad
      <3> QED
        BY <1>3, <3>1, LeastNumber
    <2>2. m # 0
      BY <1>2, <2>1, WalkStep DEF Covered
    <2>3. m \in 1..n /\ m \in 1..Len(fs)
      BY <1>1, <2>1, <2>2
    <2>4. PICK b : b = fs[m].previous
      OBVIOUS
    <2>5. b \in 0..(m - 1) /\ (b = m - 1 \/ b = Highest(CompleteBelow(fs, m)))
      BY <1>2, <2>3, <2>4 DEF Down
    <2>6. b \in 0..n /\ b \notin Bad
      BY <2>1, <2>3, <2>5
    <2>7. Covered(fs, b)
      BY <2>6
    <2>8. Walk(fs, m) = {m} \cup Walk(fs, b)
      BY <1>2, <2>3, <2>4, WalkStep
    <2>9. ASSUME NEW j \in 1..m, fs[j].complete, j # m PROVE j \in 1..b
      <3>1. CASE b = m - 1
        BY <2>3, <2>9, <3>1
      <3>2. CASE b = Highest(CompleteBelow(fs, m))
        <4>1. j \in CompleteBelow(fs, m)
          BY <1>1, <2>3, <2>9 DEF CompleteBelow
        <4>2. j <= b
          BY <1>1, <2>3, <3>2, <4>1, BelowOf
        <4> QED
          BY <2>3, <2>5, <4>2
      <3> QED
        BY <2>5, <3>1, <3>2
    <2>10. Covered(fs, m)
      BY <2>3, <2>7, <2>8, <2>9 DEF Covered
    <2> QED
      BY <2>1, <2>10
  <1> QED
    BY <1>1, <1>2, <1>3

\* Where the complete frames are linked around the others, Walk meets them all,
\* and only them.
LEMMA WalkComplete ==
  ASSUME NEW fs, Len(fs) \in Nat, Len(fs) # 0 => fs[Len(fs)].complete,
         \A k \in 1..Len(fs) : fs[k].previous = IF fs[k].complete THEN Highest(CompleteBelow(fs, k))
                                                                  ELSE k - 1
  PROVE  Down(fs) /\ Walk(fs, Len(fs)) = {k \in 1..Len(fs) : fs[k].complete}
  <1> DEFINE n == Len(fs)
             R == {k \in 1..n : fs[k].complete}
             W == [k \in 0..n |-> {j \in R : j <= k}]
  <1>1. ASSUME NEW k \in 1..n
        PROVE  /\ Highest(CompleteBelow(fs, k)) \in CompleteBelow(fs, k) \cup {0}
               /\ Highest(CompleteBelow(fs, k)) \in 0..n
               /\ \A j \in CompleteBelow(fs, k) : j <= Highest(CompleteBelow(fs, k))
    <2>1. CompleteBelow(fs, k) \in SUBSET (1..n)
      BY DEF CompleteBelow
    <2> QED
      BY <2>1, HighestOf DEF Null
  <1>2. Down(fs)
    <2> SUFFICES ASSUME NEW k \in 1..n PROVE fs[k].previous \in 0..(k - 1)
      BY DEF Down
    <2>1. CASE fs[k].complete
      <3> DEFINE b == Highest(CompleteBelow(fs, k))
      <3>1. fs[k].previous = b
        BY <2>1
      <3> HIDE DEF b
      <3>2. b \in CompleteBelow(fs, k) \cup {0} /\ b \in 0..n
        BY <1>1 DEF b
      <3> QED
        BY <3>1, <3>2 DEF CompleteBelow
    <2>2. CASE ~fs[k].complete
      BY <2>2
    <2> QED
      BY <2>1, <2>2
  <1>3. ASSUME NEW k \in R PROVE fs[k].previous \in R \cup {0} /\ W[k] = {k} \cup W[fs[k].previous]
    <2> DEFINE b == Highest(CompleteBelow(fs, k))
    <2>1. fs[k].previous = b
      OBVIOUS
    <2>2. b \in CompleteBelow(fs, k) \cup {0} /\ b \in 0..n /\ \A j \in CompleteBelow(fs, k) : j <= b
      BY <1>1
    <2> HIDE DEF b
    <2>3. b \in R \cup {0} /\ b < k
      BY <2>2 DEF CompleteBelow
    <2>4. ASSUME NEW j \in R PROVE j <= k <=> j = k \/ j <= b
      BY <2>2, <2>3 DEF CompleteBelow
    <2>5. {j \in R : j <= k} = {k} \cup {j \in R : j <= b}
      <3> HIDE DEF R
      <3> QED
        BY <2>4
    <2> QED
      BY <2>1, <2>2, <2>3, <2>5
  <1>4. W[0] = {}
    OBVIOUS
  <1> HIDE DEF W
  <1>5. \A k \in R \cup {0} : Walk(fs, k) = W[k]
    <2>1. R \subseteq 1..n
      OBVIOUS
    <2> HIDE DEF R
    <2>2. Walked(fs, R, W)
      BY <1>3, <1>4, <2>1 DEF Walked
    <2> QED
      BY <1>2, <2>2, WalkIs
  <1>6. n \in R \cup {0} /\ W[n] = R
    BY DEF W
  <1> QED
    BY <1>2, <1>5, <1>6

Frame == [complete : BOOLEAN, chunk : 0..NChunks, previous : Nat, stash : Nat]

\* The link of frame k while the greenlet runs, as CalledFrom says it
From(fs, n, k) == IF k <= n /\ fs[k].complete THEN Highest(CompleteBelow(fs, k)) ELSE k - 1

\* The frames of a greenlet whose _top_frame is tp, the first n of them left of a run
\* that was killed: what FramesInv says of each.
LinkOK(fs, n, tp, k) ==
    IF tp # Null /\ fs[k].complete
    THEN fs[k].stash = From(fs, n, k) /\ fs[k].previous = Highest(CompleteBelow(fs, k))
    ELSE fs[k].previous = From(fs, n, k)

FrameOK(fs, n, k) ==
    /\ fs[k].stash \in 0..k
    /\ fs[k].complete <=> fs[k].chunk # Null
    /\ ~fs[k].complete => k # n /\ k < Len(fs) /\ fs[k + 1].complete

FramesOK(fs, n, tp) ==
    /\ fs \in Seq(Frame)
    /\ n \in 0..Len(fs)
    /\ tp \in {Null, Len(fs)}
    /\ \A k \in 1..Len(fs) : FrameOK(fs, n, k) /\ LinkOK(fs, n, tp, k)

\* Its links go down, to the frame below or to the complete one next below.
LEMMA LinksOf ==
  ASSUME NEW fs, NEW n, NEW tp, FramesOK(fs, n, tp)
  PROVE  /\ \A k \in 1..Len(fs) : fs[k].previous \in {k - 1, Highest(CompleteBelow(fs, k))}
         /\ Down(fs) /\ Covered(fs, Len(fs))
         /\ \A k \in 1..Len(fs) : From(fs, n, k) \in 0..(k - 1)
  <1>1. \A k \in 1..Len(fs) : fs[k].previous \in {k - 1, Highest(CompleteBelow(fs, k))}
    BY DEF FramesOK, LinkOK, From
  <1>2. Len(fs) \in Nat
    BY DEF FramesOK
  <1>3. ASSUME NEW k \in 1..Len(fs) PROVE From(fs, n, k) \in 0..(k - 1)
    <2>1. Highest(CompleteBelow(fs, k)) \in 0..(k - 1) /\ k - 1 \in 0..(k - 1)
      BY <1>2, BelowOf
    <2> QED
      BY <2>1 DEF From
  <1> QED
    BY <1>1, <1>2, <1>3, WalkCovers

\* new has the frames of fs with other links.
Relinks(fs, new) ==
    /\ Len(new) = Len(fs)
    /\ \A k \in 1..Len(fs) : new[k].complete = fs[k].complete /\ new[k].chunk = fs[k].chunk

LEMMA RelinksComplete ==
  ASSUME NEW fs, NEW new, Relinks(fs, new), NEW k
  PROVE  CompleteBelow(new, k) = CompleteBelow(fs, k)
  BY DEF Relinks, CompleteBelow

LEMMA RelinksFrom ==
  ASSUME NEW fs, NEW new, Relinks(fs, new), NEW n, NEW k \in 1..Len(fs)
  PROVE  From(new, n, k) = From(fs, n, k)
  <1>1. CompleteBelow(new, k) = CompleteBelow(fs, k)
    BY RelinksComplete
  <1> QED
    BY <1>1 DEF Relinks, From

LEMMA RelinksFrameOK ==
  ASSUME NEW fs \in Seq(Frame), NEW new, Relinks(fs, new), NEW k \in 1..Len(fs),
         NEW n, FrameOK(fs, n, k), new[k].stash \in 0..k
  PROVE  FrameOK(new, n, k)
  <1>1. k < Len(fs) => k + 1 \in 1..Len(fs)
    OBVIOUS
  <1> QED
    BY <1>1 DEF Relinks, FrameOK

\* expose_frames() of a greenlet that runs.
LEMMA ExposedOK ==
  ASSUME NEW fs, NEW b, FramesOK(fs, b, Null)
  PROVE  /\ TopFrame(fs, Len(fs)) = Len(fs)
         /\ Relinks(fs, Exposed(fs, Len(fs)))
         /\ FramesOK(Exposed(fs, Len(fs)), b, Len(fs))
  <1> DEFINE n == Len(fs)
             new == Exposed(fs, n)
             W == Walk(fs, n)
  <1>1. n \in Nat /\ DOMAIN fs = 1..n /\ b \in 0..n
    BY DEF FramesOK
  <1>2. \A k \in 1..n : fs[k] \in Frame /\ FrameOK(fs, b, k) /\ fs[k].previous = From(fs, b, k)
    BY DEF FramesOK, LinkOK
  <1>3. W \subseteq 1..n /\ \A k \in 1..n : fs[k].complete => k \in W
    BY <1>1, LinksOf DEF Covered
  <1>4. TopFrame(fs, n) = n
    <2> DEFINE S == {k \in W : fs[k].complete}
    <2>1. TopFrame(fs, n) = Highest(S)
      BY DEF TopFrame
    <2>2. S \in SUBSET (1..n)
      BY <1>3
    <2>3. n # 0 => n \in S
      <3>1. n # 0 => n \in 1..n /\ fs[n].complete
        BY <1>1, <1>2 DEF FrameOK
      <3> HIDE DEF W
      <3> QED
        BY <1>3, <3>1
    <2> HIDE DEF S
    <2>4. Highest(S) \in 0..n /\ \A k \in S : k <= Highest(S)
      BY <1>1, <2>2, HighestOf
    <2> QED
      BY <1>1, <2>1, <2>3, <2>4
  <1>5. new = [k \in 1..n |->
                 IF fs[k].complete
                 THEN [fs[k] EXCEPT !.stash = fs[k].previous, !.previous = Highest(CompleteBelow(fs, k))]
                 ELSE fs[k]]
    <2>1. new = [k \in 1..n |->
                   IF k \in W /\ fs[k].complete
                   THEN [fs[k] EXCEPT !.stash = fs[k].previous,
                                      !.previous = Highest({j \in W : j < k /\ fs[j].complete})]
                   ELSE fs[k]]
      BY <1>1 DEF Exposed
    <2> HIDE DEF W, new
    <2>2. \A k \in 1..n : {j \in W : j < k /\ fs[j].complete} = CompleteBelow(fs, k)
      BY <1>3 DEF CompleteBelow
    <2>3. \A k \in 1..n : k \in W /\ fs[k].complete <=> fs[k].complete
      BY <1>3
    <2> QED
      BY <2>1, <2>2, <2>3
  <1> HIDE DEF new, W
  <1>6. ASSUME NEW k \in 1..n
        PROVE  /\ new[k] \in Frame
               /\ new[k].complete = fs[k].complete /\ new[k].chunk = fs[k].chunk
               /\ new[k].complete => /\ new[k].stash = From(fs, b, k)
                                     /\ new[k].previous = Highest(CompleteBelow(fs, k))
               /\ ~new[k].complete => new[k] = fs[k]
    <2>1. Highest(CompleteBelow(fs, k)) \in Nat
      BY <1>1, BelowOf
    <2>2. PICK e \in Nat : e = From(fs, b, k)
      BY LinksOf
    <2>3. fs[k] \in Frame /\ fs[k].previous = e
      BY <1>2, <2>2
    <2> QED
      BY <1>5, <2>1, <2>2, <2>3 DEF Frame
  <1>7. new \in Seq(Frame) /\ Len(new) = n
    <2>1. new = [k \in 1..n |-> new[k]]
      BY <1>5
    <2>2. new \in [1..n -> Frame]
      BY <1>6, <2>1
    <2> QED
      BY <1>1, <2>2
  <1>8. Relinks(fs, new)
    BY <1>6, <1>7 DEF Relinks
  <1>9. ASSUME NEW k \in 1..n PROVE FrameOK(new, b, k) /\ LinkOK(new, b, n, k)
    <2>1. new[k].stash \in 0..k
      <3>1. From(fs, b, k) \in 0..(k - 1)
        BY LinksOf
      <3> QED
        BY <1>1, <1>2, <1>6, <3>1 DEF FrameOK
    <2>2. FrameOK(new, b, k)
      BY <1>2, <1>8, <2>1, RelinksFrameOK DEF FramesOK
    <2>3. CompleteBelow(new, k) = CompleteBelow(fs, k) /\ From(new, b, k) = From(fs, b, k)
      BY <1>8, RelinksComplete, RelinksFrom
    <2>4. LinkOK(new, b, n, k)
      BY <1>1, <1>2, <1>6, <2>3 DEF LinkOK, Null
    <2> QED
      BY <2>2, <2>4
  <1> QED
    BY <1>1, <1>4, <1>7, <1>8, <1>9 DEF FramesOK, new

\* A greenlet that is suspended: Walk from its top frame meets the complete frames.
LEMMA SuspendedWalk ==
  ASSUME NEW fs, NEW b, FramesOK(fs, b, Len(fs))
  PROVE  Walk(fs, Len(fs)) = {k \in 1..Len(fs) : fs[k].complete}
  <1>1. Len(fs) \in Nat
    BY DEF FramesOK
  <1>2. CASE Len(fs) = 0
    <2>1. Down(fs)
      BY <1>2 DEF Down
    <2> QED
      BY <1>2, <2>1, WalkStep
  <1>3. CASE Len(fs) # 0
    <2>1. fs[Len(fs)].complete
      BY <1>1, <1>3 DEF FramesOK, FrameOK
    <2>2. \A k \in 1..Len(fs) : fs[k].previous = IF fs[k].complete THEN Highest(CompleteBelow(fs, k))
                                                                   ELSE k - 1
      <3> SUFFICES ASSUME NEW k \in 1..Len(fs)
                   PROVE  fs[k].previous = IF fs[k].complete THEN Highest(CompleteBelow(fs, k)) ELSE k - 1
        OBVIOUS
      <3>1. LinkOK(fs, b, Len(fs), k)
        BY DEF FramesOK
      <3> QED
        BY <1>3, <3>1 DEF LinkOK, From, Null
    <2> QED
      BY <1>1, <2>1, <2>2, WalkComplete
  <1> QED
    BY <1>2, <1>3

\* unexpose_frames() of a greenlet that is suspended.
LEMMA UnexposedOK ==
  ASSUME NEW fs, NEW b, FramesOK(fs, b, Len(fs))
  PROVE  Relinks(fs, Unexposed(fs, Len(fs))) /\ FramesOK(Unexposed(fs, Len(fs)), b, Null)
  <1> DEFINE n == Len(fs)
             new == Unexposed(fs, n)
  <1>1. n \in Nat /\ DOMAIN fs = 1..n /\ b \in 0..n
    BY DEF FramesOK
  <1>2. ASSUME NEW k \in 1..n
        PROVE  /\ fs[k] \in Frame /\ FrameOK(fs, b, k)
               /\ fs[k].complete => fs[k].stash = From(fs, b, k)
               /\ ~fs[k].complete => fs[k].previous = From(fs, b, k)
    BY <1>1 DEF FramesOK, LinkOK, Null
  <1>3. new = [k \in 1..n |->
                 IF fs[k].complete THEN [fs[k] EXCEPT !.previous = fs[k].stash] ELSE fs[k]]
    BY <1>1, SuspendedWalk DEF Unexposed
  <1> HIDE DEF new
  <1>4. ASSUME NEW k \in 1..n
        PROVE  /\ new[k] \in Frame
               /\ new[k].complete = fs[k].complete /\ new[k].chunk = fs[k].chunk
               /\ new[k].previous = From(fs, b, k) /\ new[k].stash = fs[k].stash
    BY <1>2, <1>3 DEF Frame
  <1>5. new \in Seq(Frame) /\ Len(new) = n
    BY <1>1, <1>3, <1>4
  <1>6. Relinks(fs, new)
    BY <1>4, <1>5 DEF Relinks
  <1>7. ASSUME NEW k \in 1..n PROVE FrameOK(new, b, k) /\ LinkOK(new, b, Null, k)
    <2>1. new[k].stash \in 0..k
      BY <1>2, <1>4 DEF FrameOK
    <2>2. FrameOK(new, b, k)
      BY <1>2, <1>6, <2>1, RelinksFrameOK DEF FramesOK
    <2>3. From(new, b, k) = From(fs, b, k)
      BY <1>6, RelinksFrom
    <2> QED
      BY <1>4, <2>2, <2>3 DEF LinkOK
  <1> QED
    BY <1>1, <1>5, <1>6, <1>7 DEF FramesOK, new

\* new is fs with the frame of a function in chunk c, above an entry frame or none.
Pushes(fs, new, entry, c) ==
    /\ new \in Seq(Frame)
    /\ Len(new) = Len(fs) + (IF entry THEN 2 ELSE 1)
    /\ \A k \in 1..Len(fs) : new[k] = fs[k]
    /\ new[Len(new)] = [complete |-> TRUE, chunk |-> c, previous |-> Len(new) - 1, stash |-> Null]
    /\ entry => new[Len(fs) + 1] = [complete |-> FALSE, chunk |-> Null, previous |-> Len(fs),
                                    stash |-> Null]

\* The complete frames of a run that was not killed
Counted(fs, b) == {k \in CompleteOf(fs) : k > b}

\* Frames above and below do not change what the first ones of a sequence are.
LEMMA PrefixFrom ==
  ASSUME NEW fs, NEW new, NEW m \in Nat, Len(fs) \in Nat, Len(new) \in Nat, m <= Len(fs), m <= Len(new),
         \A k \in 1..m : new[k] = fs[k], NEW b
  PROVE  \A k \in 1..m : From(new, b, k) = From(fs, b, k)
  <1> SUFFICES ASSUME NEW k \in 1..m PROVE From(new, b, k) = From(fs, b, k)
    OBVIOUS
  <1>1. \A j : j \in 1..Len(fs) /\ j < k <=> j \in 1..(k - 1)
    OBVIOUS
  <1>2. \A j : j \in 1..Len(new) /\ j < k <=> j \in 1..(k - 1)
    OBVIOUS
  <1>3. \A j \in 1..(k - 1) : new[j] = fs[j]
    OBVIOUS
  <1>4. CompleteBelow(fs, k) = {j \in 1..(k - 1) : fs[j].complete}
    BY <1>1 DEF CompleteBelow
  <1>5. CompleteBelow(new, k) = {j \in 1..(k - 1) : new[j].complete}
    BY <1>2 DEF CompleteBelow
  <1>6. CompleteBelow(new, k) = CompleteBelow(fs, k)
    BY <1>3, <1>4, <1>5
  <1> QED
    BY <1>6 DEF From

LEMMA PushOK ==
  ASSUME NEW fs, NEW b, FramesOK(fs, b, Null), NEW new, NEW entry \in BOOLEAN, NEW c, c # Null,
         Pushes(fs, new, entry, c), entry \/ Len(fs) > b
  PROVE  /\ FramesOK(new, b, Null)
         /\ Counted(new, b) = Counted(fs, b) \cup {Len(new)}
         /\ Len(new) \in Nat /\ Len(fs) < Len(new)
         /\ new[Len(new)].chunk = c
         /\ \A k \in 1..Len(new) : new[k].complete =>
               k = Len(new) \/ (k \in 1..Len(fs) /\ new[k] = fs[k])
  <1> DEFINE n == Len(fs)
             m == Len(new)
  <1>1. /\ n \in Nat /\ m \in Nat /\ n < m /\ m <= n + 2 /\ DOMAIN fs = 1..n /\ DOMAIN new = 1..m
        /\ b \in 0..n
    BY DEF FramesOK, Pushes
  <1>2. \A k \in 1..n : FrameOK(fs, b, k) /\ fs[k].previous = From(fs, b, k) /\ new[k] = fs[k]
    BY DEF FramesOK, LinkOK, Pushes
  <1>3. /\ new[m] = [complete |-> TRUE, chunk |-> c, previous |-> m - 1, stash |-> Null]
        /\ n + 1 # m => new[n + 1] = [complete |-> FALSE, chunk |-> Null, previous |-> n,
                                       stash |-> Null]
        /\ n + 1 # m => n + 2 = m
    BY <1>1 DEF Pushes
  <1>0. \A k \in 1..n : From(new, b, k) = From(fs, b, k)
    BY <1>1, <1>2, PrefixFrom
  <1> HIDE DEF n, m
  <1>4. \A k \in 1..m : k \in 1..n \/ k = m \/ (k = n + 1 /\ n + 2 = m)
    BY <1>1
  <1>5. new[m].complete /\ (n + 2 = m => ~new[n + 1].complete)
    BY <1>1, <1>3
  <1>6. ASSUME NEW k \in 1..m PROVE FrameOK(new, b, k) /\ LinkOK(new, b, Null, k)
    <2>1. CASE k \in 1..n
      <3>1. FrameOK(fs, b, k) /\ new[k].previous = From(new, b, k) /\ new[k] = fs[k]
        BY <1>0, <1>2, <2>1
      <3>2. ~fs[k].complete => k # b /\ k + 1 \in 1..n /\ fs[k + 1].complete
        BY <1>1, <2>1, <3>1 DEF FrameOK, n
      <3>3. ~new[k].complete => k # b /\ k < m /\ new[k + 1].complete
        BY <1>1, <1>2, <2>1, <3>1, <3>2
      <3> QED
        BY <3>1, <3>3 DEF FrameOK, LinkOK, m
    <2>2. CASE k = m
      <3>1. ~(m <= b) /\ m \in Nat /\ m - 1 \in Nat
        BY <1>1
      <3>2. From(new, b, m) = m - 1
        BY <3>1 DEF From
      <3> QED
        BY <1>1, <1>3, <2>2, <3>2 DEF FrameOK, LinkOK, Null
    <2>3. CASE k = n + 1 /\ n + 2 = m
      <3>1. n + 1 # m /\ n = k - 1 /\ k < m /\ k + 1 = m /\ k \in Nat /\ k # b
        BY <1>1, <2>3
      <3>2. new[k] = [complete |-> FALSE, chunk |-> Null, previous |-> k - 1, stash |-> Null]
        BY <1>3, <2>3, <3>1
      <3>3. ~new[k].complete /\ new[k].chunk = 0 /\ new[k].previous = k - 1 /\ new[k].stash = 0
        BY <3>2 DEF Null
      <3>4. From(new, b, k) = k - 1
        BY <3>3 DEF From
      <3> HIDE <3>2
      <3> QED
        BY <1>5, <3>1, <3>3, <3>4 DEF FrameOK, LinkOK, Null, m
    <2> QED
      BY <1>1, <1>4, <2>1, <2>2, <2>3
  <1>7. FramesOK(new, b, Null)
    <2>1. b \in 0..m
      BY <1>1
    <2> QED
      BY <1>6, <2>1 DEF FramesOK, Pushes, m
  <1>8. 1..n \subseteq 1..m /\ m \in 1..m /\ m \notin 1..n /\ n + 1 \notin 1..n /\ m > b
    BY <1>1
  <1>9. Counted(new, b) = Counted(fs, b) \cup {m}
    BY <1>1, <1>2, <1>4, <1>5, <1>8 DEF CompleteOf, Counted
  <1>10. new[m].chunk = c
    BY <1>3
  <1>11. \A k \in 1..m : new[k].complete => k = m \/ (k \in 1..n /\ new[k] = fs[k])
    BY <1>2, <1>4, <1>5
  <1> QED
    BY <1>1, <1>7, <1>9, <1>10, <1>11 DEF m, n

LEMMA Concatenated ==
  ASSUME NEW S, NEW s \in Seq(S), NEW u \in Seq(S)
  PROVE  /\ s \o u \in Seq(S) /\ Len(s \o u) = Len(s) + Len(u)
         /\ \A k \in 1..Len(s) : (s \o u)[k] = s[k]
         /\ \A k \in 1..Len(u) : (s \o u)[Len(s) + k] = u[k]
  OBVIOUS

LEMMA PushedFramesOK ==
  ASSUME NEW fs \in Seq(Frame), NEW entry \in BOOLEAN, NEW c \in 1..NChunks
  PROVE  Pushes(fs, fs \o PushedFrames(Len(fs), entry, c, Len(fs)), entry, c)
  <1> DEFINE n == Len(fs)
             x == [complete |-> FALSE, chunk |-> Null, previous |-> n, stash |-> Null]
             y(p) == [complete |-> TRUE, chunk |-> c, previous |-> p, stash |-> Null]
             new == PushedFrames(n, entry, c, n)
             all == fs \o new
  <1>1. n \in Nat /\ n + 1 \in Nat
    OBVIOUS
  <1>2. x \in Frame /\ \A p \in Nat : y(p) \in Frame
    BY <1>1, BoundsAssumption DEF Frame, Null
  <1>3. new = IF entry THEN <<x, y(n + 1)>> ELSE <<y(n)>>
    BY DEF PushedFrames, Link
  <1> HIDE DEF n, x, y, new
  <1>4. ASSUME new \in Seq(Frame)
        PROVE  /\ all \in Seq(Frame) /\ Len(all) = n + Len(new)
               /\ \A k \in 1..n : all[k] = fs[k]
               /\ \A k \in 1..Len(new) : all[n + k] = new[k]
    BY <1>4, Concatenated DEF n
  <1> HIDE DEF all
  <1>5. ASSUME entry PROVE Pushes(fs, all, entry, c)
    <2>1. new = <<x, y(n + 1)>>
      BY <1>3, <1>5
    <2>2. new \in Seq(Frame) /\ Len(new) = 2 /\ new[1] = x /\ new[2] = y(n + 1)
      BY <1>1, <1>2, <2>1
    <2>3. 1 \in 1..Len(new) /\ 2 \in 1..Len(new) /\ n + 2 - 1 = n + 1
      BY <1>1, <2>2
    <2>4. Len(all) = n + 2 /\ all[n + 1] = x /\ all[n + 2] = y(n + 2 - 1)
      BY <1>4, <2>2, <2>3
    <2>5. all[n + 1] = [complete |-> FALSE, chunk |-> Null, previous |-> n, stash |-> Null]
      BY <2>4 DEF x
    <2>6. all[n + 2] = [complete |-> TRUE, chunk |-> c, previous |-> n + 2 - 1, stash |-> Null]
      BY <2>4 DEF y
    <2>7. all \in Seq(Frame) /\ \A k \in 1..n : all[k] = fs[k]
      BY <1>4, <2>2
    <2> QED
      BY <1>5, <2>4, <2>5, <2>6, <2>7 DEF Pushes, n
  <1>6. ASSUME ~entry PROVE Pushes(fs, all, entry, c)
    <2>1. new = <<y(n)>>
      BY <1>3, <1>6
    <2>2. new \in Seq(Frame) /\ Len(new) = 1 /\ new[1] = y(n)
      BY <1>1, <1>2, <2>1
    <2>3. 1 \in 1..Len(new) /\ n + 1 - 1 = n
      BY <1>1, <2>2
    <2>4. Len(all) = n + 1 /\ all[n + 1] = y(n + 1 - 1)
      BY <1>4, <2>2, <2>3
    <2>5. all[n + 1] = [complete |-> TRUE, chunk |-> c, previous |-> n + 1 - 1, stash |-> Null]
      BY <2>4 DEF y
    <2>6. all \in Seq(Frame) /\ \A k \in 1..n : all[k] = fs[k]
      BY <1>4, <2>2
    <2> QED
      BY <1>6, <2>4, <2>5, <2>6 DEF Pushes, n
  <1> QED
    BY <1>5, <1>6 DEF all, new, n

\* The frame that the innermost one returns to, past its entry frame if it has one.
BackOf(fs) ==
    LET p == fs[Len(fs)].previous
    IN  IF p # Null /\ ~fs[p].complete THEN fs[p].previous ELSE p

LEMMA BackIs ==
  ASSUME NEW fs, NEW b, FramesOK(fs, b, Null), Len(fs) > b
  PROVE  /\ BackOf(fs) \in b..(Len(fs) - 1) /\ BackOf(fs) \in Nat
         /\ BackOf(fs) # 0 => fs[BackOf(fs)].complete
         /\ \A k \in (BackOf(fs) + 1)..(Len(fs) - 1) : ~fs[k].complete
  <1> DEFINE n == Len(fs)
             p == n - 1
             back == BackOf(fs)
  <1>1. n \in Nat /\ n # 0 /\ b \in Nat /\ b <= p
    BY DEF FramesOK
  <1>2. \A k \in 1..n : FrameOK(fs, b, k) /\ fs[k].previous = From(fs, b, k)
    BY DEF FramesOK, LinkOK
  <1>3. \A k \in 1..n : ~fs[k].complete => k # b /\ fs[k + 1].complete /\ fs[k].previous = k - 1
    BY <1>2 DEF FrameOK, From
  <1>4. back = IF p # 0 /\ ~fs[p].complete THEN fs[p].previous ELSE p
    <2>1. n \in 1..n /\ ~(n <= b)
      BY <1>1
    <2>2. fs[n].previous = n - 1
      BY <1>2, <2>1 DEF From
    <2> QED
      BY <2>2 DEF BackOf, Null
  <1> HIDE DEF n, back
  <1>5. /\ back \in b..(n - 1)
        /\ back # 0 => fs[back].complete
        /\ \A k \in (back + 1)..(n - 1) : ~fs[k].complete
    <2>1. CASE p = 0
      BY <1>1, <1>4, <2>1
    <2>2. CASE p # 0 /\ fs[p].complete
      BY <1>1, <1>4, <2>2
    <2>3. CASE p # 0 /\ ~fs[p].complete
      <3>1. p \in 1..n /\ back = p - 1 /\ p # b
        BY <1>1, <1>3, <1>4, <2>3
      <3>2. back # 0 => back \in 1..n /\ back + 1 = p
        BY <1>1, <3>1
      <3>3. back # 0 => fs[back].complete
        BY <1>3, <2>3, <3>2
      <3>4. \A k \in (back + 1)..(n - 1) : k = p
        BY <1>1, <3>1
      <3>5. back \in b..(n - 1)
        BY <1>1, <3>1
      <3> QED
        BY <2>3, <3>3, <3>4, <3>5
    <2> QED
      BY <2>1, <2>2, <2>3
  <1>6. back \in Nat
    BY <1>1, <1>5
  <1> QED
    BY <1>5, <1>6 DEF n, back

LEMMA Prefix ==
  ASSUME NEW S, NEW s \in Seq(S), NEW m \in 0..Len(s)
  PROVE  /\ SubSeq(s, 1, m) \in Seq(S) /\ Len(SubSeq(s, 1, m)) = m
         /\ \A k \in 1..m : SubSeq(s, 1, m)[k] = s[k]
  OBVIOUS

\* A return drops the innermost frame, which is complete, and its entry frame.
Popped(fs) == SubSeq(fs, 1, BackOf(fs))

LEMMA ReturnOK ==
  ASSUME NEW fs, NEW b, FramesOK(fs, b, Null), Len(fs) > b, NEW new, new = Popped(fs)
  PROVE  /\ Len(new) = BackOf(fs)
         /\ \A k \in 1..BackOf(fs) : new[k] = fs[k]
         /\ FramesOK(new, b, Null)
         /\ Counted(new, b) = Counted(fs, b) \ {Len(fs)}
         /\ Len(fs) \in Counted(fs, b) /\ fs[Len(fs)].complete
  <1> DEFINE n == Len(fs)
             back == BackOf(fs)
  <1>1. n \in Nat /\ n # 0 /\ b \in Nat /\ b < n /\ DOMAIN fs = 1..n /\ n \in 1..n /\ fs \in Seq(Frame)
    BY DEF FramesOK
  <1>2. \A k \in 1..n : FrameOK(fs, b, k) /\ fs[k].previous = From(fs, b, k) /\ fs[k] \in Frame
    BY DEF FramesOK, LinkOK
  <1>3. fs[n].complete
    BY <1>1, <1>2 DEF FrameOK
  <1>4. /\ back \in b..(n - 1) /\ back \in Nat
        /\ back # 0 => fs[back].complete
        /\ \A k \in (back + 1)..(n - 1) : ~fs[k].complete
    BY BackIs
  <1> HIDE DEF back
  <1>5. new = SubSeq(fs, 1, back)
    BY DEF back, Popped
  <1>6. back \in Nat /\ back <= n /\ 1..back \subseteq 1..n
    BY <1>1, <1>4
  <1>7. new \in Seq(Frame) /\ Len(new) = back /\ \A k \in 1..back : new[k] = fs[k]
    <2>1. back \in 0..Len(fs)
      BY <1>1, <1>6
    <2>2. fs \in Seq(Frame)
      BY <1>1
    <2>3. /\ SubSeq(fs, 1, back) \in Seq(Frame) /\ Len(SubSeq(fs, 1, back)) = back
          /\ \A k \in 1..back : SubSeq(fs, 1, back)[k] = fs[k]
      BY <2>1, <2>2, Prefix
    <2> QED
      BY <1>5, <2>3
  <1>8. DOMAIN new = 1..back
    BY <1>7
  <1>0. \A k \in 1..back : From(new, b, k) = From(fs, b, k)
    <2>1. Len(fs) \in Nat /\ Len(new) \in Nat /\ back <= Len(fs) /\ back <= Len(new)
      BY <1>1, <1>6, <1>7
    <2>2. \A k \in 1..back : new[k] = fs[k]
      BY <1>7
    <2>3. back \in Nat
      BY <1>6
    <2> HIDE DEF n
    <2> QED
      BY <2>1, <2>2, <2>3, PrefixFrom
  <1> HIDE DEF n
  <1>9. ASSUME NEW k \in 1..back PROVE FrameOK(new, b, k) /\ LinkOK(new, b, Null, k)
    <2>1. k \in 1..n /\ (k < back => k + 1 \in 1..back) /\ (k = back \/ k < back)
      BY <1>6
    <2>2. new[k] = fs[k] /\ (k < back => new[k + 1] = fs[k + 1])
      BY <1>7, <2>1
    <2>3. k = back => fs[k].complete
      BY <1>4, <2>1
    <2>4. ~fs[k].complete => k # b /\ k < back /\ new[k + 1].complete
      BY <1>2, <2>1, <2>2, <2>3 DEF FrameOK
    <2>5. Len(new) = back
      BY <1>7
    <2> QED
      BY <1>0, <1>2, <2>1, <2>2, <2>4, <2>5 DEF FrameOK, LinkOK
  <1>10. FramesOK(new, b, Null)
    <2>1. b \in 0..back
      BY <1>1, <1>4
    <2> QED
      BY <1>7, <1>9, <2>1 DEF FramesOK
  <1>11. \A k \in 1..n : k \in 1..back \/ k = n \/ k \in (back + 1)..(n - 1)
    BY <1>1, <1>4
  <1>12. n \notin 1..back /\ \A k \in (back + 1)..(n - 1) : k \notin 1..back
    BY <1>1, <1>4
  <1>13. Counted(new, b) = Counted(fs, b) \ {n}
    BY <1>1, <1>4, <1>6, <1>7, <1>8, <1>11, <1>12 DEF CompleteOf, Counted
  <1>14. n \in Counted(fs, b)
    BY <1>1, <1>3 DEF CompleteOf, Counted
  <1> QED
    BY <1>3, <1>7, <1>10, <1>13, <1>14 DEF back, n

-----------------------------------------------------------------------------
(* Lists of chunks *)

LinksType == [1..NChunks -> Free..NChunks]

\* S and what its chunks are linked to
Reached(links, S) == S \cup {links[k] : k \in S \cap 1..NChunks}

\* f is what Linked computes, in up to m steps.
Reaches(f, links, c, m) ==
    f = [n \in 0..m |-> IF n = 0 THEN {c} ELSE Reached(links, f[n - 1])]

\* The recursion of Linked ends.
LEMMA ReachesExists ==
  ASSUME NEW links, NEW c
  PROVE  \E f : Reaches(f, links, c, NChunks)
  <1> DEFINE Bad == {m \in 0..NChunks : ~\E f : Reaches(f, links, c, m)}
  <1>1. NChunks \in Nat
    BY BoundsAssumption
  <1>2. ASSUME Bad # {} PROVE FALSE
    <2>1. PICK m \in Bad : \A k \in Bad : m <= k
      <3>1. Bad \subseteq Nat
        BY <1>1
      <3> HIDE DEF Bad
      <3> QED
        BY <1>2, <3>1, LeastNumber
    <2>2. CASE m = 0
      <3>1. Reaches([n \in 0..0 |-> {c}], links, c, 0)
        BY DEF Reaches
      <3> QED
        BY <3>1, <2>2
    <2>3. CASE m # 0
      <3>1. m \in 1..NChunks /\ m - 1 \in 0..NChunks /\ m - 1 \notin Bad
        BY <1>1, <2>1, <2>3
      <3>2. PICK f : Reaches(f, links, c, m - 1)
        BY <3>1
      <3>3. \A n \in 0..(m - 1) : f[n] = IF n = 0 THEN {c} ELSE Reached(links, f[n - 1])
        BY <3>2 DEF Reaches
      <3> DEFINE h == [n \in 0..m |-> IF n = m THEN Reached(links, f[m - 1]) ELSE f[n]]
      <3>4. ASSUME NEW n \in 0..m
            PROVE  h[n] = IF n = 0 THEN {c} ELSE Reached(links, h[n - 1])
        <4>1. CASE n = 0
          <5>1. n \in 0..(m - 1) /\ n # m
            BY <3>1, <4>1
          <5> QED
            BY <3>3, <4>1, <5>1
        <4>2. CASE n # 0
          <5>1. n - 1 \in 0..(m - 1) /\ n - 1 \in 0..m /\ n - 1 # m /\ (n # m => n \in 0..(m - 1))
            BY <3>1, <4>2
          <5>2. h[n - 1] = f[n - 1]
            BY <5>1
          <5>3. h[n] = Reached(links, f[n - 1])
            BY <3>3, <4>2, <5>1
          <5> HIDE DEF h
          <5> QED
            BY <4>2, <5>2, <5>3
        <4> QED
          BY <4>1, <4>2
      <3>5. h = [n \in 0..m |-> h[n]]
        OBVIOUS
      <3> HIDE DEF h
      <3>6. Reaches(h, links, c, m)
        BY <3>4, <3>5 DEF Reaches
      <3> QED
        BY <3>6
    <2> QED
      BY <2>2, <2>3
  <1> QED
    BY <1>1, <1>2

LEMMA LinkedIs ==
  ASSUME NEW links, NEW c
  PROVE  \E f : /\ f[0] = {c}
                /\ \A n \in 1..NChunks : f[n] = Reached(links, f[n - 1])
                /\ Linked(links, c) = f[NChunks] \cap 1..NChunks
  <1> DEFINE f == CHOOSE f : Reaches(f, links, c, NChunks)
  <1>1. Reaches(f, links, c, NChunks)
    BY ReachesExists
  <1>2. Linked(links, c) = f[NChunks] \cap 1..NChunks
    BY DEF Linked, Reaches, Reached
  <1> HIDE DEF f
  <1>3. \A n \in 0..NChunks : f[n] = IF n = 0 THEN {c} ELSE Reached(links, f[n - 1])
    BY <1>1 DEF Reaches
  <1>4. f[0] = {c}
    <2>1. 0 \in 0..NChunks
      BY BoundsAssumption
    <2> QED
      BY <1>3, <2>1
  <1>5. \A n \in 1..NChunks : n \in 0..NChunks /\ n # 0
    BY BoundsAssumption
  <1> QED
    BY <1>2, <1>3, <1>4, <1>5

\* S holds with every chunk the one that it is linked to.
Closed(links, S) == \A k \in S : links[k] \in 1..NChunks => links[k] \in S

\* The list of c is within every closed set that holds c.
LEMMA LinkedLeast ==
  ASSUME NEW links, NEW c, NEW S \in SUBSET (1..NChunks), Closed(links, S),
         c \in 1..NChunks => c \in S
  PROVE  Linked(links, c) \subseteq S
  <1>1. PICK f : /\ f[0] = {c}
                 /\ \A n \in 1..NChunks : f[n] = Reached(links, f[n - 1])
                 /\ Linked(links, c) = f[NChunks] \cap 1..NChunks
    BY LinkedIs
  <1> DEFINE Bad == {n \in 0..NChunks : ~(f[n] \cap 1..NChunks \subseteq S)}
  <1>2. ASSUME Bad # {} PROVE FALSE
    <2>1. PICK m \in Bad : \A k \in Bad : m <= k
      <3>1. Bad \subseteq Nat
        BY BoundsAssumption
      <3> HIDE DEF Bad
      <3> QED
        BY <1>2, <3>1, LeastNumber
    <2>2. m # 0
      BY <1>1, <2>1
    <2>3. m \in 1..NChunks /\ m - 1 \in 0..NChunks /\ m - 1 \notin Bad
      BY <2>1, <2>2, BoundsAssumption
    <2>4. f[m - 1] \cap 1..NChunks \subseteq S
      BY <2>3
    <2>5. f[m] = f[m - 1] \cup {links[k] : k \in f[m - 1] \cap 1..NChunks}
      BY <1>1, <2>3 DEF Reached
    <2>6. f[m] \cap 1..NChunks \subseteq S
      BY <2>4, <2>5 DEF Closed
    <2> QED
      BY <2>1, <2>6
  <1>3. NChunks \in 0..NChunks
    BY BoundsAssumption
  <1> QED
    BY <1>1, <1>2, <1>3

LEMMA LinkedChunks ==
  ASSUME NEW links, NEW c
  PROVE  Linked(links, c) \in SUBSET (1..NChunks)
  BY DEF Linked

LEMMA LargerSet ==
  ASSUME NEW S, NEW T \in SUBSET (1..NChunks), S \subseteq T, NEW d \in T, d \notin S
  PROVE  /\ Cardinality(S) \in Nat /\ Cardinality(T) \in Nat
         /\ Cardinality(S) < Cardinality(T) /\ Cardinality(T) <= NChunks
  <1>1. IsFiniteSet(1..NChunks) /\ Cardinality(1..NChunks) = NChunks
    BY FS_Interval, BoundsAssumption
  <1>2. IsFiniteSet(T) /\ Cardinality(T) <= NChunks
    BY <1>1, FS_Subset
  <1>3. IsFiniteSet(S \cup {d}) /\ Cardinality(S \cup {d}) <= Cardinality(T)
    <2>1. S \cup {d} \in SUBSET T
      OBVIOUS
    <2> QED
      BY <1>2, <2>1, FS_Subset
  <1>4. IsFiniteSet(S)
    <2>1. S \in SUBSET T
      OBVIOUS
    <2> QED
      BY <1>2, <2>1, FS_Subset
  <1>5. Cardinality(S \cup {d}) = Cardinality(S) + 1
    BY <1>4, FS_AddElement
  <1> QED
    BY <1>2, <1>3, <1>4, <1>5, FS_CardinalityType

\* The list of a chunk holds it, and with every chunk the one it is linked to: a
\* path that meets no chunk twice has no more steps than there are chunks.
LEMMA LinkedClosed ==
  ASSUME NEW links, NEW c \in 1..NChunks
  PROVE  c \in Linked(links, c) /\ Closed(links, Linked(links, c))
  <1>1. PICK f : /\ f[0] = {c}
                 /\ \A n \in 1..NChunks : f[n] = Reached(links, f[n - 1])
                 /\ Linked(links, c) = f[NChunks] \cap 1..NChunks
    BY LinkedIs
  <1> DEFINE U(n) == f[n] \cap 1..NChunks
             Good(n) == c \in U(n) /\ (Closed(links, U(n)) \/ Cardinality(U(n)) >= n + 1)
             Bad == {n \in 0..NChunks : ~Good(n)}
  <1>2. ASSUME Bad # {} PROVE FALSE
    <2>1. PICK m \in Bad : \A k \in Bad : m <= k
      <3>1. Bad \in SUBSET Nat
        BY BoundsAssumption
      <3> HIDE DEF Bad
      <3> QED
        BY <1>2, <3>1, LeastNumber
    <2>2. CASE m = 0
      <3>1. U(0) = {c}
        BY <1>1
      <3>2. Cardinality(U(0)) = 1
        BY <3>1, FS_Singleton
      <3> HIDE DEF U
      <3>3. Good(0)
        BY <3>1, <3>2
      <3> QED
        BY <2>1, <2>2, <3>3
    <2>3. CASE m # 0
      <3>1. m \in 1..NChunks /\ m - 1 \in 0..NChunks /\ m - 1 \notin Bad
        BY <2>1, <2>3, BoundsAssumption
      <3>2. Good(m - 1)
        BY <3>1
      <3>3. U(m) = U(m - 1) \cup ({links[k] : k \in U(m - 1)} \cap 1..NChunks)
        <4>1. f[m] = f[m - 1] \cup {links[k] : k \in f[m - 1] \cap 1..NChunks}
          BY <1>1, <3>1 DEF Reached
        <4> QED
          BY <4>1
      <3>4. U(m) \in SUBSET (1..NChunks)
        OBVIOUS
      <3> HIDE DEF U
      <3>5. CASE Closed(links, U(m - 1))
        <4>1. U(m) = U(m - 1)
          BY <3>3, <3>5 DEF Closed
        <4> QED
          BY <2>1, <3>2, <3>5, <4>1
      <3>6. CASE ~Closed(links, U(m - 1))
        <4>1. PICK k \in U(m - 1) : links[k] \in 1..NChunks /\ links[k] \notin U(m - 1)
          BY <3>6 DEF Closed
        <4>2. links[k] \in U(m) /\ U(m - 1) \subseteq U(m)
          BY <3>3, <4>1
        <4>3. /\ Cardinality(U(m - 1)) \in Nat /\ Cardinality(U(m)) \in Nat
              /\ Cardinality(U(m - 1)) < Cardinality(U(m))
          BY <3>4, <4>1, <4>2, LargerSet
        <4>4. Cardinality(U(m)) >= m + 1
          BY <3>1, <3>2, <3>6, <4>3
        <4> QED
          BY <2>1, <3>2, <4>2, <4>4
      <3> QED
        BY <3>5, <3>6
    <2> QED
      BY <2>2, <2>3
  <1>3. Good(NChunks)
    <2>1. NChunks \in 0..NChunks
      BY BoundsAssumption
    <2> QED
      BY <1>2, <2>1
  <1>4. U(NChunks) = Linked(links, c) /\ U(NChunks) \in SUBSET (1..NChunks)
    BY <1>1
  <1>5. Closed(links, U(NChunks))
    <2> HIDE DEF U
    <2> SUFFICES ASSUME ~Closed(links, U(NChunks)) PROVE FALSE
      OBVIOUS
    <2>1. Cardinality(U(NChunks)) >= NChunks + 1
      BY <1>3
    <2>2. IsFiniteSet(1..NChunks) /\ Cardinality(1..NChunks) = NChunks
      BY FS_Interval, BoundsAssumption
    <2>3. IsFiniteSet(U(NChunks)) /\ Cardinality(U(NChunks)) <= NChunks
      BY <1>4, <2>2, FS_Subset
    <2> QED
      BY <2>1, <2>3, FS_CardinalityType, BoundsAssumption
  <1> QED
    BY <1>3, <1>4, <1>5

LEMMA LinkedNone ==
  ASSUME NEW links, NEW c, c \notin 1..NChunks
  PROVE  Linked(links, c) = {}
  <1>1. Closed(links, {})
    BY DEF Closed
  <1> QED
    BY <1>1, LinkedLeast

LEMMA LinkedBelow ==
  ASSUME NEW links, NEW c, NEW k \in Linked(links, c)
  PROVE  c \in 1..NChunks /\ Linked(links, links[k]) \subseteq Linked(links, c)
  <1>1. c \in 1..NChunks
    BY LinkedNone
  <1>2. Closed(links, Linked(links, c))
    BY <1>1, LinkedClosed
  <1>3. links[k] \in 1..NChunks => links[k] \in Linked(links, c)
    BY <1>2 DEF Closed
  <1> QED
    BY <1>1, <1>2, <1>3, LinkedChunks, LinkedLeast

LEMMA LinkedCons ==
  ASSUME NEW links, NEW c \in 1..NChunks
  PROVE  Linked(links, c) = {c} \cup Linked(links, links[c])
  <1> DEFINE L == Linked(links, links[c])
  <1>1. {c} \cup L \in SUBSET (1..NChunks)
    BY LinkedChunks
  <1>2. links[c] \in 1..NChunks => links[c] \in L
    BY LinkedClosed
  <1>3. Closed(links, L)
    BY LinkedClosed, LinkedNone DEF Closed
  <1> HIDE DEF L
  <1>4. Closed(links, {c} \cup L)
    BY <1>2, <1>3 DEF Closed
  <1>5. Linked(links, c) \subseteq {c} \cup L
    BY <1>1, <1>4, LinkedLeast
  <1>6. c \in Linked(links, c)
    BY LinkedClosed
  <1>7. L \subseteq Linked(links, c)
    BY <1>6, LinkedBelow DEF L
  <1> QED
    BY <1>5, <1>6, <1>7 DEF L

Agree(links, new, S) == \A k \in S : new[k] = links[k]

\* A list does not depend on the links of the chunks outside of it.
LEMMA LinkedSame ==
  ASSUME NEW links, NEW new, NEW c, Agree(links, new, Linked(links, c))
  PROVE  Linked(new, c) = Linked(links, c)
  <1>1. CASE c \notin 1..NChunks
    BY <1>1, LinkedNone
  <1>2. CASE c \in 1..NChunks
    <2>1. Closed(new, Linked(links, c)) /\ c \in Linked(links, c)
      BY <1>2, LinkedClosed DEF Closed, Agree
    <2>2. Linked(new, c) \subseteq Linked(links, c)
      BY <2>1, LinkedLeast, LinkedChunks
    <2>3. Closed(links, Linked(new, c)) /\ c \in Linked(new, c)
      BY <1>2, <2>2, LinkedClosed DEF Closed, Agree
    <2>4. Linked(links, c) \subseteq Linked(new, c)
      BY <2>3, LinkedLeast, LinkedChunks
    <2> QED
      BY <2>2, <2>4
  <1> QED
    BY <1>1, <1>2

OnlyFrees(links, new) == \A k \in 1..NChunks : new[k] \in {Free, links[k]}

\* Chunks that are freed make no list longer.
LEMMA LinkedFreed ==
  ASSUME NEW links, NEW new, OnlyFrees(links, new), NEW c
  PROVE  Linked(new, c) \subseteq Linked(links, c)
  <1>1. CASE c \notin 1..NChunks
    BY <1>1, LinkedNone
  <1>2. CASE c \in 1..NChunks
    <2>1. Closed(links, Linked(links, c)) /\ c \in Linked(links, c)
      BY <1>2, LinkedClosed
    <2>2. Closed(new, Linked(links, c))
      BY <2>1, LinkedChunks DEF Closed, OnlyFrees, Free
    <2> QED
      BY <2>1, <2>2, LinkedLeast, LinkedChunks
  <1> QED
    BY <1>1, <1>2

\* Each chunk in use is in one list, and the lists end.
Ends(links) == \A c \in 1..NChunks : c \notin Linked(links, links[c])

Owned(links, heads) ==
    /\ \A g \in Greenlets : \A k \in Linked(links, heads[g]) : links[k] # Free
    /\ \A g, h \in Greenlets : g # h => Linked(links, heads[g]) \cap Linked(links, heads[h]) = {}
    /\ \A k \in 1..NChunks : links[k] # Free => \E g \in Greenlets : k \in Linked(links, heads[g])

Lists(links, heads) ==
    links \in LinksType /\ heads \in [Greenlets -> 0..NChunks] /\ Ends(links) /\ Owned(links, heads)

SetAt(f, x, v) == [f EXCEPT ![x] = v]

\* A greenlet starts a chunk.
LEMMA ListsPush ==
  ASSUME NEW links, NEW heads, Lists(links, heads), NEW g \in Greenlets, NEW c \in 1..NChunks,
         links[c] = Free, NEW new, new = SetAt(links, c, heads[g])
  PROVE  /\ Lists(new, SetAt(heads, g, c))
         /\ Linked(new, c) = {c} \cup Linked(links, heads[g])
         /\ \A h \in Greenlets \ {g} : Linked(new, heads[h]) = Linked(links, heads[h])
  <1> DEFINE L(h) == Linked(links, heads[h])
             hds == SetAt(heads, g, c)
  <1> USE DEF Lists, SetAt
  <1>1. new \in LinksType /\ new[c] = heads[g] /\ \A k \in 1..NChunks \ {c} : new[k] = links[k]
    BY DEF LinksType, Free
  <1>2. \A h \in Greenlets : c \notin L(h) /\ L(h) \in SUBSET (1..NChunks)
    BY LinkedChunks DEF Owned
  <1>3. ASSUME NEW h \in Greenlets PROVE Linked(new, heads[h]) = L(h)
    <2>1. Agree(links, new, L(h))
      BY <1>1, <1>2 DEF Agree
    <2> QED
      BY <2>1, LinkedSame
  <1>4. Linked(new, c) = {c} \cup L(g)
    <2>1. Linked(new, c) = {c} \cup Linked(new, new[c])
      BY LinkedCons
    <2> QED
      BY <1>1, <1>3, <2>1
  <1>5. ASSUME NEW k \in 1..NChunks PROVE k \notin Linked(new, new[k])
    <2>1. CASE k = c
      BY <1>1, <1>2, <1>3, <2>1
    <2>2. CASE k # c /\ links[k] = Free
      <3>1. new[k] \notin 1..NChunks
        BY <1>1, <2>2 DEF Free
      <3> QED
        BY <3>1, LinkedNone
    <2>3. CASE k # c /\ links[k] # Free
      <3>1. PICK h \in Greenlets : k \in L(h)
        BY <2>3 DEF Owned
      <3>2. Linked(links, links[k]) \subseteq L(h)
        BY <3>1, LinkedBelow
      <3>3. Agree(links, new, Linked(links, links[k]))
        BY <1>1, <1>2, <3>2 DEF Agree
      <3>4. Linked(new, links[k]) = Linked(links, links[k])
        BY <3>3, LinkedSame
      <3> QED
        BY <1>1, <2>3, <3>4 DEF Ends
    <2> QED
      BY <2>1, <2>2, <2>3
  <1>6. \A h \in Greenlets : Linked(new, hds[h]) = IF h = g THEN {c} \cup L(g) ELSE L(h)
    BY <1>3, <1>4
  <1>7. hds \in [Greenlets -> 0..NChunks]
    OBVIOUS
  <1>8. \A h \in Greenlets : \A k \in L(h) : new[k] = links[k] /\ links[k] # Free
    BY <1>1, <1>2 DEF Owned
  <1>9. new[c] # Free
    BY <1>1 DEF Free
  <1> HIDE DEF hds
  <1>10. \A k \in 1..NChunks : new[k] # Free => \E h \in Greenlets : k \in Linked(new, hds[h])
    <2> SUFFICES ASSUME NEW k \in 1..NChunks, new[k] # Free
                 PROVE  \E h \in Greenlets : k \in Linked(new, hds[h])
      OBVIOUS
    <2>1. CASE k = c
      BY <1>6, <2>1
    <2>2. CASE k # c
      BY <1>1, <1>6, <2>2 DEF Owned
    <2> QED
      BY <2>1, <2>2
  <1>11. \A h, i \in Greenlets : h # i => Linked(new, hds[h]) \cap Linked(new, hds[i]) = {}
    BY <1>2, <1>6 DEF Owned
  <1>12. \A h \in Greenlets : \A k \in Linked(new, hds[h]) : new[k] # Free
    BY <1>6, <1>8, <1>9
  <1>13. Owned(new, hds)
    BY <1>10, <1>11, <1>12 DEF Owned
  <1>14. Ends(new)
    BY <1>5 DEF Ends
  <1> QED
    BY <1>1, <1>3, <1>4, <1>7, <1>13, <1>14 DEF hds

\* A greenlet frees the first chunk of its list.
LEMMA ListsPop ==
  ASSUME NEW links, NEW heads, Lists(links, heads), NEW g \in Greenlets, heads[g] \in 1..NChunks,
         NEW new, new = SetAt(links, heads[g], Free)
  PROVE  /\ links[heads[g]] \in 0..NChunks
         /\ Lists(new, SetAt(heads, g, links[heads[g]]))
         /\ Linked(new, links[heads[g]]) = Linked(links, heads[g]) \ {heads[g]}
         /\ \A h \in Greenlets \ {g} : Linked(new, heads[h]) = Linked(links, heads[h])
  <1> DEFINE L(h) == Linked(links, heads[h])
             c == heads[g]
             d == links[c]
             hds == SetAt(heads, g, d)
  <1> USE DEF Lists, SetAt
  <1>1. new \in LinksType /\ new[c] = Free /\ \A k \in 1..NChunks \ {c} : new[k] = links[k]
    BY BoundsAssumption DEF LinksType, Free
  <1>2. L(g) = {c} \cup Linked(links, d) /\ c \notin Linked(links, d)
    BY LinkedCons DEF Ends
  <1>3. \A h \in Greenlets : L(h) \in SUBSET (1..NChunks)
    BY LinkedChunks
  <1>4. d \in 0..NChunks
    BY <1>2 DEF Owned, LinksType, Free
  <1>5. Linked(new, d) = L(g) \ {c}
    <2>1. Agree(links, new, Linked(links, d))
      BY <1>1, <1>2, <1>3 DEF Agree
    <2>2. Linked(new, d) = Linked(links, d)
      BY <2>1, LinkedSame
    <2> QED
      BY <1>2, <2>2
  <1>6. ASSUME NEW h \in Greenlets \ {g} PROVE c \notin L(h) /\ Linked(new, heads[h]) = L(h)
    <2>1. c \notin L(h)
      BY <1>2 DEF Owned
    <2>2. Agree(links, new, L(h))
      BY <1>1, <1>3, <2>1 DEF Agree
    <2> QED
      BY <2>1, <2>2, LinkedSame
  <1>7. Ends(new)
    <2> SUFFICES ASSUME NEW k \in 1..NChunks PROVE k \notin Linked(new, new[k])
      BY DEF Ends
    <2>1. CASE new[k] = Free
      <3>1. new[k] \notin 1..NChunks
        BY <2>1 DEF Free
      <3> QED
        BY <3>1, LinkedNone
    <2>2. CASE new[k] # Free
      <3>1. new[k] = links[k]
        BY <1>1, <2>2
      <3>2. OnlyFrees(links, new)
        BY <1>1 DEF OnlyFrees
      <3> QED
        BY <3>1, <3>2, LinkedFreed DEF Ends
    <2> QED
      BY <2>1, <2>2
  <1>8. ASSUME NEW h \in Greenlets
        PROVE  Linked(new, hds[h]) = IF h = g THEN L(g) \ {c} ELSE L(h)
    <2>1. CASE h = g
      BY <1>4, <1>5, <2>1
    <2>2. CASE h # g
      <3>1. hds[h] = heads[h]
        BY <2>2
      <3> QED
        BY <1>6, <2>2, <3>1
    <2> QED
      BY <2>1, <2>2
  <1>9. hds \in [Greenlets -> 0..NChunks]
    BY <1>4
  <1> HIDE DEF hds
  <1>10. ASSUME NEW h \in Greenlets, NEW k \in Linked(new, hds[h])
         PROVE  new[k] # Free
    <2>1. k \in L(h) /\ k # c
      BY <1>6, <1>8
    <2>2. links[k] # Free
      BY <2>1 DEF Owned
    <2>3. k \in 1..NChunks \ {c}
      BY <1>3, <2>1
    <2> QED
      BY <1>1, <2>2, <2>3
  <1>11. \A h, i \in Greenlets : h # i => Linked(new, hds[h]) \cap Linked(new, hds[i]) = {}
    BY <1>8 DEF Owned
  <1>12. \A k \in 1..NChunks : new[k] # Free => \E h \in Greenlets : k \in Linked(new, hds[h])
    BY <1>1, <1>8 DEF Owned
  <1>13. Owned(new, hds)
    BY <1>10, <1>11, <1>12 DEF Owned
  <1> QED
    BY <1>1, <1>4, <1>5, <1>6, <1>7, <1>9, <1>13 DEF hds

FreeAll(links, c) == [k \in 1..NChunks |-> IF k \in Linked(links, c) THEN Free ELSE links[k]]

\* The whole list of a greenlet is freed.
LEMMA ListsFree ==
  ASSUME NEW links, NEW heads, Lists(links, heads), NEW g \in Greenlets, NEW new,
         new = FreeAll(links, heads[g])
  PROVE  /\ Lists(new, SetAt(heads, g, Null))
         /\ \A h \in Greenlets \ {g} : Linked(new, heads[h]) = Linked(links, heads[h])
  <1> DEFINE L(h) == Linked(links, heads[h])
             hds == SetAt(heads, g, Null)
  <1> USE DEF Lists, SetAt, FreeAll
  <1>1. \A h \in Greenlets : L(h) \in SUBSET (1..NChunks)
    BY LinkedChunks
  <1>2. /\ new \in LinksType
        /\ \A k \in L(g) : new[k] = Free
        /\ \A k \in 1..NChunks \ L(g) : new[k] = links[k]
    BY <1>1, BoundsAssumption DEF LinksType, Free
  <1>3. ASSUME NEW h \in Greenlets \ {g} PROVE L(g) \cap L(h) = {} /\ Linked(new, heads[h]) = L(h)
    <2>1. L(g) \cap L(h) = {}
      BY DEF Owned
    <2>2. Agree(links, new, L(h))
      BY <1>1, <1>2, <2>1 DEF Agree
    <2> QED
      BY <2>1, <2>2, LinkedSame
  <1>4. Ends(new)
    <2> SUFFICES ASSUME NEW k \in 1..NChunks PROVE k \notin Linked(new, new[k])
      BY DEF Ends
    <2>1. CASE new[k] = Free
      <3>1. new[k] \notin 1..NChunks
        BY <2>1 DEF Free
      <3> QED
        BY <3>1, LinkedNone
    <2>2. CASE new[k] # Free
      <3>1. new[k] = links[k]
        BY <1>2, <2>2
      <3>2. OnlyFrees(links, new)
        BY <1>2 DEF OnlyFrees
      <3> QED
        BY <3>1, <3>2, LinkedFreed DEF Ends
    <2> QED
      BY <2>1, <2>2
  <1>5. Linked(new, Null) = {}
    BY LinkedNone DEF Null
  <1>6. hds \in [Greenlets -> 0..NChunks]
    BY BoundsAssumption DEF Null
  <1>7. \A h \in Greenlets : Linked(new, hds[h]) = IF h = g THEN {} ELSE L(h)
    BY <1>3, <1>5
  <1> HIDE DEF hds
  <1>8. \A h \in Greenlets : \A k \in Linked(new, hds[h]) : new[k] # Free
    BY <1>1, <1>2, <1>3, <1>7 DEF Owned
  <1>9. \A h, i \in Greenlets : h # i => Linked(new, hds[h]) \cap Linked(new, hds[i]) = {}
    BY <1>7 DEF Owned
  <1>10. \A k \in 1..NChunks : new[k] # Free => \E h \in Greenlets : k \in Linked(new, hds[h])
    BY <1>2, <1>7 DEF Owned
  <1>11. Owned(new, hds)
    BY <1>8, <1>9, <1>10 DEF Owned
  <1> QED
    BY <1>2, <1>3, <1>4, <1>6, <1>11 DEF hds

-----------------------------------------------------------------------------
(* States, frames and fields. *)

\* s has the fields of a PythonState.
HasFields(s) ==
    s = [f \in {"context", "depth", "exc_info", "exc_value", "frame", "chunk"} |-> s[f]]

\* What a call or a return changes leaves the fields there.
LEMMA FrameFields ==
  ASSUME NEW s, HasFields(s), NEW n, NEW d, NEW k
  PROVE  HasFields([s EXCEPT !.frame = n, !.depth = d, !.chunk = k])
  BY DEF HasFields

Fields ==
    /\ DOMAIN ts = Threads /\ \A t \in Threads : HasFields(ts[t])
    /\ DOMAIN saved = Greenlets /\ \A g \in Greenlets : HasFields(saved[g])
    /\ DOMAIN top = Greenlets
    /\ DOMAIN life = Greenlets
    /\ alive \subseteq Threads

AtHome == /\ current \in [Threads -> Greenlets]
          /\ home \in [Greenlets -> Threads \cup {NoThread}]
          /\ \A t \in Threads : home[current[t]] = t /\ life[current[t]] # "new"

BaseInv == Fields /\ AtHome /\ SavedIntoEmpty

\* PythonState() and ExceptionState() satisfy the invariant.
LEMMA InitBaseInv == Init => BaseInv
  <1> SUFFICES ASSUME Init PROVE BaseInv
    OBVIOUS
  <1>1. Fields
    BY DEF Init, Fields, HasFields, Blank
  <1>2. AtHome
    BY HomeAssumption DEF Init, AtHome, Mains
  <1>3. SavedIntoEmpty
    BY HomeAssumption DEF Init, SavedIntoEmpty, Blank
  <1> QED
    BY <1>1, <1>2, <1>3 DEF BaseInv

\* g is at home in t, as before or from now on.
HomeIs(g, t) == /\ home' \in [Greenlets -> Threads \cup {NoThread}]
                /\ home'[g] = t
                /\ \A h \in Greenlets \ {g} : home'[h] = home[h]

\* g_switchstack() moves what the target had saved and fills what the other one
\* had given away, whatever both states are.
LEMMA SwitchStackBaseInv ==
  ASSUME BaseInv, NEW t \in alive, NEW g \in Greenlets, NEW s, HasFields(s), HomeIs(g, t),
         ~IsCurrent(g), SwitchStack(t, g, s), UNCHANGED alive,
         DOMAIN life' = Greenlets, life'[g] # "new", \A h \in Greenlets \ {g} : life'[h] = life[h]
  PROVE  BaseInv'
  <1> t \in Threads
    BY DEF BaseInv, Fields
  <1> DEFINE h == current[t]
  <1> h \in Greenlets /\ h # g
    BY DEF BaseInv, AtHome, IsCurrent
  <1> HIDE DEF h
  <1>1. /\ saved' = [saved EXCEPT ![h] = ts[t], ![g] = Left(s)]
        /\ ts' = [ts EXCEPT ![t] = Restored(s)]
        /\ current' = [current EXCEPT ![t] = g]
    BY DEF SwitchStack, Saved, h
  <1>2. /\ DOMAIN top' = Greenlets
        /\ top'[g] = Null
        /\ \A k \in Greenlets \ {g, h} : top'[k] = top[k]
    <2> DEFINE new == TopFrame(frames[h], ts[t].frame)
    <2>1. top' = [top EXCEPT ![h] = new, ![g] = Null]
      BY DEF SwitchStack, h
    <2> HIDE DEF new
    <2> QED
      BY <2>1 DEF BaseInv, Fields
  <1>3. HasFields(Left(s)) /\ Left(s).context = Empty
    BY DEF HasFields, Left
  <1>4. HasFields(Restored(s))
    BY DEF HasFields, Restored
  <1>5. Fields'
    BY <1>1, <1>2, <1>3, <1>4 DEF BaseInv, Fields
  <1>6. AtHome'
    <2> SUFFICES ASSUME NEW u \in Threads
                 PROVE  home'[current'[u]] = u /\ life'[current'[u]] # "new"
      BY <1>1 DEF BaseInv, AtHome, HomeIs
    <2>1. CASE u = t
      BY <1>1, <2>1 DEF BaseInv, AtHome, HomeIs
    <2>2. CASE u # t
      BY <1>1, <2>2 DEF BaseInv, AtHome, HomeIs, IsCurrent
    <2> QED
      BY <2>1, <2>2
  <1>7. SavedIntoEmpty'
    <2> SUFFICES ASSUME NEW u \in alive, life'[current'[u]] = "active"
                 PROVE  saved'[current'[u]].context = Empty /\ top'[current'[u]] = Null
      BY DEF SavedIntoEmpty
    <2> u \in Threads
      BY DEF BaseInv, Fields
    <2>1. CASE u = t
      <3>1. current'[u] = g
        BY <1>1, <2>1 DEF BaseInv, AtHome
      <3>2. saved'[g] = Left(s)
        BY <1>1 DEF BaseInv, Fields
      <3> QED
        BY <3>1, <3>2, <1>2, <1>3
    <2>2. CASE u # t
      <3> DEFINE k == current[u]
      <3>1. current'[u] = k
        BY <1>1, <2>2 DEF BaseInv, AtHome
      <3>2. k \in Greenlets /\ k # h /\ k # g
        BY <2>2 DEF BaseInv, AtHome, IsCurrent, h
      <3>3. saved'[k] = saved[k] /\ top'[k] = top[k] /\ life'[k] = life[k]
        BY <1>1, <1>2, <3>2 DEF BaseInv, Fields
      <3> QED
        BY <3>1, <3>3 DEF BaseInv, SavedIntoEmpty
    <2> QED
      BY <2>1, <2>2
  <1> QED
    BY <1>5, <1>6, <1>7 DEF BaseInv

\* Steps that leave every greenlet as it is, and some of a PyThreadState.
LEMMA RunsBaseInv ==
  ASSUME BaseInv, UNCHANGED <<life, current, home, saved, top>>, alive' \subseteq alive,
         DOMAIN ts' = Threads, \A t \in Threads : HasFields(ts'[t])
  PROVE  BaseInv'
  BY DEF BaseInv, Fields, AtHome, SavedIntoEmpty

\* Every step keeps the invariant.
LEMMA NextBaseInv == BaseInv /\ [Next]_vars => BaseInv'
  <1> SUFFICES ASSUME BaseInv, [Next]_vars PROVE BaseInv'
    OBVIOUS
  <1> USE DEF BaseInv
  <1>1. ASSUME NEW t \in Threads, NEW entry \in BOOLEAN, NEW c \in 1..NChunks, Call(t, entry, c)
        PROVE  BaseInv'
    <2>1. UNCHANGED <<life, current, home, alive, saved, top>>
      BY <1>1 DEF Call
    <2>2. PICK n, d : ts' = [ts EXCEPT ![t] = [@ EXCEPT !.frame = n, !.depth = d, !.chunk = c]]
      BY <1>1 DEF Call, PushFrame
    <2>3. DOMAIN ts' = Threads /\ \A u \in Threads : HasFields(ts'[u])
      BY <2>2, FrameFields DEF Fields
    <2> QED
      BY <2>1, <2>3, RunsBaseInv
  <1>2. ASSUME NEW t \in Threads, Return(t)
        PROVE  BaseInv'
    <2>1. UNCHANGED <<life, current, home, alive, saved, top>>
      BY <1>2 DEF Return
    <2>2. PICK n, d, k : ts' = [ts EXCEPT ![t] = [@ EXCEPT !.frame = n, !.depth = d, !.chunk = k]]
      BY <1>2 DEF Return
    <2>3. DOMAIN ts' = Threads /\ \A u \in Threads : HasFields(ts'[u])
      BY <2>2, FrameFields DEF Fields
    <2> QED
      BY <2>1, <2>3, RunsBaseInv
  <1>3. ASSUME NEW t \in Threads, Handle(t)
        PROVE  BaseInv'
    <2>1. DOMAIN ts' = Threads /\ \A u \in Threads : HasFields(ts'[u])
      BY <1>3 DEF Handle, Fields, HasFields
    <2> QED
      BY <1>3, <2>1, RunsBaseInv DEF Handle
  <1>4. ASSUME NEW t \in Threads, NEW c, ContextRun(t, c)
        PROVE  BaseInv'
    <2>1. DOMAIN ts' = Threads /\ \A u \in Threads : HasFields(ts'[u])
      BY <1>4 DEF ContextRun, Fields, HasFields
    <2> QED
      BY <1>4, <2>1, RunsBaseInv DEF ContextRun
  <1>5. ASSUME NEW t \in Threads, NEW g \in Greenlets, SwitchTo(t, g)
        PROVE  BaseInv'
    <2>1. HasFields(saved[g])
      BY DEF Fields
    <2>2. /\ t \in alive /\ home[g] = t /\ current[t] # g
          /\ SwitchStack(t, g, saved[g])
          /\ life[g] # "new"
          /\ UNCHANGED <<alive, home, life>>
      BY <1>5 DEF SwitchTo
    <2>4. ~IsCurrent(g) /\ HomeIs(g, t)
      BY <2>2 DEF AtHome, IsCurrent, HomeIs
    <2>3. DOMAIN life' = Greenlets
      BY <2>2 DEF Fields
    <2> HIDE DEF BaseInv
    <2> QED
      BY <2>1, <2>2, <2>3, <2>4, SwitchStackBaseInv
  <1>6. ASSUME NEW t \in Threads, NEW g \in Greenlets, Start(t, g)
        PROVE  BaseInv'
    <2>1. HasFields(InitialState(t, g))
      <3> DEFINE s == saved[g]
      <3>1. HasFields(s)
        BY DEF Fields
      <3> HIDE DEF s
      <3>2. HasFields([s EXCEPT !.depth = ts[t].depth, !.exc_info = "null", !.exc_value = "none"])
        BY <3>1 DEF HasFields
      <3> QED
        BY <3>2 DEF InitialState, s
    <2>2. /\ DOMAIN life' = Greenlets
          /\ \A h \in Greenlets \ {g} : life'[h] = life[h]
      BY <1>6 DEF Start, Fields
    <2>3. /\ t \in alive /\ HomeIs(g, t)
          /\ SwitchStack(t, g, InitialState(t, g))
          /\ UNCHANGED alive
      BY <1>6 DEF Start, HomeIs, AtHome
    <2>4. ~IsCurrent(g) /\ life'[g] # "new"
      BY <1>6 DEF Start, AtHome, Fields, IsCurrent
    <2> HIDE DEF BaseInv
    <2> QED
      BY <2>1, <2>2, <2>3, <2>4, SwitchStackBaseInv
  <1>7. ASSUME NEW t \in Threads, Die(t)
        PROVE  BaseInv'
    <2> DEFINE h == current[t]
    <2>1. h \in Greenlets
      BY DEF AtHome
    <2>2. /\ t \in alive
          /\ ts' = [ts EXCEPT ![t].chunk = Null]
          /\ saved' = [saved EXCEPT ![h].chunk = Null]
          /\ life' = [life EXCEPT ![h] = "dead"]
          /\ UNCHANGED <<current, home, alive, top>>
      BY <1>7 DEF Die, DidFinish
    <2> HIDE DEF h
    <2>3. /\ \A u \in Threads : HasFields(ts'[u])
          /\ \A g \in Greenlets : HasFields(saved'[g]) /\ saved'[g].context = saved[g].context
      BY <2>2 DEF Fields, HasFields
    <2>4. Fields'
      BY <2>1, <2>2, <2>3 DEF Fields
    <2>5. SavedIntoEmpty'
      BY <2>1, <2>2, <2>3 DEF SavedIntoEmpty, Fields, AtHome
    <2>6. AtHome'
      BY <2>1, <2>2 DEF AtHome, Fields
    <2> QED
      BY <2>4, <2>5, <2>6
  <1>8. ASSUME NEW t \in Threads, NEW g \in Greenlets, NEW c, GrContextSet(t, g, c)
        PROVE  BaseInv'
    <2>1. CASE IsRunning(g)
      <3>1. DOMAIN ts' = Threads /\ \A u \in Threads : HasFields(ts'[u])
        BY <1>8, <2>1 DEF GrContextSet, Fields, HasFields
      <3> QED
        BY <1>8, <2>1, <3>1, RunsBaseInv DEF GrContextSet
    <2>2. CASE ~IsRunning(g)
      <3>1. /\ saved' = [saved EXCEPT ![g].context = c]
            /\ UNCHANGED <<life, current, home, alive, ts, top>>
        BY <1>8, <2>2 DEF GrContextSet
      <3>2. /\ \A k \in Greenlets : HasFields(saved'[k])
            /\ \A k \in Greenlets \ {g} : saved'[k] = saved[k]
        BY <3>1 DEF Fields, HasFields
      <3>3. ASSUME NEW u \in alive, life[current[u]] = "active"
            PROVE  current[u] # g
        BY <2>2, <3>3 DEF IsRunning, SavedIntoEmpty
      <3>4. SavedIntoEmpty'
        BY <3>1, <3>2, <3>3 DEF SavedIntoEmpty, Fields, AtHome
      <3> QED
        BY <3>1, <3>2, <3>4 DEF Fields, AtHome
    <2> QED
      BY <2>1, <2>2
  <1>9. ASSUME NEW t \in Threads, Exit(t)
        PROVE  BaseInv'
    <2>1. DOMAIN ts' = Threads /\ \A u \in Threads : HasFields(ts'[u])
      BY <1>9 DEF Exit, Fields, HasFields, Blank
    <2> QED
      BY <1>9, <2>1, RunsBaseInv DEF Exit
  <1>10. ASSUME NEW g \in Greenlets, Destroy(g)
         PROVE  BaseInv'
    <2>1. /\ life' = [life EXCEPT ![g] = "gone"]
          /\ saved' = [saved EXCEPT ![g] = Blank]
          /\ top' = [top EXCEPT ![g] = Null]
          /\ UNCHANGED <<current, home, alive, ts>>
          /\ \A t \in Threads : current[t] # g
      BY <1>10 DEF Destroy, IsCurrent
    <2>2. Fields'
      BY <2>1 DEF Fields, HasFields, Blank
    <2>3. SavedIntoEmpty'
      BY <2>1 DEF SavedIntoEmpty, Fields, AtHome
    <2> QED
      BY <2>1, <2>2, <2>3 DEF AtHome
  <1>11. ASSUME NEW g \in Greenlets, Murder(g)
         PROVE  BaseInv'
    <2>1. /\ life' = [life EXCEPT ![g] = "new"]
          /\ home' = [home EXCEPT ![g] = NoThread]
          /\ saved' = [saved EXCEPT ![g].context = Empty]
          /\ top' = [top EXCEPT ![g] = Null]
          /\ UNCHANGED <<current, alive, ts>>
          /\ \A t \in Threads : current[t] # g
      BY <1>11 DEF Murder, IsCurrent
    <2>2. Fields'
      BY <2>1 DEF Fields, HasFields
    <2>3. SavedIntoEmpty'
      BY <2>1 DEF SavedIntoEmpty, Fields, AtHome
    <2>4. AtHome'
      BY <2>1 DEF AtHome, Fields
    <2> QED
      BY <2>2, <2>3, <2>4
  <1>12. CASE UNCHANGED vars
    BY <1>12 DEF vars, Fields, AtHome, SavedIntoEmpty
  <1> QED
    BY <1>1, <1>2, <1>3, <1>4, <1>5, <1>6, <1>7, <1>8, <1>9, <1>10, <1>11, <1>12 DEF Next

\* The assertion of OwnedReference::steal() for every greenlet that has not
\* finished: when its state is saved, it owns neither a context nor a frame, so
\* that none is overwritten and leaked, or visited twice by the collector.
THEOREM SavedIntoEmptyHolds == Spec => []SavedIntoEmpty
  <1>1. BaseInv => SavedIntoEmpty
    BY DEF BaseInv
  <1> QED
    BY <1>1, InitBaseInv, NextBaseInv, PTL DEF Spec

-----------------------------------------------------------------------------
(* The full invariant *)

AllStates == State({"null", "base", "generator"})

Typed ==
    /\ life \in [Greenlets -> {"new", "active", "dead", "gone"}]
    /\ ts \in [Threads -> AllStates] /\ \A t \in alive : ts[t].exc_info # "null"
    /\ saved \in [Greenlets -> AllStates]
    /\ top \in [Greenlets -> Nat]
    /\ stale \in [Greenlets -> Nat]
    /\ frames \in [Greenlets -> Seq(Frame)]

FramesAll ==
    \A g \in Greenlets : /\ FramesOK(frames[g], stale[g], top[g])
                         /\ Len(frames[g]) <= MaxFrames[g]
                         /\ Cardinality(Counted(frames[g], stale[g])) <= StateOf(g).depth

\* The first chunk of each greenlet
Heads == [g \in Greenlets |-> StateOf(g).chunk]

\* How many of its frames, the outermost, are in memory that was freed
LostTo(g) == IF life[g] = "dead" THEN stale[g] ELSE 0

\* The frames above the first m are in the list of chunk c.
InList(fs, m, links, c) ==
    \A k \in 1..Len(fs) : k > m /\ fs[k].complete => fs[k].chunk \in Linked(links, c)

Memory == /\ Lists(chunks, Heads)
          /\ \A g \in Greenlets : InList(frames[g], LostTo(g), chunks, StateOf(g).chunk)

FullInv == BaseInv /\ Typed /\ StateInv /\ FramesAll /\ Memory

\* A greenlet is current in its own thread, or nowhere.
LEMMA StateOfIs ==
  ASSUME BaseInv
  PROVE  /\ \A t \in Threads : IsCurrent(current[t]) /\ StateOf(current[t]) = ts[t]
         /\ \A g \in Greenlets : IsCurrent(g) <=> home[g] \in Threads /\ current[home[g]] = g
         /\ \A g \in Greenlets : ~IsCurrent(g) => StateOf(g) = saved[g]
  BY DEF BaseInv, AtHome, StateOf, IsCurrent

LEMMA StateOfIsNext ==
  ASSUME BaseInv'
  PROVE  /\ \A t \in Threads : IsCurrent(current[t])' /\ StateOf(current[t])' = ts'[t]
         /\ \A g \in Greenlets : IsCurrent(g)' <=> home'[g] \in Threads /\ current'[home'[g]] = g
         /\ \A g \in Greenlets : ~IsCurrent(g)' => StateOf(g)' = saved'[g]
  BY DEF BaseInv, AtHome, StateOf, IsCurrent

LEMMA StateOfTyped ==
  ASSUME FullInv
  PROVE  \A g \in Greenlets : StateOf(g) \in AllStates /\ Heads[g] = StateOf(g).chunk
  <1>1. ASSUME NEW g \in Greenlets, IsCurrent(g) PROVE home[g] \in Threads
    BY <1>1, StateOfIs DEF FullInv
  <1> QED
    BY <1>1 DEF FullInv, Typed, StateOf, Heads

\* A step that changes one greenlet only
Others(h) ==
    \A g \in Greenlets \ {h} :
        /\ StateOf(g)' = StateOf(g) /\ frames'[g] = frames[g] /\ top'[g] = top[g]
        /\ stale'[g] = stale[g] /\ LostTo(g)' = LostTo(g)

OtherLists(h) == \A g \in Greenlets \ {h} : Linked(chunks', Heads[g]) = Linked(chunks, Heads[g])

LEMMA OneChanges ==
  ASSUME FullInv, NEW h \in Greenlets, Others(h),
         FramesOK(frames'[h], stale'[h], top'[h]), Len(frames'[h]) <= MaxFrames[h],
         Cardinality(Counted(frames'[h], stale'[h])) <= StateOf(h)'.depth,
         Lists(chunks', SetAt(Heads, h, StateOf(h)'.chunk)),
         OtherLists(h),
         InList(frames'[h], LostTo(h)', chunks', StateOf(h)'.chunk)
  PROVE  FramesAll' /\ Memory'
  <1>1. FramesAll'
    <2> SUFFICES ASSUME NEW g \in Greenlets
                 PROVE  /\ FramesOK(frames'[g], stale'[g], top'[g])
                        /\ Len(frames'[g]) <= MaxFrames[g]
                        /\ Cardinality(Counted(frames'[g], stale'[g])) <= StateOf(g)'.depth
      BY DEF FramesAll
    <2>1. CASE g = h
      BY <2>1
    <2>2. CASE g # h
      BY <2>2 DEF FullInv, FramesAll, Others
    <2> QED
      BY <2>1, <2>2
  <1>2. Heads' = SetAt(Heads, h, StateOf(h)'.chunk)
    BY DEF Heads, Others, SetAt
  <1>3. ASSUME NEW g \in Greenlets PROVE InList(frames'[g], LostTo(g)', chunks', StateOf(g)'.chunk)
    <2>1. CASE g = h
      BY <2>1
    <2>2. CASE g # h
      <3>1. frames'[g] = frames[g] /\ LostTo(g)' = LostTo(g) /\ StateOf(g)'.chunk = Heads[g]
        BY <2>2, StateOfTyped DEF Others
      <3>2. InList(frames[g], LostTo(g), chunks, Heads[g])
        BY StateOfTyped DEF FullInv, Memory
      <3>3. Linked(chunks', Heads[g]) = Linked(chunks, Heads[g])
        BY <2>2 DEF OtherLists
      <3> QED
        BY <3>1, <3>2, <3>3 DEF InList
    <2> QED
      BY <2>1, <2>2
  <1> QED
    BY <1>1, <1>2, <1>3 DEF Memory

\* A step that changes links of frames only, and moves no list to another greenlet.
LEMMA ListsStay ==
  ASSUME FullInv, UNCHANGED chunks,
         \A g \in Greenlets : StateOf(g)'.chunk = StateOf(g).chunk /\ LostTo(g)' = LostTo(g),
         \A g \in Greenlets : Relinks(frames[g], frames'[g])
  PROVE  Memory'
  <1>1. Heads' = Heads
    BY DEF Heads
  <1>2. ASSUME NEW g \in Greenlets PROVE InList(frames'[g], LostTo(g)', chunks', StateOf(g)'.chunk)
    <2>1. InList(frames[g], LostTo(g), chunks, StateOf(g).chunk) /\ Relinks(frames[g], frames'[g])
      BY DEF FullInv, Memory
    <2>2. StateOf(g)'.chunk = StateOf(g).chunk /\ LostTo(g)' = LostTo(g)
      OBVIOUS
    <2> QED
      BY <2>1, <2>2 DEF InList, Relinks
  <1> QED
    BY <1>1, <1>2 DEF FullInv, Memory

LEMMA CountedFinite ==
  ASSUME NEW fs \in Seq(Frame), NEW b
  PROVE  /\ IsFiniteSet(Counted(fs, b)) /\ Cardinality(Counted(fs, b)) \in Nat
         /\ Counted(fs, b) \subseteq 1..Len(fs)
  <1>1. IsFiniteSet(1..Len(fs))
    BY FS_Interval
  <1>2. Counted(fs, b) \in SUBSET (1..Len(fs))
    BY DEF Counted, CompleteOf
  <1> QED
    BY <1>1, <1>2, FS_Subset, FS_CardinalityType

\* What a greenlet does while it runs changes its own state only.
OtherStates(h) == \A g \in Greenlets \ {h} : StateOf(g)' = StateOf(g)

OtherThreads(t) == \A u \in Threads \ {t} : ts'[u] = ts[u]

LEMMA RunsStates ==
  ASSUME FullInv, BaseInv', NEW t \in Threads, UNCHANGED <<current, home, saved>>, OtherThreads(t),
         NEW h, h = current[t]
  PROVE  /\ h \in Greenlets
         /\ StateOf(h) = ts[t] /\ StateOf(h)' = ts'[t]
         /\ OtherStates(h)
  <1>1. h \in Greenlets /\ home[h] = t
    BY DEF FullInv, BaseInv, AtHome
  <1>2. StateOf(h) = ts[t]
    BY StateOfIs DEF FullInv
  <1>3. StateOf(h)' = ts'[t]
    <2>1. home'[h] = t /\ IsCurrent(h)'
      BY <1>1 DEF IsCurrent
    <2> QED
      BY <2>1 DEF StateOf
  <1>4. ASSUME NEW g \in Greenlets \ {h} PROVE StateOf(g)' = StateOf(g)
    <2>1. IsCurrent(g)' <=> IsCurrent(g)
      BY DEF IsCurrent
    <2>2. CASE IsCurrent(g)
      <3>1. home[g] \in Threads /\ home[g] # t
        BY <2>2, <1>1, StateOfIs DEF FullInv
      <3> QED
        BY <2>1, <2>2, <3>1 DEF StateOf, OtherThreads
    <2>3. CASE ~IsCurrent(g)
      BY <2>1, <2>3 DEF StateOf
    <2> QED
      BY <2>2, <2>3
  <1> QED
    BY <1>1, <1>2, <1>3, <1>4 DEF OtherStates

OtherFrames(h) == \A g \in Greenlets \ {h} : frames'[g] = frames[g]

LEMMA RunsStateInv ==
  ASSUME FullInv, BaseInv', NEW t \in alive, UNCHANGED <<life, current, home, alive, saved, top, stale>>,
         OtherThreads(t), OtherFrames(current[t]), ts'[t].frame = Len(frames'[current[t]]),
         stale[current[t]] <= Len(frames'[current[t]])
  PROVE  StateInv'
  <1>1. t \in Threads /\ current[t] \in Greenlets /\ home[current[t]] = t /\ IsCurrent(current[t])
    BY DEF FullInv, BaseInv, Fields, AtHome, IsCurrent
  <1>2. ASSUME NEW u \in Threads
        PROVE  /\ home'[current'[u]] = u /\ life'[current'[u]] \in {"active", "dead"}
               /\ top'[current'[u]] = Null
               /\ ts'[u].frame = Len(frames'[current'[u]])
               /\ u \notin alive' => ts'[u] = Blank
    <2>1. CASE u = t
      BY <2>1, <1>1 DEF FullInv, StateInv
    <2>2. CASE u # t
      <3>1. current[u] \in Greenlets /\ current[u] # current[t]
        BY <2>2, <1>1 DEF FullInv, BaseInv, AtHome
      <3> QED
        BY <2>2, <3>1 DEF FullInv, StateInv, OtherThreads, OtherFrames
    <2> QED
      BY <2>1, <2>2
  <1>3. life[current[t]] \in {"active", "dead"}
    BY <1>1 DEF FullInv, StateInv
  <1>4. \A g \in Greenlets : IsCurrent(g)' <=> IsCurrent(g)
    BY DEF IsCurrent
  <1>5. ASSUME NEW g \in Greenlets
        PROVE  /\ stale'[g] <= Len(frames'[g])
               /\ life'[g] = "new" => /\ top'[g] = Null
                                      /\ stale'[g] = Len(frames'[g]) /\ saved'[g].frame = stale'[g]
               /\ life'[g] = "gone" => saved'[g] = Blank /\ frames'[g] = <<>>
               /\ life'[g] = "active" /\ ~IsCurrent(g)' =>
                     top'[g] = Len(frames'[g]) /\ saved'[g].frame = Len(frames'[g])
    <2>1. CASE g = current[t]
      BY <1>1, <1>3, <1>4, <2>1
    <2>2. CASE g # current[t]
      BY <1>4, <2>2 DEF FullInv, StateInv, OtherFrames
    <2> QED
      BY <2>1, <2>2
  <1> QED
    BY <1>2, <1>5 DEF StateInv

\* What is known of the greenlet that a thread runs
LEMMA Running ==
  ASSUME FullInv, NEW t \in alive
  PROVE  /\ t \in Threads /\ current[t] \in Greenlets /\ home[current[t]] = t
         /\ life[current[t]] \in {"active", "dead"} /\ top[current[t]] = Null
         /\ FramesOK(frames[current[t]], stale[current[t]], Null)
         /\ Len(frames[current[t]]) \in Nat /\ ts[t].frame = Len(frames[current[t]])
         /\ Len(frames[current[t]]) <= MaxFrames[current[t]]
         /\ ts[t] \in AllStates /\ ts[t].exc_info # "null"
         /\ ts[t].depth \in 0..Limit /\ ts[t].chunk \in 0..NChunks
         /\ Cardinality(Counted(frames[current[t]], stale[current[t]])) <= ts[t].depth
         /\ InList(frames[current[t]], LostTo(current[t]), chunks, ts[t].chunk)
         /\ Heads[current[t]] = ts[t].chunk
  <1> DEFINE h == current[t]
  <1>1. t \in Threads /\ h \in Greenlets
    BY DEF FullInv, BaseInv, Fields, AtHome
  <1>2. home[h] = t /\ life[h] \in {"active", "dead"} /\ top[h] = Null /\ ts[t].frame = Len(frames[h])
    BY <1>1 DEF FullInv, StateInv
  <1>3. StateOf(h) = ts[t]
    BY <1>1, StateOfIs DEF FullInv
  <1>4. ts[t] \in AllStates /\ ts[t].exc_info # "null" /\ Heads[h] = ts[t].chunk
    BY <1>1, <1>3, StateOfTyped DEF FullInv, Typed
  <1> HIDE DEF h
  <1>5. /\ FramesOK(frames[h], stale[h], Null) /\ Len(frames[h]) <= MaxFrames[h]
        /\ Cardinality(Counted(frames[h], stale[h])) <= ts[t].depth
    BY <1>1, <1>2, <1>3 DEF FullInv, FramesAll
  <1>6. InList(frames[h], LostTo(h), chunks, ts[t].chunk)
    BY <1>1, <1>3 DEF FullInv, Memory
  <1>7. Len(frames[h]) \in Nat
    BY <1>5 DEF FramesOK
  <1>8. ts[t].depth \in 0..Limit /\ ts[t].chunk \in 0..NChunks
    BY <1>4 DEF AllStates, State
  <1> QED
    BY <1>1, <1>2, <1>4, <1>5, <1>6, <1>7, <1>8 DEF h

\* What a call or a return makes of the state.
Moved(s, n, d, c) == [s EXCEPT !.frame = n, !.depth = d, !.chunk = c]

LEMMA MovedTyped ==
  ASSUME NEW s \in AllStates, NEW n \in Nat, NEW d \in 0..Limit, NEW c \in 0..NChunks,
         NEW new, new = Moved(s, n, d, c)
  PROVE  /\ new \in AllStates
         /\ new.context = s.context
         /\ new.exc_info = s.exc_info /\ new.exc_value = s.exc_value
         /\ new.frame = n /\ new.depth = d /\ new.chunk = c
  BY DEF AllStates, State, Moved

\* A step of the greenlet that t runs, which leaves it with the state s and the
\* frames fs.
RunsTo(t, h, s, fs) ==
    /\ h = current[t]
    /\ UNCHANGED <<life, current, home, alive, saved, top, stale>>
    /\ ts' = SetAt(ts, t, s)
    /\ frames' = SetAt(frames, h, fs)

LEMMA RunsFullInv ==
  ASSUME FullInv, BaseInv', NEW t \in alive, NEW h, NEW s, NEW fs, RunsTo(t, h, s, fs),
         s \in AllStates, s.exc_info # "null", s.frame = Len(fs),
         FramesOK(fs, stale[h], Null), Len(fs) <= MaxFrames[h],
         Cardinality(Counted(fs, stale[h])) <= s.depth,
         Lists(chunks', SetAt(Heads, h, s.chunk)), OtherLists(h), InList(fs, LostTo(h), chunks', s.chunk)
  PROVE  FullInv'
  <1>1. t \in Threads /\ h \in Greenlets /\ h = current[t] /\ top[h] = Null
    BY Running DEF RunsTo
  <1>2. /\ UNCHANGED <<life, current, home, alive, saved, top, stale>>
        /\ ts'[t] = s /\ OtherThreads(t) /\ ts' \in [Threads -> AllStates]
        /\ frames'[h] = fs /\ OtherFrames(h) /\ frames' \in [Greenlets -> Seq(Frame)]
    <2>1. ts' = [ts EXCEPT ![t] = s] /\ frames' = [frames EXCEPT ![h] = fs]
      BY DEF RunsTo, SetAt
    <2>2. ts' \in [Threads -> AllStates]
      BY <1>1, <2>1 DEF FullInv, Typed
    <2>3. fs \in Seq(Frame)
      BY DEF FramesOK
    <2>4. frames' \in [Greenlets -> Seq(Frame)]
      BY <1>1, <2>1, <2>3 DEF FullInv, Typed
    <2> QED
      BY <1>1, <2>1, <2>2, <2>4 DEF RunsTo, FullInv, Typed, OtherThreads, OtherFrames
  <1>3. Typed'
    <2>1. \A u \in alive' : ts'[u].exc_info # "null"
      BY <1>1, <1>2 DEF FullInv, BaseInv, Fields, Typed, OtherThreads
    <2> QED
      BY <1>2, <2>1 DEF FullInv, Typed
  <1>4. StateInv'
    <2>1. stale[h] <= Len(fs)
      BY DEF FramesOK
    <2> QED
      BY <1>1, <1>2, <2>1, RunsStateInv
  <1>5. StateOf(h)' = s /\ Others(h)
    <2>1. StateOf(h)' = ts'[t] /\ OtherStates(h)
      BY <1>1, <1>2, RunsStates
    <2>2. \A g : stale'[g] = stale[g] /\ top'[g] = top[g] /\ LostTo(g)' = LostTo(g)
      BY <1>2 DEF LostTo
    <2> QED
      BY <1>2, <2>1, <2>2 DEF Others, OtherStates, OtherFrames
  <1>6. FramesAll' /\ Memory'
    <2>1. top'[h] = Null /\ stale'[h] = stale[h] /\ LostTo(h)' = LostTo(h)
      BY <1>1, <1>2 DEF LostTo
    <2> QED
      BY <1>1, <1>2, <1>5, <2>1, OneChanges
  <1> QED
    BY <1>3, <1>4, <1>6 DEF FullInv

LEMMA CallFullInv ==
  ASSUME FullInv, BaseInv', NEW t \in Threads, NEW entry \in BOOLEAN, NEW c \in 1..NChunks,
         Call(t, entry, c)
  PROVE  FullInv'
  <1>0. PICK h \in Greenlets : h = current[t]
    BY DEF FullInv, BaseInv, AtHome
  <1> DEFINE fs == frames[h]
             n == Len(fs)
             b == stale[h]
             all == fs \o PushedFrames(n, entry, c, n)
             m == Len(all)
  <1>1. t \in alive /\ ts[t].depth < Limit /\ UNCHANGED <<life, current, home, alive, saved, top, stale>>
    BY DEF Call
  <1>2. /\ h \in Greenlets /\ life[h] \in {"active", "dead"} /\ top[h] = Null
        /\ FramesOK(fs, b, Null) /\ n \in Nat /\ ts[t].frame = n
        /\ ts[t] \in AllStates /\ ts[t].exc_info # "null"
        /\ ts[t].depth \in 0..Limit /\ ts[t].chunk \in 0..NChunks
        /\ Cardinality(Counted(fs, b)) <= ts[t].depth
        /\ InList(fs, LostTo(h), chunks, ts[t].chunk)
        /\ Heads[h] = ts[t].chunk
        /\ entry \/ n > b
    BY <1>0, <1>1, Running DEF Call
  <1>3. /\ Len(all) <= MaxFrames[h]
        /\ frames' = [frames EXCEPT ![h] = all]
        /\ ts' = [ts EXCEPT ![t] = [ts[t] EXCEPT !.frame = Len(all), !.depth = ts[t].depth + 1,
                                                 !.chunk = c]]
    <2>1. PushFrame(t, entry, c)
      BY DEF Call
    <2>2. all = frames[current[t]] \o PushedFrames(Len(frames[current[t]]), entry, c, ts[t].frame)
      BY <1>0, <1>2
    <2> HIDE DEF all
    <2> QED
      BY <1>0, <2>1, <2>2 DEF PushFrame
  <1>4. fs \in Seq(Frame)
    BY <1>2 DEF FramesOK
  <1>5. Pushes(fs, all, entry, c)
    BY <1>4, PushedFramesOK
  <1> HIDE DEF all
  <1>6. all \in Seq(Frame)
    BY <1>5 DEF Pushes
  <1> HIDE DEF all
  <1>7. c # Null
    BY BoundsAssumption DEF Null
  <1>8. /\ FramesOK(all, b, Null)
        /\ Counted(all, b) = Counted(fs, b) \cup {m}
        /\ m \in Nat /\ n < m
        /\ all[m].chunk = c
        /\ \A k \in 1..m : all[k].complete => k = m \/ (k \in 1..n /\ all[k] = fs[k])
    BY <1>2, <1>5, <1>7, PushOK
  <1>9. n = Len(fs) /\ m = Len(all) /\ fs = frames[h] /\ b = stale[h]
    OBVIOUS
  <1> HIDE DEF n, m, fs, b
  <1>10. PICK d \in 0..Limit : d = ts[t].depth + 1
    BY <1>1, <1>2, BoundsAssumption
  <1> DEFINE s == Moved(ts[t], m, d, c)
  <1>11. s \in AllStates /\ s.exc_info # "null" /\ s.frame = m /\ s.depth = d /\ s.chunk = c
    <2>1. ts[t] \in AllStates /\ m \in Nat /\ c \in 0..NChunks /\ s = Moved(ts[t], m, d, c)
      BY <1>2, <1>8, BoundsAssumption
    <2> HIDE DEF s
    <2>2. /\ s \in AllStates /\ s.exc_info = ts[t].exc_info
          /\ s.frame = m /\ s.depth = d /\ s.chunk = c
      BY <2>1, MovedTyped
    <2> QED
      BY <1>2, <2>2
  <1>12. RunsTo(t, h, s, all)
    BY <1>0, <1>1, <1>3, <1>9, <1>10 DEF RunsTo, SetAt, Moved
  <1> HIDE DEF s
  <1>13. Cardinality(Counted(all, b)) <= d
    <2>1. IsFiniteSet(Counted(fs, b)) /\ Cardinality(Counted(fs, b)) \in Nat
      BY <1>4, CountedFinite
    <2>2. Counted(all, b) = Counted(fs, b) \cup {m}
      BY <1>8
    <2>3. Cardinality(Counted(all, b)) \in {Cardinality(Counted(fs, b)), Cardinality(Counted(fs, b)) + 1}
      BY <2>1, <2>2, FS_AddElement
    <2>4. Cardinality(Counted(all, b)) \in Nat
      BY <1>6, CountedFinite
    <2> QED
      BY <1>2, <1>10, <2>1, <2>3, <2>4
  <1>14. /\ Lists(chunks', SetAt(Heads, h, c))
         /\ OtherLists(h)
         /\ c \in Linked(chunks', c) /\ Linked(chunks, ts[t].chunk) \subseteq Linked(chunks', c)
    <2>1. CASE c = ts[t].chunk
      <3>1. chunks' = chunks
        BY <2>1 DEF Call
      <3>2. SetAt(Heads, h, c) = Heads
        BY <1>2, <2>1 DEF Heads, SetAt
      <3> QED
        BY <2>1, <3>1, <3>2, LinkedClosed DEF FullInv, Memory, OtherLists
    <2>2. CASE c # ts[t].chunk
      <3>1. chunks[c] = Free /\ chunks' = SetAt(chunks, c, Heads[h])
        BY <1>2, <2>2 DEF Call, NewChunk, SetAt
      <3>2. Lists(chunks, Heads)
        BY DEF FullInv, Memory
      <3>3. /\ Lists(chunks', SetAt(Heads, h, c))
            /\ Linked(chunks', c) = {c} \cup Linked(chunks, Heads[h])
            /\ \A g \in Greenlets \ {h} : Linked(chunks', Heads[g]) = Linked(chunks, Heads[g])
        BY <1>2, <3>1, <3>2, ListsPush
      <3> QED
        BY <1>2, <3>3 DEF OtherLists
    <2> QED
      BY <2>1, <2>2
  <1>15. InList(all, LostTo(h), chunks', c)
    <2> SUFFICES ASSUME NEW k \in 1..m, k > LostTo(h), all[k].complete PROVE all[k].chunk \in Linked(chunks', c)
      BY <1>9 DEF InList
    <2>1. CASE k = m
      BY <1>8, <1>14, <2>1
    <2>2. CASE k # m
      <3>1. k \in 1..n /\ all[k] = fs[k]
        BY <1>8, <2>2
      <3>2. fs[k].chunk \in Linked(chunks, ts[t].chunk)
        BY <1>2, <1>9, <3>1 DEF InList
      <3> QED
        BY <1>14, <3>1, <3>2
    <2> QED
      BY <2>1, <2>2
  <1> QED
    BY <1>1, <1>3, <1>8, <1>9, <1>11, <1>12, <1>13, <1>14, <1>15, RunsFullInv

LEMMA ReturnFullInv ==
  ASSUME FullInv, BaseInv', NEW t \in Threads, Return(t)
  PROVE  FullInv'
  <1>0. PICK h \in Greenlets : h = current[t]
    BY DEF FullInv, BaseInv, AtHome
  <1>1. PICK fs : fs = frames[h]
    OBVIOUS
  <1>2. PICK x : x = ts[t].chunk
    OBVIOUS
  <1> DEFINE b == stale[h]
             m == LostTo(h)
  <1>3. /\ t \in alive /\ ts[t].frame > b
        /\ UNCHANGED <<life, current, home, alive, saved, top, stale>>
    BY <1>0 DEF Return
  <1>4. /\ FramesOK(fs, b, Null) /\ Len(fs) \in Nat /\ ts[t].frame = Len(fs)
        /\ Len(fs) <= MaxFrames[h]
        /\ ts[t] \in AllStates /\ ts[t].exc_info # "null"
        /\ ts[t].depth \in 0..Limit /\ x \in 0..NChunks
        /\ Cardinality(Counted(fs, b)) <= ts[t].depth
        /\ InList(fs, m, chunks, x)
        /\ Heads[h] = x
    BY <1>0, <1>1, <1>2, <1>3, Running
  <1>5. PICK back : back = BackOf(fs)
    OBVIOUS
  <1>6. PICK pops \in BOOLEAN : pops <=> chunks[x] # Null /\ \A k \in 1..back : k > m => fs[k].chunk # x
    OBVIOUS
  <1>7. PICK y : y = IF pops THEN chunks[x] ELSE x
    OBVIOUS
  <1>8. PICK new : new = SubSeq(fs, 1, back)
    OBVIOUS
  <1>9. /\ frames' = [frames EXCEPT ![h] = new]
        /\ ts' = [ts EXCEPT ![t] = [ts[t] EXCEPT !.frame = back, !.depth = ts[t].depth - 1,
                                                 !.chunk = y]]
        /\ chunks' = IF pops THEN [chunks EXCEPT ![x] = Free] ELSE chunks
    <2>1. back = LET p == fs[ts[t].frame].previous
                 IN  IF p # Null /\ ~fs[p].complete THEN fs[p].previous ELSE p
      BY <1>4, <1>5 DEF BackOf
    <2>2. fs = frames[current[t]]
      BY <1>0, <1>1
    <2>3. \A k : k \in 1..back \ Freed(h) <=> k \in 1..back /\ k > m
      <3>1. b \in Nat /\ back \in Nat
        BY <1>3, <1>4, <1>5, BackIs DEF FramesOK
      <3> HIDE DEF b
      <3>2. Freed(h) = 1..m /\ m \in Nat
        BY <3>1 DEF Freed, LostTo, b
      <3> HIDE DEF m
      <3> QED
        BY <3>1, <3>2
    <2> HIDE DEF m
    <2> QED
      BY <1>0, <1>2, <1>6, <1>7, <1>8, <2>1, <2>2, <2>3 DEF Return
  <1>10. /\ Len(new) = back /\ back \in b..(Len(fs) - 1) /\ back \in Nat
         /\ \A k \in 1..back : new[k] = fs[k]
         /\ FramesOK(new, b, Null)
         /\ Counted(new, b) = Counted(fs, b) \ {Len(fs)}
         /\ Len(fs) \in Counted(fs, b) /\ fs[Len(fs)].complete /\ Len(fs) > b
    <2>1. Len(fs) > b
      BY <1>3, <1>4
    <2>2. FramesOK(fs, b, Null) /\ new = Popped(fs)
      BY <1>4, <1>5, <1>8 DEF Popped
    <2>3. /\ Len(new) = BackOf(fs)
          /\ \A k \in 1..BackOf(fs) : new[k] = fs[k]
          /\ FramesOK(new, b, Null)
          /\ Counted(new, b) = Counted(fs, b) \ {Len(fs)}
          /\ Len(fs) \in Counted(fs, b) /\ fs[Len(fs)].complete /\ Len(fs) > b
      BY <2>1, <2>2, ReturnOK
    <2>4. BackOf(fs) \in b..(Len(fs) - 1) /\ BackOf(fs) \in Nat
      BY <2>1, <2>2, BackIs
    <2> QED
      BY <1>5, <2>3, <2>4
  <1> HIDE DEF b
  <1>11. Cardinality(Counted(new, b)) <= ts[t].depth - 1 /\ ts[t].depth - 1 \in 0..Limit
    <2>0. fs \in Seq(Frame)
      BY <1>4 DEF FramesOK
    <2>1. IsFiniteSet(Counted(fs, b)) /\ Cardinality(Counted(fs, b)) \in Nat
      BY <2>0, CountedFinite
    <2>2. Cardinality(Counted(new, b)) = Cardinality(Counted(fs, b)) - 1
      BY <1>10, <2>1, FS_RemoveElement
    <2>3. Cardinality(Counted(new, b)) \in Nat
      <3>1. new \in Seq(Frame)
        BY <1>10 DEF FramesOK
      <3> QED
        BY <3>1, CountedFinite
    <2> QED
      BY <1>4, <2>1, <2>2, <2>3, BoundsAssumption
  <1>12. x \in 1..NChunks
    <2>1. fs[Len(fs)].complete /\ Len(fs) \in 1..Len(fs) /\ Len(fs) > m
      <3>1. b \in Nat
        BY <1>4 DEF FramesOK
      <3>2. m = 0 \/ m = b
        BY DEF LostTo, b
      <3> QED
        BY <1>4, <1>10, <3>1, <3>2
    <2> HIDE DEF m
    <2>2. fs[Len(fs)].chunk \in Linked(chunks, x)
      BY <1>4, <2>1 DEF InList
    <2> QED
      BY <2>2, LinkedBelow
  <1> HIDE DEF m
  <1>13. /\ y \in 0..NChunks
         /\ Lists(chunks', SetAt(Heads, h, y)) /\ OtherLists(h)
         /\ InList(new, m, chunks', y)
    <2>0. Lists(chunks, Heads)
      BY DEF FullInv, Memory
    <2>1. CASE pops
      <3>1. chunks' = SetAt(chunks, Heads[h], Free) /\ y = chunks[Heads[h]] /\ Heads[h] \in 1..NChunks
        BY <1>4, <1>7, <1>9, <1>12, <2>1 DEF SetAt
      <3>2. /\ y \in 0..NChunks /\ Lists(chunks', SetAt(Heads, h, y)) /\ OtherLists(h)
            /\ Linked(chunks', y) = Linked(chunks, x) \ {x}
        <4>1. /\ chunks[Heads[h]] \in 0..NChunks
              /\ Lists(chunks', SetAt(Heads, h, chunks[Heads[h]]))
              /\ Linked(chunks', chunks[Heads[h]]) = Linked(chunks, Heads[h]) \ {Heads[h]}
              /\ \A g \in Greenlets \ {h} : Linked(chunks', Heads[g]) = Linked(chunks, Heads[g])
          BY <2>0, <3>1, ListsPop
        <4>2. Heads[h] = x /\ y = chunks[Heads[h]]
          BY <3>1, <1>4
        <4> QED
          BY <4>1, <4>2 DEF OtherLists
      <3>3. ASSUME NEW k \in 1..Len(new), k > m, new[k].complete PROVE new[k].chunk \in Linked(chunks', y)
        <4>1. k \in 1..back /\ k \in 1..Len(fs) /\ new[k] = fs[k]
          BY <1>4, <1>10
        <4>2. fs[k].chunk \in Linked(chunks, x) /\ fs[k].chunk # x
          BY <1>4, <1>6, <2>1, <3>3, <4>1 DEF InList
        <4> QED
          BY <3>2, <4>1, <4>2
      <3> QED
        BY <3>2, <3>3 DEF InList
    <2>2. CASE ~pops
      <3>1. chunks' = chunks /\ y = x
        BY <1>7, <1>9, <2>2
      <3>2. SetAt(Heads, h, y) = Heads
        BY <1>4, <3>1 DEF Heads, SetAt
      <3>3. ASSUME NEW k \in 1..Len(new), k > m, new[k].complete PROVE new[k].chunk \in Linked(chunks', y)
        <4>1. k \in 1..Len(fs) /\ new[k] = fs[k]
          BY <1>4, <1>10
        <4> QED
          BY <1>4, <3>1, <3>3, <4>1 DEF InList
      <3> QED
        BY <1>4, <2>0, <3>1, <3>2, <3>3 DEF OtherLists, InList
    <2> QED
      BY <2>1, <2>2
  <1>14. PICK d \in 0..Limit : d = ts[t].depth - 1
    BY <1>11
  <1>15. PICK s : s = Moved(ts[t], back, d, y)
    OBVIOUS
  <1>16. s \in AllStates /\ s.exc_info # "null" /\ s.frame = back /\ s.depth = d /\ s.chunk = y
    <2>1. ts[t] \in AllStates /\ back \in Nat /\ y \in 0..NChunks
      BY <1>4, <1>10, <1>13
    <2>2. /\ s \in AllStates /\ s.exc_info = ts[t].exc_info
          /\ s.frame = back /\ s.depth = d /\ s.chunk = y
      BY <1>15, <2>1, MovedTyped
    <2> QED
      BY <1>4, <2>2
  <1>17. RunsTo(t, h, s, new)
    BY <1>0, <1>3, <1>9, <1>14, <1>15 DEF RunsTo, SetAt, Moved
  <1>18. Len(new) <= MaxFrames[h]
    BY <1>4, <1>10, BoundsAssumption
  <1> QED
    BY <1>3, <1>10, <1>11, <1>13, <1>14, <1>16, <1>17, <1>18, RunsFullInv DEF b, m

\* A greenlet that runs changes its context or the exception that it handles.
LEMMA KeepsFullInv ==
  ASSUME FullInv, BaseInv', NEW t \in alive, NEW s \in AllStates, s.exc_info # "null",
         s.frame = ts[t].frame, s.depth = ts[t].depth, s.chunk = ts[t].chunk,
         ts' = SetAt(ts, t, s),
         UNCHANGED <<life, current, home, alive, saved, top, frames, stale, chunks>>
  PROVE  FullInv'
  <1>0. PICK h \in Greenlets : h = current[t]
    BY DEF FullInv, BaseInv, Fields, AtHome
  <1>1. PICK fs : fs = frames[h]
    OBVIOUS
  <1>2. /\ FramesOK(fs, stale[h], Null) /\ s.frame = Len(fs) /\ Len(fs) <= MaxFrames[h]
        /\ Cardinality(Counted(fs, stale[h])) <= s.depth
        /\ InList(fs, LostTo(h), chunks', s.chunk)
        /\ Heads[h] = s.chunk
    BY <1>0, <1>1, Running
  <1>3. RunsTo(t, h, s, fs)
    BY <1>0, <1>1 DEF RunsTo, SetAt, FullInv, Typed
  <1>4. Lists(chunks', SetAt(Heads, h, s.chunk)) /\ OtherLists(h)
    <2>1. SetAt(Heads, h, s.chunk) = Heads
      BY <1>2 DEF SetAt, Heads
    <2> QED
      BY <2>1 DEF FullInv, Memory, OtherLists
  <1> QED
    BY <1>2, <1>3, <1>4, RunsFullInv

LEMMA HandleFullInv ==
  ASSUME FullInv, BaseInv', NEW t \in Threads, Handle(t)
  PROVE  FullInv'
  <1>1. t \in alive /\ UNCHANGED <<life, current, home, alive, saved, top, frames, stale, chunks>>
    BY DEF Handle
  <1>2. ts[t] \in AllStates
    BY DEF FullInv, Typed
  <1>3. PICK s : s = IF ts[t].exc_info = "base"
                     THEN [ts[t] EXCEPT !.exc_info = "generator", !.exc_value = "error"]
                     ELSE [ts[t] EXCEPT !.exc_info = "base", !.exc_value = "none"]
    OBVIOUS
  <1>4. /\ s \in AllStates /\ s.exc_info # "null"
        /\ s.frame = ts[t].frame /\ s.depth = ts[t].depth /\ s.chunk = ts[t].chunk
    BY <1>2, <1>3 DEF AllStates, State
  <1>5. ts' = SetAt(ts, t, s)
    BY <1>3 DEF Handle, SetAt
  <1> QED
    BY <1>1, <1>4, <1>5, KeepsFullInv

\* s with another context
WithContext(s, c) == [s EXCEPT !.context = c]

LEMMA WithContextTyped ==
  ASSUME NEW s \in AllStates, NEW c \in Contexts \cup {Empty}, NEW new, new = WithContext(s, c)
  PROVE  /\ new \in AllStates /\ new.exc_info = s.exc_info /\ new.exc_value = s.exc_value
         /\ new.frame = s.frame /\ new.depth = s.depth /\ new.chunk = s.chunk /\ new.context = c
  BY DEF AllStates, State, WithContext

LEMMA ContextFullInv ==
  ASSUME FullInv, BaseInv', NEW t \in alive, NEW c \in Contexts \cup {Empty},
         ts' = [ts EXCEPT ![t].context = c],
         UNCHANGED <<life, current, home, alive, saved, top, frames, stale, chunks>>
  PROVE  FullInv'
  <1>1. ts[t] \in AllStates /\ ts[t].exc_info # "null"
    BY DEF FullInv, BaseInv, Fields, Typed
  <1>2. PICK s : s = WithContext(ts[t], c)
    OBVIOUS
  <1>3. /\ s \in AllStates /\ s.exc_info = ts[t].exc_info
        /\ s.frame = ts[t].frame /\ s.depth = ts[t].depth /\ s.chunk = ts[t].chunk
    BY <1>1, <1>2, WithContextTyped
  <1>4. ts' = SetAt(ts, t, s)
    BY <1>2 DEF SetAt, WithContext
  <1> QED
    BY <1>1, <1>3, <1>4, KeepsFullInv

LEMMA RelinksCounted ==
  ASSUME NEW fs \in Seq(Frame), NEW new \in Seq(Frame), Relinks(fs, new), NEW b
  PROVE  Counted(new, b) = Counted(fs, b)
  <1>1. DOMAIN fs = 1..Len(fs) /\ DOMAIN new = 1..Len(new)
    OBVIOUS
  <1> QED
    BY <1>1 DEF Counted, CompleteOf, Relinks

\* g can be switched to with the state s.
Enters(g, s) ==
    /\ FramesOK(Unexposed(frames[g], top[g]), stale[g], Null)
    /\ Relinks(frames[g], Unexposed(frames[g], top[g]))
    /\ s \in AllStates
    /\ s.frame = Len(frames[g]) /\ s.chunk = StateOf(g).chunk
    /\ Cardinality(Counted(frames[g], stale[g])) <= s.depth

\* What g_switchstack() does to the greenlet h that t runs and to g.
Switches(t, h, g, s) ==
    /\ saved' = [saved EXCEPT ![h] = ts[t], ![g] = Left(s)]
    /\ top' = [top EXCEPT ![h] = Len(frames[h]), ![g] = Null]
    /\ frames' = [frames EXCEPT ![h] = Exposed(frames[h], Len(frames[h])),
                                ![g] = Unexposed(frames[g], top[g])]
    /\ ts' = [ts EXCEPT ![t] = Restored(s)]
    /\ current' = [current EXCEPT ![t] = g]

LEMMA SwitchStackIs ==
  ASSUME FullInv, NEW t \in alive, NEW h, h = current[t], NEW g \in Greenlets, h # g,
         NEW s, SwitchStack(t, g, s)
  PROVE  Switches(t, h, g, s)
  <1>1. PICK fs : fs = frames[h]
    OBVIOUS
  <1>2. ts[t].frame = Len(fs) /\ FramesOK(fs, stale[h], Null) /\ h \in Greenlets
    BY <1>1, Running
  <1>3. PICK n : n = TopFrame(fs, ts[t].frame)
    OBVIOUS
  <1>4. n = Len(fs)
    BY <1>2, <1>3, ExposedOK
  <1>5. fs = frames[current[t]]
    BY <1>1
  <1>6. /\ saved' = [saved EXCEPT ![h] = ts[t], ![g] = Left(s)]
        /\ top' = [top EXCEPT ![h] = n, ![g] = Null]
        /\ frames' = [frames EXCEPT ![h] = Exposed(fs, n), ![g] = Unexposed(frames[g], top[g])]
        /\ ts' = [ts EXCEPT ![t] = Restored(s)]
        /\ current' = [current EXCEPT ![t] = g]
    BY <1>3, <1>5 DEF SwitchStack, Saved
  <1>7. frames' = [frames EXCEPT ![h] = Exposed(fs, n), ![g] = Unexposed(frames[g], top[g])]
    BY <1>6
  <1> QED
    BY <1>1, <1>4, <1>6, <1>7 DEF Switches

LEMMA SwitchesFullInv ==
  ASSUME FullInv, BaseInv', NEW t \in alive, NEW h, h = current[t], NEW g \in Greenlets, h # g,
         HomeIs(g, t), ~IsCurrent(g), life[g] # "dead",
         NEW s, Enters(g, s), Switches(t, h, g, s), UNCHANGED <<alive, stale, chunks>>,
         life' = SetAt(life, g, "active")
  PROVE  FullInv'
  <1>1. /\ t \in Threads /\ h \in Greenlets /\ home[h] = t
        /\ life[h] \in {"active", "dead"}
        /\ FramesOK(frames[h], stale[h], Null) /\ ts[t].frame = Len(frames[h])
        /\ ts[t] \in AllStates
        /\ Cardinality(Counted(frames[h], stale[h])) <= ts[t].depth
        /\ Len(frames[h]) <= MaxFrames[h]
    BY Running
  <1>2. PICK out : out = Exposed(frames[h], Len(frames[h]))
    OBVIOUS
  <1>3. PICK in : in = Unexposed(frames[g], top[g])
    OBVIOUS
  <1>4. Relinks(frames[h], out) /\ FramesOK(out, stale[h], Len(frames[h]))
    BY <1>1, <1>2, ExposedOK
  <1>5. Relinks(frames[g], in) /\ FramesOK(in, stale[g], Null)
    BY <1>3 DEF Enters
  <1>6. /\ out \in Seq(Frame) /\ Counted(out, stale[h]) = Counted(frames[h], stale[h]) /\ Len(out) = Len(frames[h])
        /\ in \in Seq(Frame) /\ Counted(in, stale[g]) = Counted(frames[g], stale[g]) /\ Len(in) = Len(frames[g])
    <2>1. out \in Seq(Frame) /\ in \in Seq(Frame) /\ frames[h] \in Seq(Frame) /\ frames[g] \in Seq(Frame)
      BY <1>1, <1>4, <1>5 DEF FramesOK, FullInv, Typed
    <2>2. Counted(out, stale[h]) = Counted(frames[h], stale[h]) /\ Counted(in, stale[g]) = Counted(frames[g], stale[g])
      BY <1>4, <1>5, <2>1, RelinksCounted
    <2> QED
      BY <1>4, <1>5, <2>1, <2>2 DEF Relinks
  <1>7. /\ Restored(s) \in AllStates /\ Restored(s).exc_info # "null"
        /\ Restored(s).frame = s.frame /\ Restored(s).chunk = s.chunk /\ Restored(s).depth = s.depth
    BY DEF Enters, AllStates, State, Restored
  <1>8. Left(s) \in AllStates
    BY DEF Enters, AllStates, State, Left
  <1>9. Len(frames[h]) \in Nat
    BY <1>1 DEF FramesOK
  <1>10. /\ ts' \in [Threads -> AllStates] /\ ts'[t] = Restored(s)
         /\ \A u \in Threads \ {t} : ts'[u] = ts[u]
    BY <1>1, <1>7 DEF FullInv, Typed, Switches
  <1>11. /\ saved' \in [Greenlets -> AllStates] /\ saved'[h] = ts[t]
         /\ \A k \in Greenlets \ {g, h} : saved'[k] = saved[k]
    BY <1>1, <1>8 DEF FullInv, Typed, Switches
  <1>12. /\ top' \in [Greenlets -> Nat] /\ top'[h] = Len(frames[h]) /\ top'[g] = Null
         /\ \A k \in Greenlets \ {g, h} : top'[k] = top[k]
    BY <1>1, <1>9 DEF FullInv, Typed, Switches, Null
  <1>13. /\ frames' \in [Greenlets -> Seq(Frame)] /\ frames'[h] = out /\ frames'[g] = in
         /\ \A k \in Greenlets \ {g, h} : frames'[k] = frames[k]
    <2>1. frames' = [frames EXCEPT ![h] = out, ![g] = in]
      BY <1>2, <1>3 DEF Switches
    <2> QED
      BY <1>1, <1>6, <2>1 DEF FullInv, Typed
  <1>14. /\ life' \in [Greenlets -> {"new", "active", "dead", "gone"}] /\ life'[g] = "active"
         /\ \A k \in Greenlets \ {g} : life'[k] = life[k]
    BY DEF FullInv, Typed, SetAt
  <1>15. /\ current'[t] = g /\ \A u \in Threads \ {t} : current'[u] = current[u]
    BY <1>1 DEF FullInv, BaseInv, AtHome, Switches
  <1>16. Typed'
    <2>1. \A u \in alive' : ts'[u].exc_info # "null"
      BY <1>7, <1>10 DEF FullInv, BaseInv, Fields, Typed
    <2>2. stale' \in [Greenlets -> Nat]
      BY DEF FullInv, Typed
    <2> QED
      BY <1>10, <1>11, <1>12, <1>13, <1>14, <2>1, <2>2 DEF Typed
  <1>17. /\ IsCurrent(g)' /\ ~IsCurrent(h)'
         /\ \A k \in Greenlets \ {g, h} : IsCurrent(k)' <=> IsCurrent(k)
    <2>1. \A u \in Threads \ {t} : current[u] # h
      BY <1>1 DEF FullInv, BaseInv, AtHome
    <2> QED
      BY <1>1, <1>15, <2>1 DEF IsCurrent
  <1>18. StateInv'
    <2>1. ASSUME NEW u \in Threads
          PROVE  /\ home'[current'[u]] = u /\ life'[current'[u]] \in {"active", "dead"}
                 /\ top'[current'[u]] = Null
                 /\ ts'[u].frame = Len(frames'[current'[u]])
                 /\ u \notin alive' => ts'[u] = Blank
      <3>1. CASE u = t
        <4>1. current'[u] = g /\ top'[g] = Null /\ life'[g] = "active" /\ home'[g] = u
          BY <3>1, <1>12, <1>14, <1>15 DEF HomeIs
        <4>2. ts'[u].frame = s.frame /\ s.frame = Len(frames[g]) /\ Len(frames'[g]) = Len(frames[g])
          BY <3>1, <1>6, <1>7, <1>10, <1>13 DEF Enters
        <4>3. u \in alive'
          BY <3>1
        <4> QED
          BY <4>1, <4>2, <4>3
      <3>2. CASE u # t
        <4>0. PICK v : v = current[u]
          OBVIOUS
        <4>1. v \in Greenlets \ {g, h} /\ home'[v] = u
          BY <3>2, <4>0, <1>1 DEF FullInv, BaseInv, AtHome, IsCurrent, HomeIs
        <4>2. /\ life[v] \in {"active", "dead"} /\ top[v] = Null
              /\ ts[u].frame = Len(frames[v]) /\ (u \notin alive => ts[u] = Blank)
          BY <4>0 DEF FullInv, StateInv
        <4>3. /\ current'[u] = v /\ life'[v] = life[v] /\ top'[v] = top[v] /\ frames'[v] = frames[v]
              /\ ts'[u] = ts[u]
          BY <3>2, <4>0, <4>1, <1>10, <1>12, <1>13, <1>14, <1>15
        <4> QED
          BY <4>1, <4>2, <4>3
      <3> QED
        BY <3>1, <3>2
    <2>2. ASSUME NEW k \in Greenlets
          PROVE  /\ stale'[k] <= Len(frames'[k])
                 /\ life'[k] = "new" => /\ top'[k] = Null
                                        /\ stale'[k] = Len(frames'[k]) /\ saved'[k].frame = stale'[k]
                 /\ life'[k] = "gone" => saved'[k] = Blank /\ frames'[k] = <<>>
                 /\ life'[k] = "active" /\ ~IsCurrent(k)' =>
                       top'[k] = Len(frames'[k]) /\ saved'[k].frame = Len(frames'[k])
      <3>1. CASE k = g
        <4>1. stale[g] <= Len(frames[g])
          BY DEF FullInv, StateInv
        <4> QED
          BY <3>1, <4>1, <1>6, <1>13, <1>14, <1>17
      <3>2. CASE k = h
        <4>1. life'[h] \in {"active", "dead"}
          BY <1>1, <1>14
        <4>2. /\ top'[h] = Len(frames'[h]) /\ saved'[h].frame = Len(frames'[h])
              /\ stale'[h] <= Len(frames'[h])
          BY <1>1, <1>6, <1>11, <1>12, <1>13 DEF FullInv, StateInv
        <4> QED
          BY <3>2, <4>1, <4>2
      <3>3. CASE k \notin {g, h}
        <4>1. /\ life'[k] = life[k] /\ top'[k] = top[k] /\ frames'[k] = frames[k]
              /\ saved'[k] = saved[k] /\ (IsCurrent(k)' <=> IsCurrent(k))
          BY <3>3, <1>11, <1>12, <1>13, <1>14, <1>17
        <4> QED
          BY <4>1 DEF FullInv, StateInv
      <3> QED
        BY <3>1, <3>2, <3>3
    <2> QED
      BY <2>1, <2>2 DEF StateInv
  <1>19. /\ StateOf(g)' = Restored(s) /\ StateOf(h)' = ts[t] /\ StateOf(h) = ts[t]
         /\ \A k \in Greenlets \ {g, h} : StateOf(k)' = StateOf(k)
    <2>1. StateOf(g)' = Restored(s)
      BY <1>10, <1>17 DEF StateOf, HomeIs
    <2>2. StateOf(h)' = ts[t]
      BY <1>11, <1>17 DEF StateOf
    <2>3. StateOf(h) = ts[t]
      BY <1>1, StateOfIs DEF FullInv
    <2>4. ASSUME NEW k \in Greenlets \ {g, h} PROVE StateOf(k)' = StateOf(k)
      <3>1. CASE IsCurrent(k)
        <4>1. home[k] \in Threads \ {t} /\ home'[k] = home[k]
          BY <3>1, StateOfIs DEF FullInv, HomeIs
        <4> QED
          BY <3>1, <4>1, <1>10, <1>17 DEF StateOf
      <3>2. CASE ~IsCurrent(k)
        BY <3>2, <1>11, <1>17 DEF StateOf
      <3> QED
        BY <3>1, <3>2
    <2> QED
      BY <2>1, <2>2, <2>3, <2>4
  <1>20. FramesAll'
    <2> SUFFICES ASSUME NEW k \in Greenlets
                 PROVE  /\ FramesOK(frames'[k], stale'[k], top'[k])
                        /\ Len(frames'[k]) <= MaxFrames[k]
                        /\ Cardinality(Counted(frames'[k], stale'[k])) <= StateOf(k)'.depth
      BY DEF FramesAll
    <2>1. CASE k = g
      BY <2>1, <1>5, <1>6, <1>7, <1>12, <1>13, <1>19 DEF FullInv, FramesAll, Enters
    <2>2. CASE k = h
      BY <2>2, <1>1, <1>4, <1>6, <1>12, <1>13, <1>19
    <2>3. CASE k \notin {g, h}
      BY <2>3, <1>12, <1>13, <1>19 DEF FullInv, FramesAll
    <2> QED
      BY <2>1, <2>2, <2>3
  <1>21. Memory'
    <2>1. ASSUME NEW k \in Greenlets
          PROVE  StateOf(k)'.chunk = StateOf(k).chunk /\ LostTo(k)' = LostTo(k)
      <3>1. StateOf(k)'.chunk = StateOf(k).chunk
        BY <1>7, <1>19 DEF Enters
      <3>2. LostTo(k)' = LostTo(k)
        BY <1>14 DEF LostTo
      <3> QED
        BY <3>1, <3>2
    <2>2. ASSUME NEW k \in Greenlets PROVE Relinks(frames[k], frames'[k])
      <3>1. CASE k \in {g, h}
        BY <3>1, <1>4, <1>5, <1>13
      <3>2. CASE k \notin {g, h}
        BY <3>2, <1>13 DEF Relinks
      <3> QED
        BY <3>1, <3>2
    <2> QED
      BY <2>1, <2>2, ListsStay
  <1> QED
    BY <1>16, <1>18, <1>20, <1>21 DEF FullInv

LEMMA SwitchToFullInv ==
  ASSUME FullInv, BaseInv', NEW t \in Threads, NEW g \in Greenlets, SwitchTo(t, g)
  PROVE  FullInv'
  <1>1. PICK h : h = current[t]
    OBVIOUS
  <1>2. /\ t \in alive /\ h # g /\ home[g] = t /\ life[g] = "active"
        /\ SwitchStack(t, g, saved[g]) /\ UNCHANGED <<alive, home, stale, chunks>>
        /\ life' = SetAt(life, g, "active")
    BY <1>1 DEF SwitchTo, FullInv, Typed, SetAt
  <1>3. ~IsCurrent(g) /\ StateOf(g) = saved[g]
    BY <1>1, <1>2, StateOfIs DEF FullInv
  <1>4. top[g] = Len(frames[g]) /\ saved[g].frame = Len(frames[g])
    BY <1>2, <1>3 DEF FullInv, StateInv
  <1>5. Enters(g, saved[g])
    <2>1. FramesOK(frames[g], stale[g], Len(frames[g]))
      BY <1>4 DEF FullInv, FramesAll
    <2>2. /\ FramesOK(Unexposed(frames[g], top[g]), stale[g], Null)
          /\ Relinks(frames[g], Unexposed(frames[g], top[g]))
      BY <1>4, <2>1, UnexposedOK
    <2> QED
      BY <1>3, <1>4, <2>2 DEF Enters, FullInv, FramesAll, Typed
  <1>6. Switches(t, h, g, saved[g])
    BY <1>1, <1>2, SwitchStackIs
  <1>7. HomeIs(g, t)
    BY <1>2 DEF HomeIs, FullInv, BaseInv, AtHome
  <1> QED
    BY <1>1, <1>2, <1>3, <1>5, <1>6, <1>7, SwitchesFullInv

\* unexpose_frames() with no _top_frame
LEMMA UnexposedNone ==
  ASSUME NEW fs, NEW b, FramesOK(fs, b, Null)
  PROVE  FramesOK(Unexposed(fs, Null), b, Null) /\ Relinks(fs, Unexposed(fs, Null))
  <1>1. fs \in Seq(Frame)
    BY DEF FramesOK
  <1>2. Walk(fs, Null) = {}
    BY LinksOf, WalkStep DEF Null
  <1>3. Unexposed(fs, Null) = [k \in DOMAIN fs |-> fs[k]]
    BY <1>2 DEF Unexposed
  <1>4. Unexposed(fs, Null) = fs
    BY <1>1, <1>3
  <1> QED
    BY <1>4 DEF Relinks

\* No frame of a greenlet that was killed counts.
LEMMA NoneCounted ==
  ASSUME NEW fs, Len(fs) \in Nat, DOMAIN fs = 1..Len(fs)
  PROVE  Cardinality(Counted(fs, Len(fs))) = 0
  <1>1. Counted(fs, Len(fs)) = {}
    BY DEF Counted, CompleteOf
  <1> QED
    BY <1>1, FS_EmptySet

LEMMA StartFullInv ==
  ASSUME FullInv, BaseInv', NEW t \in Threads, NEW g \in Greenlets, Start(t, g)
  PROVE  FullInv'
  <1>1. PICK h : h = current[t]
    OBVIOUS
  <1>2. PICK s : s = InitialState(t, g)
    OBVIOUS
  <1>3. /\ t \in alive /\ life[g] = "new"
        /\ SwitchStack(t, g, s) /\ UNCHANGED <<alive, stale, chunks>>
        /\ life' = SetAt(life, g, "active") /\ home' = [home EXCEPT ![g] = t]
    BY <1>2 DEF Start, SetAt
  <1>4. h # g /\ life[h] \in {"active", "dead"} /\ ts[t].depth \in 0..Limit
    BY <1>1, <1>3, Running
  <1>5. ~IsCurrent(g) /\ StateOf(g) = saved[g]
    <2>1. \A u \in Threads : current[u] # g
      BY <1>3 DEF FullInv, BaseInv, AtHome
    <2> QED
      BY <2>1 DEF IsCurrent, StateOf
  <1>6. top[g] = Null /\ stale[g] = Len(frames[g]) /\ saved[g].frame = Len(frames[g])
    BY <1>3 DEF FullInv, StateInv
  <1>7. /\ FramesOK(frames[g], stale[g], Null)
        /\ Len(frames[g]) \in Nat /\ DOMAIN frames[g] = 1..Len(frames[g])
    <2>1. FramesOK(frames[g], stale[g], top[g])
      BY DEF FullInv, FramesAll
    <2> QED
      BY <1>6, <2>1 DEF FramesOK
  <1>8. s \in AllStates /\ s.frame = Len(frames[g]) /\ s.chunk = StateOf(g).chunk /\ s.depth \in Nat
    <2>1. saved[g] \in AllStates
      BY DEF FullInv, Typed
    <2>2. PICK r \in AllStates : r = saved[g]
      BY <2>1
    <2>3. PICK e \in 0..Limit : e = ts[t].depth
      BY <1>4
    <2>4. s = [r EXCEPT !.depth = e, !.exc_info = "null", !.exc_value = "none"]
      BY <1>2, <2>2, <2>3 DEF InitialState
    <2>5. s \in AllStates /\ s.frame = r.frame /\ s.chunk = r.chunk /\ s.depth = e
      BY <2>4 DEF AllStates, State
    <2> QED
      BY <1>5, <1>6, <2>2, <2>5, BoundsAssumption
  <1>9. Cardinality(Counted(frames[g], stale[g])) <= s.depth
    <2>1. Cardinality(Counted(frames[g], stale[g])) = 0
      BY <1>6, <1>7, NoneCounted
    <2> QED
      BY <1>8, <2>1
  <1>10. Enters(g, s)
    <2>1. /\ FramesOK(Unexposed(frames[g], top[g]), stale[g], Null)
          /\ Relinks(frames[g], Unexposed(frames[g], top[g]))
      BY <1>6, <1>7, UnexposedNone
    <2> QED
      BY <1>8, <1>9, <2>1 DEF Enters
  <1>11. Switches(t, h, g, s)
    BY <1>1, <1>3, <1>4, SwitchStackIs
  <1>12. HomeIs(g, t) /\ life[g] # "dead"
    BY <1>3 DEF HomeIs, FullInv, BaseInv, AtHome
  <1> QED
    BY <1>1, <1>3, <1>4, <1>5, <1>10, <1>11, <1>12, SwitchesFullInv

LEMMA BlankTyped == Blank \in AllStates /\ Blank.chunk = Null /\ Blank.frame = Null /\ Blank.depth = 0
  BY BoundsAssumption DEF Blank, AllStates, State, Null

\* A greenlet without frames
LEMMA NoFrames ==
  ASSUME NEW fs \in Seq(Frame), Len(fs) = 0, NEW m, NEW links, NEW c
  PROVE  FramesOK(fs, 0, Null) /\ Cardinality(Counted(fs, 0)) = 0 /\ InList(fs, m, links, c)
  <1>1. Counted(fs, 0) = {}
    BY DEF Counted, CompleteOf
  <1> QED
    BY <1>1, FS_EmptySet DEF FramesOK, InList, Null

\* The links that expose_frames() made are those of a run that was killed.
LEMMA KilledOK ==
  ASSUME NEW fs, NEW b, FramesOK(fs, b, Len(fs))
  PROVE  FramesOK(fs, Len(fs), Null)
  <1>1. fs \in Seq(Frame) /\ Len(fs) \in Nat /\ Len(fs) \in 0..Len(fs)
    BY DEF FramesOK
  <1>2. ASSUME NEW k \in 1..Len(fs) PROVE FrameOK(fs, Len(fs), k) /\ LinkOK(fs, Len(fs), Null, k)
    <2>1. FrameOK(fs, b, k) /\ LinkOK(fs, b, Len(fs), k) /\ Len(fs) # Null /\ k <= Len(fs)
      BY <1>1 DEF FramesOK, Null
    <2>2. FrameOK(fs, Len(fs), k)
      BY <1>1, <2>1 DEF FrameOK
    <2>3. fs[k].previous = From(fs, Len(fs), k)
      BY <2>1 DEF LinkOK, From
    <2> QED
      BY <2>2, <2>3 DEF LinkOK
  <1> QED
    BY <1>1, <1>2 DEF FramesOK

\* A greenlet that no thread runs ends with the frames fs, all of a killed run.
LEMMA EndsFullInv ==
  ASSUME FullInv, BaseInv', NEW g \in Greenlets, ~IsCurrent(g), UNCHANGED <<current, alive, ts>>,
         \A k \in Greenlets \ {g} : home'[k] = home[k],
         NEW l \in {"new", "gone"}, NEW r \in AllStates, NEW fs, FramesOK(fs, Len(fs), Null),
         Len(fs) <= MaxFrames[g], r.frame = Len(fs), l = "gone" => r = Blank /\ fs = <<>>,
         life' = SetAt(life, g, l), saved' = SetAt(saved, g, r), top' = SetAt(top, g, Null),
         frames' = SetAt(frames, g, fs), stale' = SetAt(stale, g, Len(fs)),
         Lists(chunks', SetAt(Heads, g, r.chunk)), OtherLists(g), InList(fs, 0, chunks', r.chunk)
  PROVE  FullInv'
  <1>0. fs \in Seq(Frame) /\ Len(fs) \in Nat /\ DOMAIN fs = 1..Len(fs)
    BY DEF FramesOK
  <1>1. /\ life' \in [Greenlets -> {"new", "active", "dead", "gone"}] /\ life'[g] = l
        /\ saved' \in [Greenlets -> AllStates] /\ saved'[g] = r
        /\ top' \in [Greenlets -> Nat] /\ top'[g] = Null
        /\ stale' \in [Greenlets -> Nat] /\ stale'[g] = Len(fs)
        /\ frames' \in [Greenlets -> Seq(Frame)] /\ frames'[g] = fs
    BY <1>0 DEF FullInv, Typed, SetAt, Null
  <1>2. ASSUME NEW k \in Greenlets \ {g}
        PROVE  /\ life'[k] = life[k] /\ saved'[k] = saved[k] /\ top'[k] = top[k]
               /\ frames'[k] = frames[k] /\ stale'[k] = stale[k]
    BY DEF FullInv, Typed, SetAt
  <1>3. \A k \in Greenlets : IsCurrent(k)' <=> IsCurrent(k)
    BY DEF IsCurrent
  <1>4. Typed'
    BY <1>1 DEF FullInv, Typed
  <1>5. StateInv'
    <2>1. ASSUME NEW u \in Threads
          PROVE  /\ home'[current'[u]] = u /\ life'[current'[u]] \in {"active", "dead"}
                 /\ top'[current'[u]] = Null
                 /\ ts'[u].frame = Len(frames'[current'[u]])
                 /\ u \notin alive' => ts'[u] = Blank
      <3>1. PICK v : v = current[u]
        OBVIOUS
      <3>2. v \in Greenlets \ {g}
        BY <3>1 DEF FullInv, BaseInv, AtHome, IsCurrent
      <3>3. /\ life'[v] = life[v] /\ top'[v] = top[v] /\ frames'[v] = frames[v]
            /\ home'[v] = home[v]
        BY <1>2, <3>2
      <3> QED
        BY <3>1, <3>3 DEF FullInv, StateInv
    <2>2. ASSUME NEW k \in Greenlets
          PROVE  /\ stale'[k] <= Len(frames'[k])
                 /\ life'[k] = "new" => /\ top'[k] = Null
                                        /\ stale'[k] = Len(frames'[k]) /\ saved'[k].frame = stale'[k]
                 /\ life'[k] = "gone" => saved'[k] = Blank /\ frames'[k] = <<>>
                 /\ life'[k] = "active" /\ ~IsCurrent(k)' =>
                       top'[k] = Len(frames'[k]) /\ saved'[k].frame = Len(frames'[k])
      <3>1. CASE k = g
        BY <3>1, <1>0, <1>1
      <3>2. CASE k # g
        BY <3>2, <1>2, <1>3 DEF FullInv, StateInv
      <3> QED
        BY <3>1, <3>2
    <2> QED
      BY <2>1, <2>2 DEF StateInv
  <1>6. StateOf(g)' = r /\ Others(g) /\ LostTo(g)' = 0
    <2>1. StateOf(g)' = r /\ LostTo(g)' = 0
      BY <1>1, <1>3 DEF StateOf, LostTo
    <2>2. \A k \in Greenlets \ {g} : StateOf(k)' = StateOf(k) /\ LostTo(k)' = LostTo(k)
      BY <1>2, <1>3 DEF StateOf, LostTo
    <2> QED
      BY <1>2, <2>1, <2>2 DEF Others
  <1>7. /\ FramesOK(frames'[g], stale'[g], top'[g])
        /\ Len(frames'[g]) <= MaxFrames[g]
        /\ Cardinality(Counted(frames'[g], stale'[g])) <= StateOf(g)'.depth
    <2>1. Cardinality(Counted(fs, Len(fs))) = 0
      BY <1>0, NoneCounted
    <2>2. r.depth \in Nat
      BY BoundsAssumption DEF AllStates, State
    <2> QED
      BY <1>1, <1>6, <2>1, <2>2
  <1>8. FramesAll' /\ Memory'
    BY <1>1, <1>6, <1>7, OneChanges
  <1> QED
    BY <1>4, <1>5, <1>8 DEF FullInv

LEMMA MurderFullInv ==
  ASSUME FullInv, BaseInv', NEW g \in Greenlets, Murder(g)
  PROVE  FullInv'
  <1>1. PICK r : r = WithContext(saved[g], Empty)
    OBVIOUS
  <1>2. r \in AllStates /\ r.chunk = saved[g].chunk /\ r.frame = saved[g].frame
    BY <1>1, WithContextTyped DEF FullInv, Typed
  <1>3. PICK fs : fs = frames[g]
    OBVIOUS
  <1>4. /\ ~IsCurrent(g) /\ UNCHANGED <<current, alive, ts, chunks>> /\ life[g] = "active"
        /\ \A k \in Greenlets \ {g} : home'[k] = home[k]
        /\ life' = SetAt(life, g, "new") /\ saved' = SetAt(saved, g, r)
        /\ top' = SetAt(top, g, Null) /\ stale' = SetAt(stale, g, Len(fs))
        /\ frames' = SetAt(frames, g, fs)
    BY <1>1, <1>3 DEF Murder, SetAt, WithContext, FullInv, Typed, BaseInv, AtHome
  <1>5. Heads[g] = r.chunk /\ StateOf(g).chunk = r.chunk
    BY <1>2, <1>4, StateOfTyped, StateOfIs DEF FullInv
  <1>6. Lists(chunks', SetAt(Heads, g, r.chunk)) /\ OtherLists(g)
    <2>1. SetAt(Heads, g, r.chunk) = Heads
      BY <1>5 DEF Heads, SetAt
    <2> QED
      BY <1>4, <2>1 DEF FullInv, Memory, OtherLists
  <1>7. r.frame = Len(fs) /\ FramesOK(fs, Len(fs), Null) /\ Len(fs) <= MaxFrames[g]
    <2>1. top[g] = Len(fs) /\ saved[g].frame = Len(fs)
      BY <1>3, <1>4 DEF FullInv, StateInv
    <2>2. FramesOK(fs, stale[g], Len(fs)) /\ Len(fs) <= MaxFrames[g]
      BY <1>3, <2>1 DEF FullInv, FramesAll
    <2> QED
      BY <1>2, <2>1, <2>2, KilledOK
  <1>8. InList(fs, 0, chunks', r.chunk)
    <2>1. LostTo(g) = 0
      BY <1>4 DEF LostTo
    <2> QED
      BY <1>3, <1>4, <1>5, <2>1 DEF FullInv, Memory
  <1> QED
    BY <1>2, <1>4, <1>6, <1>7, <1>8, EndsFullInv

\* did_finish() frees the list of one greenlet.
LEMMA FreesList ==
  ASSUME FullInv, NEW g \in Greenlets, NEW c, c = Heads[g], FreeFrom(c)
  PROVE  Lists(chunks', SetAt(Heads, g, Null)) /\ OtherLists(g)
  <1>1. chunks' = FreeAll(chunks, Heads[g])
    BY DEF FreeFrom, FreeAll, ChunksFrom
  <1>2. Lists(chunks, Heads)
    BY DEF FullInv, Memory
  <1> QED
    BY <1>1, <1>2, ListsFree DEF OtherLists

LEMMA DestroyFullInv ==
  ASSUME FullInv, BaseInv', NEW g \in Greenlets, Destroy(g)
  PROVE  FullInv'
  <1>1. /\ ~IsCurrent(g) /\ UNCHANGED <<current, home, alive, ts>> /\ FreeFrom(saved[g].chunk)
        /\ life' = SetAt(life, g, "gone") /\ saved' = SetAt(saved, g, Blank)
        /\ top' = SetAt(top, g, Null) /\ frames' = SetAt(frames, g, <<>>)
        /\ stale' = SetAt(stale, g, 0)
    BY DEF Destroy, SetAt
  <1>2. Heads[g] = saved[g].chunk
    BY <1>1, StateOfTyped, StateOfIs DEF FullInv
  <1>3. Lists(chunks', SetAt(Heads, g, Null)) /\ OtherLists(g)
    BY <1>1, <1>2, FreesList
  <1>4. Blank \in AllStates /\ Blank.chunk = Null /\ Blank.frame = Len(<<>>)
    BY BlankTyped DEF Null
  <1>5. /\ FramesOK(<<>>, Len(<<>>), Null) /\ InList(<<>>, 0, chunks', Blank.chunk)
        /\ Len(<<>>) = 0 /\ Len(<<>>) <= MaxFrames[g]
    <2>1. <<>> \in Seq(Frame) /\ Len(<<>>) = 0
      OBVIOUS
    <2>2. FramesOK(<<>>, 0, Null) /\ InList(<<>>, 0, chunks', Blank.chunk)
      BY <2>1, NoFrames
    <2> QED
      BY <2>1, <2>2, BoundsAssumption
  <1> QED
    BY <1>1, <1>3, <1>4, <1>5, EndsFullInv

LEMMA ExitFullInv ==
  ASSUME FullInv, BaseInv', NEW t \in Threads, Exit(t)
  PROVE  FullInv'
  <1>1. PICK h : h = current[t]
    OBVIOUS
  <1>2. /\ t \in alive /\ ts[t].frame = Null /\ FreeFrom(ts[t].chunk) /\ alive' = alive \ {t}
        /\ ts' = [ts EXCEPT ![t] = Blank] /\ UNCHANGED <<life, current, home, saved, top, frames, stale>>
    BY DEF Exit
  <1>3. /\ h \in Greenlets /\ home[h] = t /\ Len(frames[h]) = 0 /\ top[h] = Null
        /\ stale[h] = 0
        /\ Heads[h] = ts[t].chunk
        /\ life[h] \in {"active", "dead"}
    BY <1>1, <1>2, Running DEF Null, FramesOK
  <1>4. /\ ts' \in [Threads -> AllStates] /\ ts'[t] = Blank
        /\ \A u \in Threads \ {t} : ts'[u] = ts[u]
    BY <1>2, BlankTyped DEF FullInv, Typed
  <1>5. Typed'
    <2>1. \A u \in alive' : ts'[u].exc_info # "null"
      BY <1>2, <1>4 DEF FullInv, BaseInv, Fields, Typed
    <2> QED
      BY <1>2, <1>4, <2>1 DEF FullInv, Typed
  <1>6. StateInv'
    <2>1. ASSUME NEW u \in Threads
          PROVE  ts'[u].frame = Len(frames'[current'[u]]) /\ (u \notin alive' => ts'[u] = Blank)
      <3>1. CASE u = t
        BY <3>1, <1>1, <1>2, <1>3, <1>4, BlankTyped DEF Null
      <3>2. CASE u # t
        BY <3>2, <1>2, <1>4 DEF FullInv, StateInv
      <3> QED
        BY <3>1, <3>2
    <2>2. \A k \in Greenlets : IsCurrent(k)' <=> IsCurrent(k)
      BY <1>2 DEF IsCurrent
    <2> QED
      BY <1>2, <2>1, <2>2 DEF FullInv, StateInv
  <1>7. StateOf(h)' = Blank /\ Others(h)
    <2>1. OtherThreads(t) /\ UNCHANGED <<current, home, saved>>
      BY <1>2, <1>4 DEF OtherThreads
    <2>2. StateOf(h)' = ts'[t] /\ OtherStates(h)
      BY <1>1, <2>1, RunsStates
    <2>3. \A k : LostTo(k)' = LostTo(k)
      BY <1>2 DEF LostTo
    <2> QED
      BY <1>2, <1>4, <2>2, <2>3 DEF Others, OtherStates
  <1>8. Lists(chunks', SetAt(Heads, h, Null)) /\ OtherLists(h)
    BY <1>2, <1>3, FreesList
  <1>9. /\ FramesOK(frames'[h], stale'[h], top'[h]) /\ InList(frames'[h], LostTo(h)', chunks', Blank.chunk)
        /\ Len(frames'[h]) <= MaxFrames[h]
        /\ Cardinality(Counted(frames'[h], stale'[h])) <= StateOf(h)'.depth
    <2>1. frames[h] \in Seq(Frame) /\ Len(frames[h]) = 0
      BY <1>3 DEF FullInv, Typed
    <2>2. /\ FramesOK(frames[h], 0, Null) /\ InList(frames[h], LostTo(h)', chunks', Blank.chunk)
          /\ Cardinality(Counted(frames[h], 0)) = 0
      BY <2>1, NoFrames
    <2>3. MaxFrames[h] \in Nat
      BY <1>3, BoundsAssumption
    <2> QED
      BY <1>2, <1>3, <1>7, <2>1, <2>2, <2>3, BlankTyped
  <1>10. FramesAll' /\ Memory'
    BY <1>3, <1>7, <1>8, <1>9, BlankTyped, OneChanges
  <1> QED
    BY <1>5, <1>6, <1>10 DEF FullInv

LEMMA DieFullInv ==
  ASSUME FullInv, BaseInv', NEW t \in Threads, Die(t)
  PROVE  FullInv'
  <1>1. PICK h : h = current[t]
    OBVIOUS
  <1>2. /\ t \in alive /\ ts[t].frame = stale[h] /\ FreeFrom(ts[t].chunk)
        /\ ts' = [ts EXCEPT ![t].chunk = Null] /\ saved' = [saved EXCEPT ![h].chunk = Null]
        /\ life' = [life EXCEPT ![h] = "dead"] 
        /\ UNCHANGED <<current, home, alive, top, frames, stale>>
    BY <1>1 DEF Die, DidFinish
  <1>3. /\ h \in Greenlets /\ home[h] = t /\ stale[h] = Len(frames[h]) /\ top[h] = Null
        /\ Heads[h] = ts[t].chunk
        /\ ts[t] \in AllStates /\ ts[t].exc_info # "null" /\ ts[t].frame = Len(frames[h])
        /\ FramesOK(frames[h], stale[h], Null) /\ Len(frames[h]) <= MaxFrames[h]
        /\ Cardinality(Counted(frames[h], stale[h])) <= ts[t].depth
    BY <1>1, <1>2, Running
  <1>4. PICK s : s = [ts[t] EXCEPT !.chunk = Null]
    OBVIOUS
  <1>5. PICK r : r = [saved[h] EXCEPT !.chunk = Null]
    OBVIOUS
  <1>6. s \in AllStates /\ s.exc_info # "null" /\ s.frame = Len(frames[h])
        /\ s.chunk = Null /\ s.depth = ts[t].depth
    <2>1. Null \in 0..NChunks
      BY BoundsAssumption DEF Null
    <2> QED
      BY <1>2, <1>3, <1>4, <2>1 DEF AllStates, State
  <1>7. r \in AllStates
    <2>1. Null \in 0..NChunks /\ saved[h] \in AllStates
      BY <1>3, BoundsAssumption DEF Null, FullInv, Typed
    <2> QED
      BY <1>5, <2>1 DEF AllStates, State
  <1>8. /\ ts' \in [Threads -> AllStates] /\ ts'[t] = s
        /\ \A u \in Threads \ {t} : ts'[u] = ts[u]
    BY <1>2, <1>4, <1>6 DEF FullInv, Typed
  <1>9. /\ saved' \in [Greenlets -> AllStates]
        /\ \A k \in Greenlets \ {h} : saved'[k] = saved[k]
    BY <1>2, <1>3, <1>5, <1>7 DEF FullInv, Typed
  <1>10. /\ life' \in [Greenlets -> {"new", "active", "dead", "gone"}] /\ life'[h] = "dead"
         /\ \A k \in Greenlets \ {h} : life'[k] = life[k]
    BY <1>2, <1>3 DEF FullInv, Typed
  <1>11. Typed'
    <2>1. \A u \in alive' : ts'[u].exc_info # "null"
      BY <1>2, <1>6, <1>8 DEF FullInv, BaseInv, Fields, Typed
    <2> QED
      BY <1>2, <1>8, <1>9, <1>10, <2>1 DEF FullInv, Typed
  <1>12. \A k \in Greenlets : IsCurrent(k)' <=> IsCurrent(k)
    BY <1>2 DEF IsCurrent
  <1>13. IsCurrent(h)
    BY <1>1, <1>2 DEF IsCurrent, FullInv, BaseInv, Fields
  <1>14. StateInv'
    <2>1. ASSUME NEW u \in Threads
          PROVE  /\ home'[current'[u]] = u /\ life'[current'[u]] \in {"active", "dead"}
                 /\ top'[current'[u]] = Null
                 /\ ts'[u].frame = Len(frames'[current'[u]])
                 /\ u \notin alive' => ts'[u] = Blank
      <3>1. CASE u = t
        BY <3>1, <1>1, <1>2, <1>3, <1>6, <1>8, <1>10
      <3>2. CASE u # t
        <4>1. PICK v : v = current[u]
          OBVIOUS
        <4>2. v \in Greenlets \ {h} /\ current'[u] = v
          BY <3>2, <4>1, <1>2, <1>3 DEF FullInv, BaseInv, AtHome
        <4>3. life'[v] = life[v] /\ ts'[u] = ts[u]
          BY <3>2, <4>2, <1>8, <1>10
        <4> QED
          BY <1>2, <4>1, <4>2, <4>3 DEF FullInv, StateInv
      <3> QED
        BY <3>1, <3>2
    <2>2. ASSUME NEW k \in Greenlets
          PROVE  /\ stale'[k] <= Len(frames'[k])
                 /\ life'[k] = "new" => /\ top'[k] = Null
                                        /\ stale'[k] = Len(frames'[k]) /\ saved'[k].frame = stale'[k]
                 /\ life'[k] = "gone" => saved'[k] = Blank /\ frames'[k] = <<>>
                 /\ life'[k] = "active" /\ ~IsCurrent(k)' =>
                       top'[k] = Len(frames'[k]) /\ saved'[k].frame = Len(frames'[k])
      <3>1. CASE k = h
        <4>1. life'[h] = "dead" /\ stale'[h] <= Len(frames'[h])
          BY <1>2, <1>3, <1>10 DEF FullInv, StateInv
        <4> QED
          BY <3>1, <4>1
      <3>2. CASE k # h
        <4>1. life'[k] = life[k] /\ saved'[k] = saved[k] /\ (IsCurrent(k)' <=> IsCurrent(k))
          BY <3>2, <1>9, <1>10, <1>12
        <4> QED
          BY <1>2, <4>1 DEF FullInv, StateInv
      <3> QED
        BY <3>1, <3>2
    <2> QED
      BY <2>1, <2>2 DEF StateInv
  <1>15. StateOf(h)' = s /\ Others(h)
    <2>1. StateOf(h)' = s
      BY <1>2, <1>3, <1>8, <1>12, <1>13 DEF StateOf
    <2>2. ASSUME NEW k \in Greenlets \ {h} PROVE StateOf(k)' = StateOf(k)
      <3>1. CASE IsCurrent(k)
        <4>1. home[k] \in Threads \ {t} /\ home'[k] = home[k]
          BY <3>1, <1>1, <1>2, StateOfIs DEF FullInv
        <4> QED
          BY <3>1, <4>1, <1>8, <1>12 DEF StateOf
      <3>2. CASE ~IsCurrent(k)
        BY <3>2, <1>9, <1>12 DEF StateOf
      <3> QED
        BY <3>1, <3>2
    <2>3. \A k \in Greenlets \ {h} : LostTo(k)' = LostTo(k)
      BY <1>2, <1>10 DEF LostTo
    <2> QED
      BY <1>2, <2>1, <2>2, <2>3 DEF Others
  <1>16. Lists(chunks', SetAt(Heads, h, Null)) /\ OtherLists(h)
    BY <1>2, <1>3, FreesList
  <1>17. /\ FramesOK(frames'[h], stale'[h], top'[h]) /\ InList(frames'[h], LostTo(h)', chunks', s.chunk)
         /\ Len(frames'[h]) <= MaxFrames[h]
         /\ Cardinality(Counted(frames'[h], stale'[h])) <= StateOf(h)'.depth
    <2>1. LostTo(h)' = Len(frames[h])
      BY <1>2, <1>3, <1>10 DEF LostTo
    <2>2. Len(frames[h]) \in Nat
      BY <1>3 DEF FramesOK
    <2>3. InList(frames'[h], LostTo(h)', chunks', s.chunk)
      BY <1>2, <2>1, <2>2 DEF InList
    <2> QED
      BY <1>2, <1>3, <1>6, <1>15, <2>3
  <1>18. FramesAll' /\ Memory'
    BY <1>3, <1>6, <1>15, <1>16, <1>17, OneChanges
  <1> QED
    BY <1>11, <1>14, <1>18 DEF FullInv

LEMMA GrContextSetFullInv ==
  ASSUME FullInv, BaseInv', NEW t \in Threads, NEW g \in Greenlets, NEW c \in Contexts \cup {Empty},
         GrContextSet(t, g, c)
  PROVE  FullInv'
  <1>1. t \in alive /\ life[g] # "gone" /\ UNCHANGED <<life, current, home, alive, top, frames, stale, chunks>>
    BY DEF GrContextSet
  <1>2. CASE IsRunning(g)
    BY <1>1, <1>2, ContextFullInv DEF GrContextSet
  <1>3. CASE ~IsRunning(g)
    <2>1. PICK r : r = WithContext(saved[g], c)
      OBVIOUS
    <2>2. /\ r \in AllStates /\ r.frame = saved[g].frame /\ r.depth = saved[g].depth
          /\ r.chunk = saved[g].chunk /\ r.context = c
      BY <2>1, WithContextTyped DEF FullInv, Typed
    <2>3. UNCHANGED ts /\ saved' = [saved EXCEPT ![g] = r]
      BY <1>3, <2>1 DEF GrContextSet, WithContext
    <2>4. saved' \in [Greenlets -> AllStates] /\ saved'[g] = r
      BY <2>2, <2>3 DEF FullInv, Typed
    <2>5. \A k \in Greenlets \ {g} : saved'[k] = saved[k]
      BY <2>3 DEF FullInv, Typed
    <2>6. Typed'
      BY <1>1, <2>3, <2>4 DEF FullInv, Typed
    <2>7. \A k \in Greenlets : IsCurrent(k)' <=> IsCurrent(k)
      BY <1>1 DEF IsCurrent
    <2>8. StateInv'
      <3>1. ASSUME NEW k \in Greenlets
            PROVE  /\ stale'[k] <= Len(frames'[k])
                   /\ life'[k] = "new" => /\ top'[k] = Null
                                          /\ stale'[k] = Len(frames'[k]) /\ saved'[k].frame = stale'[k]
                   /\ life'[k] = "gone" => saved'[k] = Blank /\ frames'[k] = <<>>
                   /\ life'[k] = "active" /\ ~IsCurrent(k)' =>
                         top'[k] = Len(frames'[k]) /\ saved'[k].frame = Len(frames'[k])
        <4>1. CASE k = g
          BY <4>1, <1>1, <2>2, <2>4, <2>7 DEF FullInv, StateInv
        <4>2. CASE k # g
          <5>1. saved'[k] = saved[k] /\ (IsCurrent(k)' <=> IsCurrent(k))
            BY <4>2, <2>5, <2>7
          <5> QED
            BY <1>1, <5>1 DEF FullInv, StateInv
        <4> QED
          BY <4>1, <4>2
      <3>2. ASSUME NEW u \in Threads
            PROVE  /\ home'[current'[u]] = u /\ life'[current'[u]] \in {"active", "dead"}
                   /\ top'[current'[u]] = Null
                   /\ ts'[u].frame = Len(frames'[current'[u]])
                   /\ u \notin alive' => ts'[u] = Blank
        BY <1>1, <2>3 DEF FullInv, StateInv
      <3> QED
        BY <3>1, <3>2 DEF StateInv
    <2>9. ASSUME NEW k \in Greenlets
          PROVE  /\ StateOf(k)'.chunk = StateOf(k).chunk /\ StateOf(k)'.depth = StateOf(k).depth
                 /\ LostTo(k)' = LostTo(k)
      <3>0. LostTo(k)' = LostTo(k)
        BY <1>1 DEF LostTo
      <3>1. CASE IsCurrent(k)
        BY <3>0, <3>1, <1>1, <2>3, <2>7 DEF StateOf
      <3>2. CASE ~IsCurrent(k)
        <4>1. StateOf(k) = saved[k] /\ StateOf(k)' = saved'[k]
          BY <3>2, <2>7 DEF StateOf
        <4>2. saved'[k].chunk = saved[k].chunk /\ saved'[k].depth = saved[k].depth
          BY <2>2, <2>4, <2>5
        <4> QED
          BY <3>0, <4>1, <4>2
      <3> QED
        BY <3>1, <3>2
    <2>10. FramesAll'
      BY <1>1, <2>9 DEF FullInv, FramesAll
    <2>11. Memory'
      <3>1. \A k \in Greenlets : Relinks(frames[k], frames'[k])
        BY <1>1 DEF Relinks
      <3> QED
        BY <1>1, <2>9, <3>1, ListsStay
    <2> QED
      BY <2>6, <2>8, <2>10, <2>11 DEF FullInv
  <1> QED
    BY <1>2, <1>3

LEMMA NextFullInv == FullInv /\ [Next]_vars => FullInv'
  <1> SUFFICES ASSUME FullInv, [Next]_vars PROVE FullInv'
    OBVIOUS
  <1>0. BaseInv'
    BY NextBaseInv DEF FullInv
  <1>1. ASSUME NEW t \in Threads, NEW entry \in BOOLEAN, NEW c \in 1..NChunks, Call(t, entry, c)
        PROVE  FullInv'
    BY <1>0, <1>1, CallFullInv
  <1>2. ASSUME NEW t \in Threads, Return(t) PROVE FullInv'
    BY <1>0, <1>2, ReturnFullInv
  <1>3. ASSUME NEW t \in Threads, Handle(t) PROVE FullInv'
    BY <1>0, <1>3, HandleFullInv
  <1>4. ASSUME NEW t \in Threads, NEW c \in Contexts \cup {Empty}, ContextRun(t, c) PROVE FullInv'
    BY <1>0, <1>4, ContextFullInv DEF ContextRun
  <1>5. ASSUME NEW t \in Threads, NEW g \in Greenlets, SwitchTo(t, g) PROVE FullInv'
    BY <1>0, <1>5, SwitchToFullInv
  <1>6. ASSUME NEW t \in Threads, NEW g \in Greenlets, Start(t, g) PROVE FullInv'
    BY <1>0, <1>6, StartFullInv
  <1>7. ASSUME NEW t \in Threads, Die(t) PROVE FullInv'
    BY <1>0, <1>7, DieFullInv
  <1>8. ASSUME NEW t \in Threads, NEW g \in Greenlets, NEW c \in Contexts \cup {Empty},
               GrContextSet(t, g, c)
        PROVE  FullInv'
    BY <1>0, <1>8, GrContextSetFullInv
  <1>9. ASSUME NEW t \in Threads, Exit(t) PROVE FullInv'
    BY <1>0, <1>9, ExitFullInv
  <1>10. ASSUME NEW g \in Greenlets, Murder(g) PROVE FullInv'
    BY <1>0, <1>10, MurderFullInv
  <1>11. ASSUME NEW g \in Greenlets, Destroy(g) PROVE FullInv'
    BY <1>0, <1>11, DestroyFullInv
  <1>12. CASE UNCHANGED vars
    <2>1. UNCHANGED <<life, current, home, alive, ts, saved, top, frames, stale, chunks>>
      BY <1>12 DEF vars
    <2>2. /\ \A k \in Greenlets : StateOf(k)' = StateOf(k)
          /\ \A k \in Greenlets : IsCurrent(k)' <=> IsCurrent(k)
          /\ \A k \in Greenlets : LostTo(k)' = LostTo(k)
      BY <2>1 DEF StateOf, IsCurrent, LostTo
    <2>3. Typed' /\ StateInv' /\ FramesAll'
      BY <2>1, <2>2 DEF FullInv, Typed, StateInv, FramesAll
    <2>4. Memory'
      BY <2>1, <2>2 DEF FullInv, Memory, Heads
    <2> QED
      BY <1>0, <2>3, <2>4 DEF FullInv
  <1> QED
    BY <1>1, <1>2, <1>3, <1>4, <1>5, <1>6, <1>7, <1>8, <1>9, <1>10, <1>11, <1>12 DEF Next

LEMMA InitFullInv == Init => FullInv
  <1> SUFFICES ASSUME Init PROVE FullInv
    OBVIOUS
  <1>1. BaseInv
    BY InitBaseInv
  <1>2. [Blank EXCEPT !.exc_info = "base"] \in AllStates
    BY BlankTyped DEF AllStates, State
  <1>3. Typed
    <2>1. \A t \in Threads : ts[t].exc_info = "base"
      BY DEF Init, Blank
    <2> QED
      BY <1>2, <2>1, BlankTyped DEF Init, Typed, Null
  <1>4. \A g \in Greenlets : /\ StateOf(g) \in AllStates
                             /\ StateOf(g).chunk = Null /\ StateOf(g).frame = Null
    <2>1. [Blank EXCEPT !.exc_info = "base"].chunk = Null /\ [Blank EXCEPT !.exc_info = "base"].frame = Null
      BY DEF Blank
    <2>2. \A g \in Greenlets : IsCurrent(g) => home[g] \in Threads
      BY <1>1, StateOfIs
    <2> QED
      BY <1>2, <2>1, <2>2, BlankTyped DEF Init, StateOf
  <1>5. StateInv
    <2>1. ASSUME NEW t \in Threads
          PROVE  /\ home[current[t]] = t /\ life[current[t]] \in {"active", "dead"}
                 /\ top[current[t]] = Null
                 /\ ts[t].frame = Len(frames[current[t]])
                 /\ t \in alive
      BY HomeAssumption DEF Init, Mains, Blank, Null
    <2>2. ASSUME NEW g \in Greenlets
          PROVE  /\ life[g] # "gone" /\ top[g] = Null
                 /\ stale[g] = Len(frames[g]) /\ saved[g].frame = stale[g]
                 /\ top[g] = Len(frames[g]) /\ saved[g].frame = Len(frames[g])
      BY DEF Init, Blank, Null
    <2> QED
      BY <2>1, <2>2 DEF StateInv
  <1>6. FramesAll
    <2> SUFFICES ASSUME NEW g \in Greenlets
                 PROVE  /\ FramesOK(frames[g], stale[g], top[g])
                        /\ Len(frames[g]) <= MaxFrames[g]
                        /\ Cardinality(Counted(frames[g], stale[g])) <= StateOf(g).depth
      BY DEF FramesAll
    <2>1. frames[g] \in Seq(Frame) /\ Len(frames[g]) = 0 /\ top[g] = Null /\ stale[g] = 0
      BY DEF Init
    <2>2. FramesOK(frames[g], 0, Null) /\ Cardinality(Counted(frames[g], 0)) = 0
      BY <2>1, NoFrames
    <2>3. StateOf(g).depth \in Nat /\ MaxFrames[g] \in Nat
      BY <1>4, BoundsAssumption DEF AllStates, State
    <2> QED
      BY <2>1, <2>2, <2>3
  <1>7. Memory
    <2>1. \A c \in 1..NChunks : chunks[c] = Free
      BY DEF Init
    <2>2. Free \notin 1..NChunks /\ Null \notin 1..NChunks /\ Free \in Free..NChunks /\ Null \in 0..NChunks
      BY BoundsAssumption DEF Free, Null
    <2>3. chunks \in LinksType
      BY <2>2 DEF Init, LinksType
    <2>4. Heads \in [Greenlets -> 0..NChunks] /\ \A g \in Greenlets : Heads[g] = Null
      BY <1>4, <2>2 DEF Heads
    <2>5. Ends(chunks)
      BY <2>1, <2>2, LinkedNone DEF Ends
    <2>6. \A g \in Greenlets : Linked(chunks, Heads[g]) = {}
      BY <2>2, <2>4, LinkedNone
    <2>7. Owned(chunks, Heads)
      BY <2>1, <2>6 DEF Owned
    <2>8. ASSUME NEW g \in Greenlets PROVE InList(frames[g], LostTo(g), chunks, StateOf(g).chunk)
      BY DEF Init, InList
    <2> QED
      BY <2>3, <2>4, <2>5, <2>7, <2>8 DEF Memory, Lists
  <1> QED
    BY <1>1, <1>3, <1>5, <1>6, <1>7 DEF FullInv

-----------------------------------------------------------------------------
(* What it implies *)

LEMMA ChunksIs ==
  ASSUME FullInv, NEW g \in Greenlets
  PROVE  Chunks(g) = Linked(chunks, StateOf(g).chunk)
  <1>1. CASE life[g] = "gone"
    <2>1. ~IsCurrent(g) /\ StateOf(g) = Blank
      BY <1>1, StateOfIs DEF FullInv, StateInv
    <2>2. Linked(chunks, Blank.chunk) = {}
      BY BlankTyped, LinkedNone DEF Null
    <2> QED
      BY <1>1, <2>1, <2>2 DEF Chunks
  <1>2. CASE life[g] # "gone"
    BY <1>2 DEF Chunks, ChunksFrom, StateOf
  <1> QED
    BY <1>1, <1>2

LEMMA FullInvTypeOK == FullInv => TypeOK
  <1> SUFFICES ASSUME FullInv PROVE TypeOK
    OBVIOUS
  <1>1. ASSUME NEW t \in alive PROVE ts[t] \in State({"base", "generator"})
    <2>1. ts[t] \in AllStates /\ ts[t].exc_info # "null"
      BY DEF FullInv, Typed, BaseInv, Fields
    <2> QED
      BY <2>1 DEF AllStates, State
  <1>2. ASSUME NEW g \in Greenlets, NEW k \in DOMAIN frames[g]
        PROVE  frames[g][k] \in [complete : BOOLEAN, chunk : 0..NChunks, previous : 0..k, stash : 0..k]
    <2>1. PICK fs \in Seq(Frame) : fs = frames[g]
      BY DEF FullInv, Typed
    <2>2. k \in 1..Len(fs) /\ k \in Nat
      BY <2>1
    <2>3. fs[k] \in Frame
      BY <2>1, <2>2
    <2>4. FramesOK(fs, stale[g], top[g])
      BY <2>1 DEF FullInv, FramesAll
    <2>5. fs[k].stash \in 0..k
      BY <2>2, <2>4 DEF FramesOK, FrameOK
    <2>6. fs[k].previous \in 0..k
      <3>1. fs[k].previous \in 0..(k - 1)
        BY <2>2, <2>4, LinksOf DEF Down
      <3> QED
        BY <2>2, <3>1
    <2> QED
      BY <2>1, <2>3, <2>5, <2>6 DEF Frame
  <1>3. \A g \in Greenlets : Len(frames[g]) <= MaxFrames[g]
    BY DEF FullInv, FramesAll
  <1>4. chunks \in [1..NChunks -> Free..NChunks]
    BY DEF FullInv, Memory, Lists, LinksType
  <1>5. /\ life \in [Greenlets -> {"new", "active", "dead", "gone"}]
        /\ current \in [Threads -> Greenlets] /\ alive \in SUBSET Threads /\ DOMAIN ts = Threads
        /\ top \in [Greenlets -> Nat] /\ DOMAIN frames = Greenlets
        /\ home \in [Greenlets -> Threads \cup {NoThread}] /\ stale \in [Greenlets -> Nat]
    BY DEF FullInv, BaseInv, Fields, AtHome, Typed
  <1>6. saved \in [Greenlets -> State({"null", "base", "generator"})]
    BY DEF FullInv, Typed, AllStates
  <1> QED
    BY <1>1, <1>2, <1>3, <1>4, <1>5, <1>6 DEF TypeOK

LEMMA FullInvChunksOwned == FullInv => ChunksOwned
  <1> SUFFICES ASSUME FullInv, NEW c \in 1..NChunks
               PROVE  IF chunks[c] = Free THEN \A g \in Greenlets : c \notin Chunks(g)
                      ELSE \E g \in Greenlets : \A h \in Greenlets : c \in Chunks(h) <=> h = g
    BY DEF ChunksOwned
  <1>1. \A g \in Greenlets : Chunks(g) = Linked(chunks, Heads[g])
    BY ChunksIs, StateOfTyped
  <1>2. Owned(chunks, Heads)
    BY DEF FullInv, Memory, Lists
  <1>3. CASE chunks[c] = Free
    BY <1>1, <1>2, <1>3 DEF Owned
  <1>4. CASE chunks[c] # Free
    <2>1. PICK g \in Greenlets : c \in Linked(chunks, Heads[g])
      BY <1>2, <1>4 DEF Owned
    <2>2. \A h \in Greenlets : h # g => c \notin Linked(chunks, Heads[h])
      BY <1>2, <2>1 DEF Owned
    <2>3. \A h \in Greenlets : c \in Chunks(h) <=> h = g
      BY <1>1, <2>1, <2>2
    <2> QED
      BY <1>4, <2>3
  <1> QED
    BY <1>3, <1>4

LEMMA FullInvFramesInChunks == FullInv => FramesInChunks
  <1> SUFFICES ASSUME FullInv, NEW g \in Greenlets, NEW k \in DOMAIN frames[g] \ Freed(g), frames[g][k].complete
               PROVE  frames[g][k].chunk \in Chunks(g) /\ chunks[frames[g][k].chunk] # Free
    BY DEF FramesInChunks
  <1>1. k \in 1..Len(frames[g]) /\ k > LostTo(g)
    <2>1. k \in 1..Len(frames[g]) /\ stale[g] \in Nat
      BY DEF FullInv, Typed
    <2> QED
      BY <2>1 DEF Freed, LostTo
  <1>2. frames[g][k].chunk \in Linked(chunks, Heads[g]) /\ Chunks(g) = Linked(chunks, Heads[g])
    BY <1>1, ChunksIs, StateOfTyped DEF FullInv, Memory, InList
  <1> QED
    BY <1>2 DEF FullInv, Memory, Lists, Owned

LEMMA FullInvExposed == FullInv => ExposedAreComplete
  <1> SUFFICES ASSUME FullInv, NEW g \in Greenlets
               PROVE  Walk(frames[g], top[g]) =
                         IF top[g] = Null THEN {}
                         ELSE {k \in DOMAIN frames[g] : frames[g][k].complete}
    BY DEF ExposedAreComplete
  <1>1. PICK fs \in Seq(Frame) : fs = frames[g]
    BY DEF FullInv, Typed
  <1>2. FramesOK(fs, stale[g], top[g]) /\ top[g] \in {Null, Len(fs)} /\ DOMAIN fs = 1..Len(fs)
    BY <1>1 DEF FullInv, FramesAll, FramesOK
  <1>3. CASE top[g] = Null
    <2>1. Walk(fs, 0) = {}
      BY <1>2, LinksOf, WalkStep
    <2> QED
      BY <1>1, <1>3, <2>1 DEF Null
  <1>4. CASE top[g] # Null
    <2>1. top[g] = Len(fs) /\ FramesOK(fs, stale[g], Len(fs))
      BY <1>2, <1>4
    <2> QED
      BY <1>1, <1>2, <1>4, <2>1, SuspendedWalk
  <1> QED
    BY <1>3, <1>4

LEMMA FullInvInterpreterInv == FullInv => InterpreterInv
  <1> SUFFICES ASSUME FullInv PROVE InterpreterInv
    OBVIOUS
  <1>1. FramesInv
    <2> SUFFICES ASSUME NEW g \in Greenlets, NEW k \in DOMAIN frames[g]
                 PROVE  LET fs == frames[g]
                        IN  /\ fs[k].complete <=> fs[k].chunk # Null
                            /\ ~fs[k].complete => k # stale[g] /\ k < Len(fs) /\ fs[k + 1].complete
                            /\ IF top[g] # Null /\ fs[k].complete
                               THEN /\ fs[k].stash = CalledFrom(fs, stale[g], k)
                                    /\ fs[k].previous = NextComplete(fs, k)
                               ELSE fs[k].previous = CalledFrom(fs, stale[g], k)
      BY DEF FramesInv, FullInv, FramesAll, FramesOK
    <2>1. PICK fs \in Seq(Frame) : fs = frames[g]
      BY DEF FullInv, Typed
    <2>2. k \in 1..Len(fs) /\ FramesOK(fs, stale[g], top[g])
      BY <2>1 DEF FullInv, FramesAll
    <2>3. FrameOK(fs, stale[g], k) /\ LinkOK(fs, stale[g], top[g], k)
      BY <2>2 DEF FramesOK
    <2>4. CompleteBelow(fs, k) = {j \in CompleteOf(fs) : j < k}
      BY <2>1 DEF CompleteBelow, CompleteOf
    <2>5. NextComplete(fs, k) = Highest(CompleteBelow(fs, k))
      BY <2>4 DEF NextComplete
    <2>6. CalledFrom(fs, stale[g], k) = From(fs, stale[g], k)
      BY <2>5 DEF CalledFrom, From
    <2> QED
      BY <2>1, <2>3, <2>5, <2>6 DEF FrameOK, LinkOK
  <1>2. DepthInv
    BY DEF FullInv, FramesAll, DepthInv, Counted
  <1>3. ChunksEnd
    BY DEF FullInv, Memory, Lists, Ends, ChunksEnd, ChunksFrom
  <1> QED
    BY <1>1, <1>2, <1>3, FullInvChunksOwned, FullInvFramesInChunks DEF InterpreterInv, FullInv

LEMMA FullInvAlways == Spec => []FullInv
  BY InitFullInv, NextFullInv, PTL DEF Spec

\* CPython never meets a null exc_info, a frame number or a chunk out of range, or a
\* recursion depth outside of its bounds, through any sequence of switches.
THEOREM TypeOKHolds == Spec => []TypeOK
  BY FullInvAlways, FullInvTypeOK, PTL

\* Memory of the data stacks is neither leaked, nor shared by two greenlets, nor
\* freed while it is in use: what the comments of did_finish() argue for.
THEOREM ChunksOwnedHolds == Spec => []ChunksOwned
  BY FullInvAlways, FullInvChunksOwned, PTL

\* The frames that a greenlet can still run are in memory of its own data stack.
THEOREM FramesInChunksHolds == Spec => []FramesInChunks
  BY FullInvAlways, FullInvFramesInChunks, PTL

\* expose_frames() leaves a list with all the complete frames of a suspended greenlet
\* and none that is on its C stack.
THEOREM ExposedAreCompleteHolds == Spec => []ExposedAreComplete
  BY FullInvAlways, FullInvExposed, PTL

\* The whole invariant: how the frames are linked while a greenlet runs and while it
\* is suspended, how deep its recursion is, which chunks are whose.
THEOREM InterpreterInvHolds == Spec => []InterpreterInv
  BY FullInvAlways, FullInvInterpreterInv, PTL

=============================================================================
