---------------------------- MODULE SplitPlanProofs ----------------------------
(***************************************************************************)
(* What the split planner does with every text, target and set of options: *)
(* its parts hold the characters of the text (PlannerKeepsText), and the   *)
(* plan built from them speaks it in the target duration (SplitPlansFill). *)
(*                                                                         *)
(* The planner is made of folds and of functions defined by recursion.     *)
(* What they compute is shown by induction in the form of a least          *)
(* counterexample (LeastNumber), and that they are defined at all by       *)
(* building their tables one value at a time (FoldExists, FlatExists,      *)
(* ChunksExist, RoundsExist).  The first sections hold the facts on sums   *)
(* and folds that the proofs about the token budgets use too.              *)
(***************************************************************************)
EXTENDS SplitPlan, SequenceTheorems, WellFoundedInduction, TLAPS

(***************************************************************************)
(* Induction over numbers and sequences                                    *)
(***************************************************************************)

(* A set of numbers that is not empty has a least element.                 *)
LEMMA LeastNumber ==
  ASSUME NEW T, T \subseteq Nat, T # {}
  PROVE  \E n \in T : \A m \in T : n <= m
<1> DEFINE R == {ss \in Nat \X Nat : ss[1] < ss[2]}
<1>1. IsWellFoundedOn(R, Nat)
  BY NatLessThanWellFounded, Zenon DEF OpToRel
<1> HIDE DEF R
<1>2. PICK n \in T : \A m \in T : ~(<<m, n>> \in R)
  BY <1>1, WFMin
<1>3. ASSUME NEW m \in T PROVE n <= m
  <2>1. m \in Nat /\ n \in Nat OBVIOUS
  <2>2. ~(<<m, n>> \in R) BY <1>2
  <2> QED BY <2>1, <2>2 DEF R
<1> QED BY <1>3

(* Counting up to a bound, stated with a set: what holds of 0 and passes   *)
(* from n to n + 1 holds of every number up to the bound.                  *)
LEMMA InductionUpTo ==
  ASSUME NEW N \in Nat, NEW T, 0 \in T, \A n \in 1..N : n - 1 \in T => n \in T
  PROVE  0..N \subseteq T
<1> SUFFICES ASSUME ~(0..N \subseteq T) PROVE FALSE OBVIOUS
<1> DEFINE U == (0..N) \ T
<1>1. U # {} /\ U \subseteq Nat OBVIOUS
<1>2. PICK n \in U : \A m \in U : n <= m BY <1>1, LeastNumber
<1>3. n \in 1..N /\ n - 1 \in 0..N /\ n - 1 \notin U BY <1>2
<1> QED BY <1>3

(* A set of sequences that holds the empty one and is closed under Append  *)
(* holds them all.                                                         *)
LEMMA SequenceInduction ==
  ASSUME NEW D, NEW T, <<>> \in T,
         \A s \in Seq(D) : s \in T => \A x \in D : Append(s, x) \in T
  PROVE  Seq(D) \subseteq T
<1> SUFFICES ASSUME NEW t \in Seq(D) PROVE t \in T OBVIOUS
<1> DEFINE Start(n) == SubSeq(t, 1, n)
           U == {n \in 0..Len(t) : Start(n) \in T}
<1>0. Len(t) \in Nat BY LenProperties
<1>1. Start(0) = <<>> BY SubSeqEmpty, 0 \in Int, 1 \in Int, 0 < 1, Zenon
<1>2. ASSUME NEW n \in 1..Len(t)
      PROVE  Start(n - 1) \in Seq(D) /\ t[n] \in D /\ Start(n) = Append(Start(n - 1), t[n])
  BY <1>0
<1>3. Start(Len(t)) = t BY SubSeqFull, Zenon
<1> HIDE DEF Start
<1>4. 0 \in U BY <1>0, <1>1
<1>5. ASSUME NEW n \in 1..Len(t), n - 1 \in U PROVE n \in U
  <2>1. Start(n) \in T BY <1>2, <1>5
  <2> QED BY <2>1, <1>0
<1>6. 0..Len(t) \subseteq U
  <2> HIDE DEF U
  <2> QED BY <1>0, <1>4, <1>5, InductionUpTo, Zenon
<1>7. Len(t) \in U BY <1>0, <1>6
<1> QED BY <1>3, <1>7

(***************************************************************************)
(* Folds                                                                   *)
(***************************************************************************)

(* A set of numbers with an upper bound has a maximum.                     *)
LEMMA MaxOfBounded ==
  ASSUME NEW N \in Nat, NEW S, S \subseteq 1..N, S # {}
  PROVE  /\ Max(S) \in S
         /\ \A y \in S : Max(S) >= y
<1> DEFINE T == {n \in Nat : N - n \in S}
<1>0. \A x \in S : x \in Nat /\ x <= N OBVIOUS
<1>1. T # {} /\ T \subseteq Nat
  <2>1. PICK x \in S : TRUE OBVIOUS
  <2>2. N - x \in Nat /\ N - (N - x) = x BY <2>1, <1>0
  <2> QED BY <2>1, <2>2
<1>2. PICK m \in T : \A k \in T : m <= k BY <1>1, LeastNumber
<1>3. m \in Nat /\ N - m \in S OBVIOUS
<1>4. ASSUME NEW y \in S PROVE N - m >= y
  <2>1. y \in Nat /\ N - y \in Nat /\ N - (N - y) = y BY <1>0
  <2>2. N - y \in T BY <2>1
  <2>3. m <= N - y BY <2>2, <1>2
  <2> QED BY <2>1, <2>3, <1>3
<1> QED BY <1>3, <1>4 DEF Max

LEMMA MaxOfInterval ==
  ASSUME NEW n \in Nat, n > 0
  PROVE  Max(1..n) = n /\ (1..n) \ {n} = 1..(n - 1)
<1>1. n \in 1..n /\ 1..n # {} OBVIOUS
<1>2. Max(1..n) \in 1..n /\ Max(1..n) >= n BY <1>1, MaxOfBounded
<1> QED BY <1>2

(* f is the table FoldLeft fills in, for the fold of F over s from A.      *)
FoldTable(f, s, A, F) ==
    f = [S \in SUBSET (1..Len(s)) |->
            IF S = {} THEN A ELSE F[<<f[S \ {Max(S)}], s[Max(S)]>>]]

(* The same for tables of which less is known.                             *)
FoldsLike(h, s, A, F, X) ==
    /\ h[{}] = A
    /\ \A S \in SUBSET (1..Len(s)) : S # {} /\ h[S \ {Max(S)}] \in X
           => h[S] = F[<<h[S \ {Max(S)}], s[Max(S)]>>]

(* g holds the intermediate results.                                       *)
Trajectory(g, s, A, F) ==
    /\ g[0] = A
    /\ \A n \in 1..Len(s) : g[n] = F[<<g[n - 1], s[n]>>]

(* A fold that goes through values of X ends in r.                         *)
EndsIn(r, s, A, F, X) ==
    \E g \in [0..Len(s) -> X] : Trajectory(g, s, A, F) /\ r = g[Len(s)]

(* The recursive function by which FoldLeft is defined has a value at      *)
(* every length.                                                           *)
LEMMA FoldExists ==
  ASSUME NEW X, NEW D, NEW A \in X, NEW s \in Seq(D), NEW F \in [X \X D -> X]
  PROVE  \E f \in [SUBSET (1..Len(s)) -> X] : FoldTable(f, s, A, F)
<1> DEFINE Body(f, S) == IF S = {} THEN A ELSE F[<<f[S \ {Max(S)}], s[Max(S)]>>]
           Good(n, f) == \A S \in SUBSET (1..n) : f[S] = Body(f, S)
           T == {n \in 0..Len(s) : \E f \in [SUBSET (1..n) -> X] : Good(n, f)}
<1>0. Len(s) \in Nat /\ \A i \in 1..Len(s) : s[i] \in D BY LenProperties
<1>1. 0 \in T
  <2> DEFINE f == [S \in SUBSET (1..0) |-> A]
  <2>1. f \in [SUBSET (1..0) -> X] OBVIOUS
  <2>2. Good(0, f) OBVIOUS
  <2>3. 0 \in 0..Len(s) BY <1>0
  <2> QED BY <2>1, <2>2, <2>3
<1>2. ASSUME NEW n \in 1..Len(s), n - 1 \in T PROVE n \in T
  <2>1. PICK f \in [SUBSET (1..(n - 1)) -> X] : Good(n - 1, f) BY <1>2
  <2> DEFINE g == [S \in SUBSET (1..n) |->
                     IF n \in S THEN F[<<f[S \ {n}], s[n]>>] ELSE f[S]]
  <2>2. ASSUME NEW S \in SUBSET (1..n), n \in S
        PROVE  Max(S) = n /\ S \ {n} \in SUBSET (1..(n - 1))
    <3>1. n \in Nat /\ S # {} BY <1>0, <2>2
    <3>2. Max(S) \in S /\ \A y \in S : Max(S) >= y BY <3>1, MaxOfBounded
    <3>3. \A y \in S : y \in Nat /\ y <= n BY <3>1
    <3>4. Max(S) \in Nat /\ Max(S) <= n /\ Max(S) >= n BY <3>2, <3>3, <2>2
    <3>5. Max(S) = n BY <3>1, <3>4
    <3> QED BY <3>3, <3>5, <3>1
  <2>3. ASSUME NEW S \in SUBSET (1..n), n \notin S
        PROVE  S \in SUBSET (1..(n - 1))
    BY <2>3, <1>0
  <2>4. \A S \in SUBSET (1..(n - 1)) : S \in SUBSET (1..n) /\ n \notin S
    BY <1>0
  <2>5. g \in [SUBSET (1..n) -> X]
    <3> SUFFICES ASSUME NEW S \in SUBSET (1..n)
                 PROVE (IF n \in S THEN F[<<f[S \ {n}], s[n]>>] ELSE f[S]) \in X
      OBVIOUS
    <3>1. CASE n \in S BY <3>1, <2>2, <1>0
    <3>2. CASE n \notin S BY <3>2, <2>3
    <3> QED BY <3>1, <3>2
  <2>6. ASSUME NEW S \in SUBSET (1..n) PROVE g[S] = Body(g, S)
    <3>1. CASE n \in S
      <4>1. S # {} /\ Max(S) = n /\ S \ {n} \in SUBSET (1..(n - 1)) BY <3>1, <2>2
      <4>2. g[S \ {n}] = f[S \ {n}] BY <4>1, <2>4
      <4>3. g[S] = F[<<f[S \ {n}], s[n]>>] BY <3>1
      <4> QED BY <4>1, <4>2, <4>3
    <3>2. CASE n \notin S
      <4>1. S \in SUBSET (1..(n - 1)) BY <3>2, <2>3
      <4>2. g[S] = f[S] BY <3>2
      <4>3. f[S] = Body(f, S) BY <4>1, <2>1
      <4>4. CASE S = {} BY <4>2, <4>3, <4>4
      <4>5. CASE S # {}
        <5>1. S \ {Max(S)} \in SUBSET (1..(n - 1)) BY <4>1
        <5>2. g[S \ {Max(S)}] = f[S \ {Max(S)}] BY <5>1, <2>4
        <5> QED BY <5>2, <4>2, <4>3, <4>5
      <4> QED BY <4>4, <4>5
    <3> QED BY <3>1, <3>2
  <2>7. Good(n, g) BY <2>6
  <2>8. n \in 0..Len(s) BY <1>0
  <2> QED BY <2>5, <2>7, <2>8
<1>3. Len(s) \in T
  <2> HIDE DEF T
  <2>1. 0..Len(s) \subseteq T BY <1>0, <1>1, <1>2, InductionUpTo, Zenon
  <2> QED BY <2>1, <1>0
<1>4. PICK f \in [SUBSET (1..Len(s)) -> X] : Good(Len(s), f) BY <1>3
<1>5. f = [S \in SUBSET (1..Len(s)) |-> f[S]] OBVIOUS
<1>6. f = [S \in SUBSET (1..Len(s)) |-> Body(f, S)]
  <2> HIDE DEF Body
  <2> QED BY <1>4, <1>5
<1> QED BY <1>6 DEF FoldTable

(* FoldLeft is the last of the states the loop goes through.               *)
LEMMA FoldTrajectory ==
  ASSUME NEW X, NEW D, NEW A \in X, NEW s \in Seq(D), NEW F \in [X \X D -> X], NEW h, FoldsLike(h, s, A, F, X)
  PROVE  EndsIn(h[1..Len(s)], s, A, F, X)
<1> DEFINE g == [n \in 0..Len(s) |-> h[1..n]]
<1>0. Len(s) \in Nat /\ \A i \in 1..Len(s) : s[i] \in D BY LenProperties
<1>1. g[0] = A
  <2>1. 0 \in 0..Len(s) /\ 1..0 = {} BY <1>0
  <2> QED BY <2>1 DEF FoldsLike
<1>2. ASSUME NEW n \in 1..Len(s), g[n - 1] \in X
      PROVE  g[n] = F[<<g[n - 1], s[n]>>] /\ g[n] \in X
  <2>1. n \in Nat /\ n > 0 /\ n \in 0..Len(s) /\ n - 1 \in 0..Len(s) BY <1>0
  <2>2. 1..n \in SUBSET (1..Len(s)) /\ 1..n # {}
    <3>1. n \in 1..n BY <2>1
    <3>2. \A i \in 1..n : i \in 1..Len(s) BY <1>0, <2>1
    <3> QED BY <3>1, <3>2
  <2>3. Max(1..n) = n /\ (1..n) \ {n} = 1..(n - 1) BY <2>1, MaxOfInterval
  <2>4. g[n] = h[1..n] /\ g[n - 1] = h[1..(n - 1)] BY <2>1
  <2>5. h[1..n] = F[<<h[1..(n - 1)], s[n]>>] BY <2>2, <2>3, <2>4, <1>2 DEF FoldsLike
  <2> QED BY <2>4, <2>5, <1>0, <1>2
<1> DEFINE T == {n \in 0..Len(s) : g[n] \in X}
<1>3. 0..Len(s) \subseteq T
  <2>1. 0 \in T BY <1>0, <1>1
  <2>2. ASSUME NEW n \in 1..Len(s), n - 1 \in T PROVE n \in T
    <3>1. g[n - 1] \in X BY <2>2
    <3> HIDE DEF g
    <3>2. g[n] \in X BY <3>1, <1>2
    <3>3. n \in 0..Len(s) BY <1>0
    <3> QED BY <3>2, <3>3
  <2> HIDE DEF T
  <2> QED BY <1>0, <2>1, <2>2, InductionUpTo, Zenon
<1>4. g \in [0..Len(s) -> X] BY <1>3
<1>5. \A n \in 1..Len(s) : g[n] = F[<<g[n - 1], s[n]>>]
  <2> SUFFICES ASSUME NEW n \in 1..Len(s) PROVE g[n] = F[<<g[n - 1], s[n]>>] OBVIOUS
  <2>1. n - 1 \in 0..Len(s) BY <1>0
  <2>2. g[n - 1] \in X BY <2>1, <1>3
  <2> QED BY <2>2, <1>2
<1>6. h[1..Len(s)] = g[Len(s)] BY <1>0
<1>7. Trajectory(g, s, A, F)
  <2> HIDE DEF g
  <2> QED BY <1>1, <1>5 DEF Trajectory
<1> QED BY <1>4, <1>6, <1>7 DEF EndsIn

LEMMA TotalSteps ==
  ASSUME NEW s \in Seq(Int)
  PROVE  \E g \in [0..Len(s) -> Int] :
            /\ g[0] = 0
            /\ \A n \in 1..Len(s) : g[n] = g[n - 1] + s[n]
            /\ Total(s) = g[Len(s)]
<1> DEFINE I == Int
           Z == 0
           F == [p \in I \X I |-> p[1] + p[2]]
<1>0. /\ Len(s) \in Nat /\ DOMAIN s = 1..Len(s)
      /\ Z \in I /\ s \in Seq(I)
      /\ \A n \in 1..Len(s) : n - 1 \in 0..Len(s) /\ s[n] \in I
  BY LenProperties
<1>1. F \in [I \X I -> I] /\ \A a, b \in I : F[<<a, b>>] = a + b OBVIOUS
<1> HIDE DEF F, I, Z
<1>2. PICK f \in [SUBSET (1..Len(s)) -> I] : FoldTable(f, s, Z, F)
  BY <1>0, <1>1, FoldExists
<1>3. ASSUME NEW S \in SUBSET (1..Len(s)), S # {}
      PROVE  Max(S) \in 1..Len(s) /\ S \ {Max(S)} \in SUBSET (1..Len(s))
  BY <1>0, <1>3, MaxOfBounded
<1>4. f = [S \in SUBSET (1..Len(s)) |-> IF S = {} THEN Z ELSE f[S \ {Max(S)}] + s[Max(S)]]
  <2>1. ASSUME NEW S \in SUBSET (1..Len(s)), S # {}
        PROVE  F[<<f[S \ {Max(S)}], s[Max(S)]>>] = f[S \ {Max(S)}] + s[Max(S)]
    BY <1>0, <1>1, <1>3, <2>1
  <2> QED BY <1>2, <2>1 DEF FoldTable
<1>5. PICK h : /\ h = [S \in SUBSET (1..Len(s)) |->
                          IF S = {} THEN Z ELSE h[S \ {Max(S)}] + s[Max(S)]]
               /\ Total(s) = h[1..Len(s)]
  BY <1>0, <1>4, Zenon DEF Total, FoldLeft, MapThenFoldSet, Z
<1>6. h[{}] = Z BY <1>5
<1>7. ASSUME NEW S \in SUBSET (1..Len(s)), S # {}, h[S \ {Max(S)}] \in I
      PROVE  h[S] = F[<<h[S \ {Max(S)}], s[Max(S)]>>]
  <2>1. F[<<h[S \ {Max(S)}], s[Max(S)]>>] = h[S \ {Max(S)}] + s[Max(S)]
    BY <1>0, <1>1, <1>3, <1>7
  <2> QED BY <1>5, <1>7, <2>1
<1>8. EndsIn(h[1..Len(s)], s, Z, F, I)
  <2>1. FoldsLike(h, s, Z, F, I) BY <1>6, <1>7 DEF FoldsLike
  <2> QED BY <1>0, <1>1, <2>1, FoldTrajectory
<1> PICK g \in [0..Len(s) -> I] : Trajectory(g, s, Z, F) /\ h[1..Len(s)] = g[Len(s)]
  BY <1>8 DEF EndsIn
<1>9. ASSUME NEW n \in 1..Len(s) PROVE g[n] = g[n - 1] + s[n]
  <2>1. g[n - 1] \in I /\ s[n] \in I BY <1>0
  <2> QED BY <1>1, <2>1 DEF Trajectory
<1>10. g[0] = Z BY DEF Trajectory
<1> QED BY <1>5, <1>9, <1>10 DEF I, Z

(***************************************************************************)
(* Sums                                                                    *)
(***************************************************************************)

LEMMA SeqElements ==
  ASSUME NEW D, NEW s \in Seq(D)
  PROVE  /\ Len(s) \in Nat /\ DOMAIN s = 1..Len(s)
         /\ \A i \in DOMAIN s : s[i] \in D
OBVIOUS

(* Any function that starts at 0 and adds element by element is the sum.   *)
LEMMA TotalUnique ==
  ASSUME NEW s \in Seq(Int), NEW g, g[0] = 0,
         \A n \in 1..Len(s) : g[n] = g[n - 1] + s[n]
  PROVE  Total(s) = g[Len(s)]
<1>0. Len(s) \in Nat BY LenProperties
<1>1. PICK k \in [0..Len(s) -> Int] :
         /\ k[0] = 0
         /\ \A n \in 1..Len(s) : k[n] = k[n - 1] + s[n]
         /\ Total(s) = k[Len(s)]
  BY TotalSteps
<1> DEFINE T == {n \in 0..Len(s) : k[n] = g[n]}
<1>2. 0 \in T BY <1>0, <1>1
<1>3. ASSUME NEW n \in 1..Len(s), n - 1 \in T PROVE n \in T
  BY <1>0, <1>1, <1>3
<1>4. 0..Len(s) \subseteq T
  <2> HIDE DEF T
  <2> QED BY <1>0, <1>2, <1>3, InductionUpTo, Zenon
<1> QED BY <1>0, <1>1, <1>4

(* What s holds up to n.                                                   *)
UpTo(s, n) == Total(SubSeq(s, 1, n))

LEMMA TotalType ==
  ASSUME NEW s \in Seq(Int)
  PROVE  Total(s) \in Int
<1>0. Len(s) \in Nat BY LenProperties
<1> QED BY <1>0, TotalSteps

LEMMA UpToSteps ==
  ASSUME NEW s \in Seq(Int)
  PROVE  /\ UpTo(s, 0) = 0
         /\ UpTo(s, Len(s)) = Total(s)
         /\ \A n \in 0..Len(s) : UpTo(s, n) \in Int
         /\ \A n \in 1..Len(s) : UpTo(s, n) = UpTo(s, n - 1) + s[n]
<1>0. Len(s) \in Nat BY LenProperties
<1>1. PICK g \in [0..Len(s) -> Int] :
         /\ g[0] = 0
         /\ \A n \in 1..Len(s) : g[n] = g[n - 1] + s[n]
         /\ Total(s) = g[Len(s)]
  BY TotalSteps
<1>2. ASSUME NEW n \in 0..Len(s) PROVE UpTo(s, n) = g[n]
  <2>1. /\ SubSeq(s, 1, n) \in Seq(Int) /\ Len(SubSeq(s, 1, n)) = n
        /\ \A i \in 1..n : SubSeq(s, 1, n)[i] = s[i] /\ i \in 1..Len(s)
    BY <1>0
  <2>2. \A i \in 1..n : g[i] = g[i - 1] + SubSeq(s, 1, n)[i] BY <1>1, <2>1
  <2> QED BY <1>1, <2>1, <2>2, TotalUnique DEF UpTo
<1>3. SubSeq(s, 1, Len(s)) = s BY SubSeqFull, Zenon
<1>4. UpTo(s, Len(s)) = Total(s) BY <1>3 DEF UpTo
<1>5. 0 \in 0..Len(s) BY <1>0
<1>6. \A n \in 1..Len(s) : n \in 0..Len(s) /\ n - 1 \in 0..Len(s) BY <1>0
<1> HIDE DEF UpTo
<1> QED BY <1>1, <1>2, <1>4, <1>5, <1>6

LEMMA TotalEmpty == Total(<<>>) = 0
<1>1. <<>> \in Seq(Int) /\ Len(<<>>) = 0 OBVIOUS
<1> QED BY <1>1, UpToSteps

LEMMA TotalAppend ==
  ASSUME NEW s \in Seq(Int), NEW x \in Int
  PROVE  Total(Append(s, x)) = Total(s) + x
<1>0. Len(s) \in Nat BY LenProperties
<1> DEFINE t == Append(s, x)
<1>1. t \in Seq(Int) /\ Len(t) = Len(s) + 1 /\ t[Len(s) + 1] = x OBVIOUS
<1>2. SubSeq(t, 1, Len(s)) = s BY <1>0
<1>3. Len(t) \in 1..Len(t) /\ Len(t) - 1 = Len(s) BY <1>0, <1>1
<1>4. UpTo(t, Len(s)) = Total(s) BY <1>2 DEF UpTo
<1> HIDE DEF t
<1>5. UpTo(t, Len(t)) = UpTo(t, Len(s)) + x BY <1>1, <1>3, UpToSteps
<1>6. UpTo(t, Len(t)) = Total(t) BY <1>1, UpToSteps
<1> QED BY <1>4, <1>5, <1>6 DEF t

LEMMA ConcatAppend ==
  ASSUME NEW D, NEW s \in Seq(D), NEW t \in Seq(D), NEW x \in D
  PROVE  s \o Append(t, x) = Append(s \o t, x)
OBVIOUS

LEMMA TotalConcat ==
  ASSUME NEW s \in Seq(Int), NEW t \in Seq(Int)
  PROVE  Total(s \o t) = Total(s) + Total(t)
<1> DEFINE T == {u \in Seq(Int) : Total(s \o u) = Total(s) + Total(u)}
<1>1. <<>> \in T
  <2>1. s \o <<>> = s OBVIOUS
  <2>2. Total(s) \in Int BY TotalType
  <2> QED BY <2>1, <2>2, TotalEmpty
<1>2. \A u \in Seq(Int) : u \in T => \A x \in Int : Append(u, x) \in T
  <2> SUFFICES ASSUME NEW u \in Seq(Int), u \in T, NEW x \in Int
               PROVE  Append(u, x) \in T
    OBVIOUS
  <2>1. s \o u \in Seq(Int) /\ Append(u, x) \in Seq(Int) OBVIOUS
  <2>2. s \o Append(u, x) = Append(s \o u, x) BY ConcatAppend
  <2>3. Total(Append(s \o u, x)) = Total(s \o u) + x BY <2>1, TotalAppend
  <2>4. Total(Append(u, x)) = Total(u) + x BY TotalAppend
  <2>5. Total(s) \in Int /\ Total(u) \in Int BY TotalType
  <2>6. Total(s \o u) = Total(s) + Total(u) OBVIOUS
  <2>7. Total(s \o Append(u, x)) = Total(s) + Total(Append(u, x))
    BY <2>2, <2>3, <2>4, <2>5, <2>6
  <2> QED BY <2>1, <2>7
<1>3. Seq(Int) \subseteq T
  <2> DEFINE I == Int
  <2> HIDE DEF T, I
  <2>1. Seq(I) \subseteq T
    <3>1. \A u \in Seq(I) : u \in T => \A x \in I : Append(u, x) \in T BY <1>2 DEF I
    <3> QED BY <1>1, <3>1, SequenceInduction
  <2> QED BY <2>1 DEF I
<1> QED BY <1>3

LEMMA TotalNat ==
  ASSUME NEW s \in Seq(Nat)
  PROVE  /\ Total(s) \in Nat
         /\ \A i \in 1..Len(s) : s[i] <= Total(s)
<1>0. Len(s) \in Nat /\ s \in Seq(Int) /\ \A i \in 1..Len(s) : s[i] \in Nat BY LenProperties
<1>1. /\ UpTo(s, 0) = 0
      /\ UpTo(s, Len(s)) = Total(s)
      /\ \A n \in 1..Len(s) : UpTo(s, n) = UpTo(s, n - 1) + s[n]
  BY <1>0, UpToSteps
<1> DEFINE T == {n \in 0..Len(s) : /\ UpTo(s, n) \in Nat
                                   /\ \A i \in 1..n : s[i] <= UpTo(s, n)}
<1>2. 0 \in T BY <1>0, <1>1
<1>3. ASSUME NEW n \in 1..Len(s), n - 1 \in T PROVE n \in T
  <2>1. UpTo(s, n) = UpTo(s, n - 1) + s[n] /\ s[n] \in Nat BY <1>0, <1>1
  <2>2. UpTo(s, n - 1) \in Nat /\ \A i \in 1..(n - 1) : s[i] <= UpTo(s, n - 1) BY <1>3
  <2>3. ASSUME NEW i \in 1..n PROVE s[i] <= UpTo(s, n)
    <3>1. CASE i = n BY <3>1, <2>1, <2>2
    <3>2. CASE i # n
      <4>1. i \in 1..(n - 1) /\ i \in 1..Len(s) BY <1>0, <3>2
      <4> QED BY <4>1, <1>0, <2>1, <2>2
    <3> QED BY <3>1, <3>2
  <2>4. n \in 0..Len(s) BY <1>0
  <2> QED BY <2>1, <2>2, <2>3, <2>4
<1>4. 0..Len(s) \subseteq T
  <2> HIDE DEF T
  <2> QED BY <1>0, <1>2, <1>3, InductionUpTo, Zenon
<1>5. Len(s) \in T BY <1>0, <1>4
<1> QED BY <1>1, <1>5

LEMMA TotalMonotone ==
  ASSUME NEW s \in Seq(Int), NEW t \in Seq(Int), Len(s) = Len(t),
         \A i \in 1..Len(s) : s[i] <= t[i]
  PROVE  Total(s) <= Total(t)
<1>0. Len(s) \in Nat /\ \A i \in 1..Len(s) : s[i] \in Int /\ t[i] \in Int BY LenProperties
<1>1. /\ UpTo(s, 0) = 0 /\ UpTo(s, Len(s)) = Total(s)
      /\ \A n \in 0..Len(s) : UpTo(s, n) \in Int
      /\ \A n \in 1..Len(s) : UpTo(s, n) = UpTo(s, n - 1) + s[n]
  BY UpToSteps
<1>2. /\ UpTo(t, 0) = 0 /\ UpTo(t, Len(s)) = Total(t)
      /\ \A n \in 0..Len(s) : UpTo(t, n) \in Int
      /\ \A n \in 1..Len(s) : UpTo(t, n) = UpTo(t, n - 1) + t[n]
  BY UpToSteps
<1> DEFINE T == {n \in 0..Len(s) : UpTo(s, n) <= UpTo(t, n)}
<1>3. 0 \in T BY <1>0, <1>1, <1>2
<1>4. ASSUME NEW n \in 1..Len(s), n - 1 \in T PROVE n \in T
  <2>1. n \in 0..Len(s) /\ n - 1 \in 0..Len(s) BY <1>0
  <2>2. UpTo(s, n) = UpTo(s, n - 1) + s[n] /\ UpTo(t, n) = UpTo(t, n - 1) + t[n] BY <1>1, <1>2
  <2>3. s[n] <= t[n] /\ UpTo(s, n - 1) <= UpTo(t, n - 1) BY <1>4
  <2>4. UpTo(s, n - 1) \in Int /\ UpTo(t, n - 1) \in Int /\ s[n] \in Int /\ t[n] \in Int
    BY <2>1, <1>0, <1>1, <1>2
  <2> QED BY <2>1, <2>2, <2>3, <2>4
<1>5. 0..Len(s) \subseteq T
  <2> HIDE DEF T
  <2> QED BY <1>0, <1>3, <1>4, InductionUpTo, Zenon
<1> QED BY <1>0, <1>1, <1>2, <1>5

(***************************************************************************)
(* Sequences with weights                                                  *)
(***************************************************************************)

(* The weight of s when m gives the weight of an element.                  *)
Weigh(m, s) == Total([i \in DOMAIN s |-> m[s[i]]])

LEMMA WeighAppend ==
  ASSUME NEW D, NEW m \in [D -> Int], NEW s \in Seq(D), NEW x \in D
  PROVE  Weigh(m, Append(s, x)) = Weigh(m, s) + m[x]
<1>0. Len(s) \in Nat /\ DOMAIN s = 1..Len(s) /\ \A i \in 1..Len(s) : s[i] \in D BY LenProperties
<1> DEFINE u == [i \in DOMAIN s |-> m[s[i]]]
           v == [i \in DOMAIN Append(s, x) |-> m[Append(s, x)[i]]]
<1>1. u \in Seq(Int) /\ Len(u) = Len(s)
  <2>1. \A i \in 1..Len(s) : m[s[i]] \in Int BY <1>0
  <2> QED BY <1>0, <2>1
<1>2. /\ DOMAIN Append(s, x) = 1..(Len(s) + 1)
      /\ \A i \in 1..Len(s) : Append(s, x)[i] = s[i]
      /\ Append(s, x)[Len(s) + 1] = x
  BY <1>0
<1>3. v = [i \in 1..(Len(s) + 1) |-> IF i = Len(s) + 1 THEN m[x] ELSE m[s[i]]]
  <2>1. ASSUME NEW i \in 1..(Len(s) + 1), i # Len(s) + 1 PROVE i \in 1..Len(s)
    BY <1>0, <2>1
  <2> QED BY <1>2, <2>1
<1>4. Append(u, m[x]) = [i \in 1..(Len(s) + 1) |-> IF i = Len(s) + 1 THEN m[x] ELSE m[s[i]]]
  <2>1. Append(u, m[x]) = [i \in 1..(Len(u) + 1) |-> IF i = Len(u) + 1 THEN m[x] ELSE u[i]]
    BY <1>1
  <2>2. ASSUME NEW i \in 1..(Len(s) + 1), i # Len(s) + 1 PROVE u[i] = m[s[i]]
    BY <1>0, <2>2
  <2> HIDE DEF u
  <2> QED BY <2>1, <2>2, <1>1
<1>5. m[x] \in Int OBVIOUS
<1>6. Total(Append(u, m[x])) = Total(u) + m[x] BY <1>1, <1>5, TotalAppend
<1> QED BY <1>3, <1>4, <1>6 DEF Weigh

LEMMA WeighType ==
  ASSUME NEW D, NEW m \in [D -> Int], NEW s \in Seq(D)
  PROVE  Weigh(m, s) \in Int
<1>0. Len(s) \in Nat /\ DOMAIN s = 1..Len(s) /\ \A i \in 1..Len(s) : s[i] \in D BY LenProperties
<1> DEFINE u == [i \in DOMAIN s |-> m[s[i]]]
<1>1. u \in Seq(Int)
  <2>1. \A i \in 1..Len(s) : m[s[i]] \in Int BY <1>0
  <2> QED BY <1>0, <2>1
<1>2. Total(u) \in Int
  <2> HIDE DEF u
  <2> QED BY <1>1, TotalType
<1> QED BY <1>2 DEF Weigh

LEMMA WeighEmpty ==
  ASSUME NEW m
  PROVE  Weigh(m, <<>>) = 0
<1>1. [i \in DOMAIN <<>> |-> m[<<>>[i]]] = <<>> OBVIOUS
<1> QED BY <1>1, TotalEmpty DEF Weigh

LEMMA WeighConcat ==
  ASSUME NEW D, NEW m \in [D -> Int], NEW s \in Seq(D), NEW t \in Seq(D)
  PROVE  Weigh(m, s \o t) = Weigh(m, s) + Weigh(m, t)
<1> DEFINE T == {u \in Seq(D) : Weigh(m, s \o u) = Weigh(m, s) + Weigh(m, u)}
<1>1. <<>> \in T
  <2>1. s \o <<>> = s OBVIOUS
  <2>2. Weigh(m, s) \in Int BY WeighType
  <2> QED BY <2>1, <2>2, WeighEmpty
<1>2. \A u \in Seq(D) : u \in T => \A x \in D : Append(u, x) \in T
  <2> SUFFICES ASSUME NEW u \in Seq(D), u \in T, NEW x \in D
               PROVE  Append(u, x) \in T
    OBVIOUS
  <2>1. s \o u \in Seq(D) /\ Append(u, x) \in Seq(D) OBVIOUS
  <2>2. s \o Append(u, x) = Append(s \o u, x) BY ConcatAppend
  <2>3. Weigh(m, Append(s \o u, x)) = Weigh(m, s \o u) + m[x] BY <2>1, WeighAppend
  <2>4. Weigh(m, Append(u, x)) = Weigh(m, u) + m[x] BY WeighAppend
  <2>5. Weigh(m, s) \in Int /\ Weigh(m, u) \in Int /\ m[x] \in Int BY WeighType
  <2>6. Weigh(m, s \o u) = Weigh(m, s) + Weigh(m, u) OBVIOUS
  <2>7. Weigh(m, s \o Append(u, x)) = Weigh(m, s) + Weigh(m, Append(u, x))
    BY <2>2, <2>3, <2>4, <2>5, <2>6
  <2> QED BY <2>1, <2>7
<1>3. Seq(D) \subseteq T
  <2> HIDE DEF T
  <2> QED BY <1>1, <1>2, SequenceInduction
<1> QED BY <1>3

(* Flattening                                                              *)
FlatTable(f, ss) ==
    f = [i \in 1..Len(ss) |-> IF i = 1 THEN ss[i] ELSE f[i - 1] \o ss[i]]

(* The recursive function by which FlattenSeq is defined has a value at    *)
(* every length.                                                           *)
LEMMA FlatExists ==
  ASSUME NEW D, NEW ss \in Seq(Seq(D)), ss # <<>>
  PROVE  \E f : FlatTable(f, ss)
<1> DEFINE Body(f, i) == IF i = 1 THEN ss[i] ELSE f[i - 1] \o ss[i]
           T == {n \in 0..Len(ss) : \E f \in [1..n -> Seq(D)] :
                    \A i \in 1..n : f[i] = Body(f, i)}
<1>0. Len(ss) \in Nat /\ \A i \in 1..Len(ss) : ss[i] \in Seq(D) BY LenProperties
<1>1. 0 \in T
  <2> DEFINE z == [i \in 1..0 |-> <<>>]
  <2>1. z \in [1..0 -> Seq(D)] OBVIOUS
  <2>2. \A i \in 1..0 : z[i] = Body(z, i) OBVIOUS
  <2>3. 0 \in 0..Len(ss) BY <1>0
  <2> HIDE DEF z, Body
  <2> QED BY <2>1, <2>2, <2>3
<1>2. ASSUME NEW n \in 1..Len(ss), n - 1 \in T PROVE n \in T
  <2>1. PICK f \in [1..(n - 1) -> Seq(D)] : \A i \in 1..(n - 1) : f[i] = Body(f, i) BY <1>2
  <2> DEFINE g == [i \in 1..n |-> IF i < n THEN f[i] ELSE Body(f, i)]
  <2>2. \A i \in 1..n : i < n => i \in 1..(n - 1) BY <1>0
  <2>3. \A i \in 1..n : i # 1 => i - 1 \in 1..(n - 1) /\ i - 1 < n /\ i - 1 \in 1..n BY <1>0
  <2>4. g \in [1..n -> Seq(D)]
    <3> SUFFICES ASSUME NEW i \in 1..n PROVE (IF i < n THEN f[i] ELSE Body(f, i)) \in Seq(D)
      OBVIOUS
    <3>1. CASE i < n BY <3>1, <2>2
    <3>2. CASE ~(i < n)
      <4>1. i = n /\ ss[i] \in Seq(D) BY <3>2, <1>0
      <4>2. CASE i = 1 BY <4>1, <4>2, <3>2
      <4>3. CASE i # 1
        <5>1. f[i - 1] \in Seq(D) BY <4>3, <2>3
        <5> QED BY <5>1, <4>1, <4>3, <3>2
      <4> QED BY <4>2, <4>3
    <3> QED BY <3>1, <3>2
  <2>5. ASSUME NEW i \in 1..n PROVE g[i] = Body(g, i)
    <3>1. g[i] = Body(f, i)
      <4>1. CASE i < n BY <4>1, <2>1, <2>2
      <4>2. CASE ~(i < n) BY <4>2
      <4> QED BY <4>1, <4>2
    <3>2. Body(f, i) = Body(g, i)
      <4>1. CASE i = 1 BY <4>1
      <4>2. CASE i # 1
        <5>1. g[i - 1] = f[i - 1] BY <4>2, <2>3
        <5> QED BY <5>1, <4>2
      <4> QED BY <4>1, <4>2
    <3> QED BY <3>1, <3>2
  <2>6. n \in 0..Len(ss) BY <1>0
  <2> HIDE DEF g
  <2> QED BY <2>4, <2>5, <2>6
<1>3. Len(ss) \in T
  <2> HIDE DEF T
  <2>1. 0..Len(ss) \subseteq T BY <1>0, <1>1, <1>2, InductionUpTo, Zenon
  <2>2. Len(ss) \in 0..Len(ss) BY <1>0
  <2> QED BY <2>1, <2>2, Zenon
<1>4. PICK f \in [1..Len(ss) -> Seq(D)] : \A i \in 1..Len(ss) : f[i] = Body(f, i) BY <1>3
<1>5. f = [i \in 1..Len(ss) |-> f[i]] OBVIOUS
<1>6. f = [i \in 1..Len(ss) |-> Body(f, i)]
  <2> HIDE DEF Body
  <2> QED BY <1>4, <1>5
<1> QED BY <1>6 DEF FlatTable

(* The weight of a flattened sequence is the sum of the weights of its     *)
(* parts.                                                                  *)
LEMMA FlattenWeighs ==
  ASSUME NEW D, NEW m \in [D -> Int], NEW ss \in Seq(Seq(D))
  PROVE  /\ FlattenSeq(ss) \in Seq(D)
         /\ Weigh(m, FlattenSeq(ss)) = Total([i \in DOMAIN ss |-> Weigh(m, ss[i])])
<1>0. /\ Len(ss) \in Nat /\ DOMAIN ss = 1..Len(ss)
      /\ \A i \in 1..Len(ss) : ss[i] \in Seq(D)
  BY LenProperties
<1> DEFINE w == [i \in DOMAIN ss |-> Weigh(m, ss[i])]
<1>1. w \in Seq(Int) /\ Len(w) = Len(ss) /\ \A i \in 1..Len(ss) : w[i] = Weigh(m, ss[i])
  <2>1. \A i \in 1..Len(ss) : Weigh(m, ss[i]) \in Int BY <1>0, WeighType
  <2> QED BY <1>0, <2>1
<1>2. CASE ss = <<>>
  <2>1. FlattenSeq(ss) = <<>> BY <1>2 DEF FlattenSeq
  <2>2. w = <<>> BY <1>2
  <2> QED BY <2>1, <2>2, WeighEmpty, TotalEmpty
<1>3. CASE ss # <<>>
  <2>0. Len(ss) # 0 /\ Len(ss) \in 1..Len(ss) BY <1>0, <1>3
  <2>1. PICK f : f = [i \in 1..Len(ss) |-> IF i = 1 THEN ss[i] ELSE f[i - 1] \o ss[i]]
    BY <1>3, FlatExists DEF FlatTable
  <2>2. PICK h : /\ h = [i \in 1..Len(ss) |-> IF i = 1 THEN ss[i] ELSE h[i - 1] \o ss[i]]
                 /\ FlattenSeq(ss) = h[Len(ss)]
    BY <2>0, <2>1, Zenon DEF FlattenSeq
  <2> HIDE DEF w
  <2>3. /\ UpTo(w, 0) = 0 /\ UpTo(w, Len(ss)) = Total(w)
        /\ \A n \in 0..Len(ss) : UpTo(w, n) \in Int
        /\ \A n \in 1..Len(ss) : UpTo(w, n) = UpTo(w, n - 1) + w[n]
    BY <1>1, UpToSteps
  <2> DEFINE T == {n \in 0..Len(ss) : n > 0 =>
                      h[n] \in Seq(D) /\ Weigh(m, h[n]) = UpTo(w, n)}
  <2>4. 0 \in T BY <1>0
  <2>5. ASSUME NEW n \in 1..Len(ss), n - 1 \in T PROVE n \in T
    <3>1. /\ UpTo(w, n) = UpTo(w, n - 1) + w[n] /\ w[n] = Weigh(m, ss[n])
          /\ ss[n] \in Seq(D) /\ n \in 0..Len(ss) /\ w[n] \in Int
      BY <1>0, <1>1, <2>3
    <3>2. CASE n = 1
      <4>1. h[n] = ss[n] BY <2>2, <3>2
      <4>2. UpTo(w, n) = w[n] BY <3>1, <3>2, <2>3
      <4> QED BY <4>1, <4>2, <3>1
    <3>3. CASE n # 1
      <4>1. n - 1 > 0 /\ n > 0 BY <3>3, <1>0
      <4>2. h[n - 1] \in Seq(D) /\ Weigh(m, h[n - 1]) = UpTo(w, n - 1) BY <2>5, <4>1
      <4>3. h[n] = h[n - 1] \o ss[n] BY <2>2, <3>3
      <4>4. Weigh(m, h[n - 1] \o ss[n]) = Weigh(m, h[n - 1]) + Weigh(m, ss[n])
        BY <4>2, <3>1, WeighConcat
      <4>5. h[n] \in Seq(D) BY <4>2, <4>3, <3>1
      <4>6. Weigh(m, h[n]) = UpTo(w, n) BY <4>2, <4>3, <4>4, <3>1
      <4> QED BY <4>5, <4>6, <3>1
    <3> QED BY <3>2, <3>3
  <2>6. 0..Len(ss) \subseteq T
    <3> HIDE DEF T
    <3> QED BY <1>0, <2>4, <2>5, InductionUpTo, Zenon
  <2>7. Len(ss) \in T
    <3>1. Len(ss) \in 0..Len(ss) BY <1>0
    <3> HIDE DEF T
    <3> QED BY <3>1, <2>6, Zenon
  <2>8. h[Len(ss)] \in Seq(D) /\ Weigh(m, h[Len(ss)]) = Total(w) BY <2>0, <2>3, <2>7
  <2> QED BY <2>2, <2>8 DEF w
<1> QED BY <1>2, <1>3

LEMMA TotalConstant ==
  ASSUME NEW s \in Seq(Int), NEW c \in Int, \A i \in 1..Len(s) : s[i] = c
  PROVE  Total(s) = c * Len(s)
<1>0. Len(s) \in Nat BY SeqElements
<1> DEFINE g == [k \in 0..Len(s) |-> c * k]
<1>2. g[0] = 0 /\ g[Len(s)] = c * Len(s) BY <1>0
<1>3. ASSUME NEW k \in 1..Len(s) PROVE g[k] = g[k - 1] + s[k]
  <2>1. k \in 0..Len(s) /\ k - 1 \in 0..Len(s) BY <1>0
  <2>2. g[k] = c * k /\ g[k - 1] = c * (k - 1) BY <2>1
  <2>3. c * k = c * (k - 1) + c BY <1>0
  <2> HIDE DEF g
  <2> QED BY <2>2, <2>3
<1> HIDE DEF g
<1> QED BY <1>2, <1>3, TotalUnique

LEMMA TotalOne ==
  ASSUME NEW x \in Int
  PROVE  Total(<<x>>) = x
<1> DEFINE s == <<x>>
<1>1. s \in Seq(Int) /\ Len(s) = 1 /\ s[1] = x OBVIOUS
<1> HIDE DEF s
<1>2. 1 \in 1..Len(s) /\ 1 - 1 = 0 BY <1>1
<1>3. UpTo(s, 1) = UpTo(s, 1 - 1) + s[1] BY <1>1, <1>2, UpToSteps
<1>4. UpTo(s, 0) = 0 /\ UpTo(s, Len(s)) = Total(s) BY <1>1, UpToSteps
<1>5. Total(s) = x BY <1>1, <1>2, <1>3, <1>4
<1> QED BY <1>5 DEF s

(***************************************************************************)
(* Choosing the first of the best                                          *)
(***************************************************************************)

(* A best element of a finite set of positions comes first.  R holds       *)
(* <<i, j>> when i is better than j.                                       *)
Orders(R, A) ==
    /\ \A i \in A : \A j \in A : <<i, j>> \in R => <<j, i>> \notin R
    /\ \A i \in A : \A j \in A : \A k \in A :
           <<i, k>> \in R => <<i, j>> \in R \/ <<j, k>> \in R

Leads(i, A, R) ==
    \A j \in A : IF j < i THEN <<i, j>> \in R ELSE <<j, i>> \notin R

(* Of finitely many candidates, ties or not, one comes first among the     *)
(* best.                                                                   *)
LEMMA FirstOfBest ==
  ASSUME NEW N \in Nat, NEW A, A \subseteq 0..N, A # {}, NEW R, Orders(R, A)
  PROVE  \E i \in A : Leads(i, A, R)
<1> DEFINE First(i, n) == \A j \in A : j < n =>
                             IF j < i THEN <<i, j>> \in R ELSE <<j, i>> \notin R
           T == {n \in 0..(N + 1) : (\E j \in A : j < n) => \E i \in A : i < n /\ First(i, n)}
<1>0. \A j \in A : j \in Nat /\ j <= N OBVIOUS
<1>a. \A i \in A : \A j \in A : <<i, j>> \in R => <<j, i>> \notin R BY DEF Orders
<1>b. \A i \in A : \A j \in A : \A k \in A :
          <<i, k>> \in R => <<i, j>> \in R \/ <<j, k>> \in R
  BY DEF Orders
<1>1. 0 \in T BY <1>0
<1>2. ASSUME NEW n \in 1..(N + 1), n - 1 \in T PROVE n \in T
  <2>1. n \in 0..(N + 1) /\ n \in Nat OBVIOUS
  <2>2. \A j \in A : j < n <=> j < n - 1 \/ j = n - 1 BY <1>0
  <2>3. CASE ~(\E j \in A : j < n) BY <2>1, <2>3
  <2>4. CASE n - 1 \notin A /\ \E j \in A : j < n
    <3>1. \A j \in A : j < n <=> j < n - 1 BY <2>2, <2>4
    <3>2. PICK i \in A : i < n - 1 /\ First(i, n - 1) BY <1>2, <3>1, <2>4
    <3>3. First(i, n) BY <3>1, <3>2
    <3> QED BY <2>1, <3>1, <3>2, <3>3
  <2>5. CASE n - 1 \in A /\ ~(\E j \in A : j < n - 1)
    <3>1. \A j \in A : j < n => j = n - 1 BY <2>2, <2>5
    <3>2. <<n - 1, n - 1>> \notin R BY <1>a, <2>5
    <3>3. First(n - 1, n) BY <3>1, <3>2
    <3>4. n - 1 < n OBVIOUS
    <3> QED BY <2>1, <2>5, <3>3, <3>4
  <2>6. CASE n - 1 \in A /\ \E j \in A : j < n - 1
    <3>1. PICK i \in A : i < n - 1 /\ First(i, n - 1) BY <1>2, <2>6
    <3>2. CASE <<n - 1, i>> \in R
      <4>1. ASSUME NEW j \in A, j < n - 1 PROVE <<n - 1, j>> \in R
        <5>1. CASE j < i
          <6>1. <<i, j>> \in R BY <3>1, <4>1, <5>1
          <6>2. <<j, i>> \notin R BY <1>a, <3>1, <4>1, <6>1
          <6> QED BY <1>b, <2>6, <3>1, <3>2, <4>1, <6>2
        <5>2. CASE ~(j < i)
          <6>1. <<j, i>> \notin R BY <3>1, <4>1, <5>2
          <6> QED BY <1>b, <2>6, <3>1, <3>2, <4>1, <6>1
        <5> QED BY <5>1, <5>2
      <4>2. <<n - 1, n - 1>> \notin R BY <1>a, <2>6
      <4>3. First(n - 1, n)
        <5> SUFFICES ASSUME NEW j \in A, j < n
                     PROVE  IF j < n - 1 THEN <<n - 1, j>> \in R ELSE <<j, n - 1>> \notin R
          OBVIOUS
        <5>1. CASE j < n - 1 BY <5>1, <4>1
        <5>2. CASE ~(j < n - 1)
          <6>1. j = n - 1 BY <5>2, <2>2
          <6> QED BY <5>2, <6>1, <4>2
        <5> QED BY <5>1, <5>2
      <4>4. n - 1 < n OBVIOUS
      <4> QED BY <2>1, <2>6, <4>3, <4>4
    <3>3. CASE <<n - 1, i>> \notin R
      <4>1. First(i, n)
        <5> SUFFICES ASSUME NEW j \in A, j < n
                     PROVE  IF j < i THEN <<i, j>> \in R ELSE <<j, i>> \notin R
          OBVIOUS
        <5>1. CASE j < n - 1 BY <5>1, <3>1
        <5>2. CASE j = n - 1
          <6>1. ~(j < i) BY <5>2, <3>1, <1>0
          <6> QED BY <6>1, <5>2, <3>3
        <5> QED BY <5>1, <5>2, <2>2
      <4>2. i < n BY <3>1, <1>0
      <4> QED BY <2>1, <3>1, <4>1, <4>2
    <3> QED BY <3>2, <3>3
  <2> QED BY <2>3, <2>4, <2>5, <2>6
<1>3. N + 1 \in T
  <2> DEFINE M == N + 1
  <2>1. M \in Nat /\ 0..M = 0..(N + 1) /\ 1..M = 1..(N + 1) OBVIOUS
  <2>2. \A n \in 1..M : n - 1 \in T => n \in T BY <1>2
  <2> HIDE DEF T, M
  <2>3. 0..M \subseteq T BY <1>1, <2>1, <2>2, InductionUpTo, Zenon
  <2>4. M \in 0..M BY <2>1
  <2>5. M \in T BY <2>3, <2>4
  <2> QED BY <2>5 DEF M
<1>4. \A j \in A : j < N + 1 BY <1>0
<1>5. PICK i \in A : First(i, N + 1) BY <1>3, <1>4
<1> QED BY <1>4, <1>5 DEF Leads

(***************************************************************************)
(* Characters of texts                                                     *)
(***************************************************************************)

Clause == [n : Nat \ {0}, end : {"hard", "soft", "none"}]

LEMMA TextsAreSequences == Texts = Seq(Clause)
BY DEF Texts, Clause

LengthOf == [c \in Clause |-> c.n]
CharsOf  == [t \in Texts |-> CountChars(t)]

(* The characters of a text are the weights of its clauses, so what is     *)
(* shown of weights applies to texts; CountAll likewise.                   *)
LEMMA CountWeighs ==
  ASSUME NEW text \in Texts
  PROVE  CountChars(text) = Weigh(LengthOf, text) /\ CountChars(text) \in Nat
<1>0. text \in Seq(Clause) BY TextsAreSequences
<1>1. /\ Len(text) \in Nat /\ DOMAIN text = 1..Len(text)
      /\ \A i \in DOMAIN text : text[i] \in Clause
  BY <1>0, SeqElements
<1>2. \A i \in DOMAIN text : LengthOf[text[i]] = text[i].n /\ text[i].n \in Nat
  BY <1>1 DEF LengthOf, Clause
<1>3. [i \in DOMAIN text |-> LengthOf[text[i]]] = [i \in DOMAIN text |-> text[i].n]
  BY <1>2
<1>4. [i \in DOMAIN text |-> text[i].n] \in Seq(Nat) BY <1>1, <1>2
<1> DEFINE s == [i \in DOMAIN text |-> text[i].n]
<1>5. Total(s) \in Nat
  <2> HIDE DEF s
  <2>1. s \in Seq(Nat) BY <1>4 DEF s
  <2> QED BY <2>1, TotalNat
<1> QED BY <1>3, <1>5 DEF CountChars, Weigh

LEMMA LengthOfType == LengthOf \in [Clause -> Int]
BY DEF LengthOf, Clause

LEMMA CharsOfType == CharsOf \in [Texts -> Int]
BY CountWeighs DEF CharsOf

LEMMA CountEmpty == CountChars(<<>>) = 0 /\ <<>> \in Texts
<1>1. <<>> \in Texts BY DEF Texts
<1> QED BY <1>1, CountWeighs, WeighEmpty

LEMMA CountAppend ==
  ASSUME NEW text \in Texts, NEW c \in Clause
  PROVE  Append(text, c) \in Texts /\ CountChars(Append(text, c)) = CountChars(text) + c.n
<1>0. text \in Seq(Clause) BY TextsAreSequences
<1>1. Append(text, c) \in Texts
  <2>1. Append(text, c) \in Seq(Clause) BY <1>0
  <2> QED BY <2>1, TextsAreSequences
<1>2. Weigh(LengthOf, Append(text, c)) = Weigh(LengthOf, text) + LengthOf[c]
  BY <1>0, LengthOfType, WeighAppend
<1>3. LengthOf[c] = c.n BY DEF LengthOf
<1> QED BY <1>1, <1>2, <1>3, CountWeighs

LEMMA CountConcat ==
  ASSUME NEW s \in Texts, NEW t \in Texts
  PROVE  s \o t \in Texts /\ CountChars(s \o t) = CountChars(s) + CountChars(t)
<1>0. s \in Seq(Clause) /\ t \in Seq(Clause) BY TextsAreSequences
<1>1. s \o t \in Texts
  <2>1. s \o t \in Seq(Clause) BY <1>0
  <2> QED BY <2>1, TextsAreSequences
<1>2. Weigh(LengthOf, s \o t) = Weigh(LengthOf, s) + Weigh(LengthOf, t)
  BY <1>0, LengthOfType, WeighConcat
<1> QED BY <1>1, <1>2, CountWeighs

LEMMA CountOne ==
  ASSUME NEW c \in Clause
  PROVE  <<c>> \in Texts /\ CountChars(<<c>>) = c.n
<1>1. <<c>> = Append(<<>>, c) /\ c.n \in Nat BY DEF Clause
<1>2. <<>> \in Texts /\ CountChars(<<>>) = 0 BY CountEmpty
<1>3. Append(<<>>, c) \in Texts /\ CountChars(Append(<<>>, c)) = CountChars(<<>>) + c.n
  BY <1>2, CountAppend
<1> QED BY <1>1, <1>2, <1>3

LEMMA CountPositive ==
  ASSUME NEW text \in Texts, text # <<>>
  PROVE  CountChars(text) > 0
<1>0. text \in Seq(Clause) BY TextsAreSequences
<1>1. /\ Len(text) \in Nat /\ DOMAIN text = 1..Len(text)
      /\ \A i \in DOMAIN text : text[i] \in Clause
  BY <1>0, SeqElements
<1>2. Len(text) # 0 BY <1>0
<1> DEFINE s == [i \in DOMAIN text |-> text[i].n]
<1>3. s \in Seq(Nat) /\ Len(s) = Len(text) /\ s[1] > 0 BY <1>1, <1>2 DEF Clause
<1>4. 1 \in 1..Len(s) BY <1>1, <1>2, <1>3
<1> HIDE DEF s
<1>5. Total(s) \in Nat /\ s[1] <= Total(s) BY <1>3, <1>4, TotalNat
<1>6. s[1] \in Nat BY <1>3, <1>4
<1>7. Total(s) > 0 BY <1>3, <1>5, <1>6
<1> QED BY <1>7 DEF CountChars, s

LEMMA AllWeighs ==
  ASSUME NEW ts \in Seq(Texts)
  PROVE  CountAll(ts) = Weigh(CharsOf, ts) /\ CountAll(ts) \in Nat
<1>1. /\ Len(ts) \in Nat /\ DOMAIN ts = 1..Len(ts)
      /\ \A i \in DOMAIN ts : ts[i] \in Texts
  BY SeqElements
<1>2. \A i \in DOMAIN ts : CharsOf[ts[i]] = CountChars(ts[i]) /\ CountChars(ts[i]) \in Nat
  BY <1>1, CountWeighs DEF CharsOf
<1>3. [i \in DOMAIN ts |-> CharsOf[ts[i]]] = [i \in DOMAIN ts |-> CountChars(ts[i])]
  BY <1>2
<1> DEFINE s == [i \in DOMAIN ts |-> CountChars(ts[i])]
<1>4. s \in Seq(Nat) BY <1>1, <1>2
<1>5. Total(s) \in Nat
  <2> HIDE DEF s
  <2> QED BY <1>4, TotalNat
<1> QED BY <1>3, <1>5 DEF CountAll, Weigh

LEMMA AllEmpty == CountAll(<<>>) = 0 /\ <<>> \in Seq(Texts)
<1>1. <<>> \in Seq(Texts) OBVIOUS
<1> QED BY <1>1, AllWeighs, WeighEmpty

LEMMA AllAppend ==
  ASSUME NEW ts \in Seq(Texts), NEW t \in Texts
  PROVE  Append(ts, t) \in Seq(Texts) /\ CountAll(Append(ts, t)) = CountAll(ts) + CountChars(t)
<1>1. Append(ts, t) \in Seq(Texts) OBVIOUS
<1>2. Weigh(CharsOf, Append(ts, t)) = Weigh(CharsOf, ts) + CharsOf[t]
  BY CharsOfType, WeighAppend
<1>3. CharsOf[t] = CountChars(t) BY DEF CharsOf
<1> QED BY <1>1, <1>2, <1>3, AllWeighs

LEMMA AllConcat ==
  ASSUME NEW s \in Seq(Texts), NEW t \in Seq(Texts)
  PROVE  s \o t \in Seq(Texts) /\ CountAll(s \o t) = CountAll(s) + CountAll(t)
<1>1. s \o t \in Seq(Texts) OBVIOUS
<1>2. Weigh(CharsOf, s \o t) = Weigh(CharsOf, s) + Weigh(CharsOf, t)
  BY CharsOfType, WeighConcat
<1> QED BY <1>1, <1>2, AllWeighs

LEMMA AllOne ==
  ASSUME NEW t \in Texts
  PROVE  <<t>> \in Seq(Texts) /\ CountAll(<<t>>) = CountChars(t)
<1>1. <<t>> = Append(<<>>, t) OBVIOUS
<1>2. <<>> \in Seq(Texts) /\ CountAll(<<>>) = 0 BY AllEmpty
<1>3. Append(<<>>, t) \in Seq(Texts) /\ CountAll(Append(<<>>, t)) = CountAll(<<>>) + CountChars(t)
  BY <1>2, AllAppend
<1>4. CountChars(t) \in Nat BY CountWeighs
<1> QED BY <1>1, <1>2, <1>3, <1>4

(* Flattening parts into one text keeps their characters.                  *)
LEMMA FlattenCount ==
  ASSUME NEW ts \in Seq(Texts)
  PROVE  FlattenSeq(ts) \in Texts /\ CountChars(FlattenSeq(ts)) = CountAll(ts)
<1>0. ts \in Seq(Seq(Clause)) BY TextsAreSequences
<1>1. /\ FlattenSeq(ts) \in Seq(Clause)
      /\ Weigh(LengthOf, FlattenSeq(ts)) = Total([i \in DOMAIN ts |-> Weigh(LengthOf, ts[i])])
  BY <1>0, LengthOfType, FlattenWeighs
<1>2. FlattenSeq(ts) \in Texts BY <1>1, TextsAreSequences
<1>3. \A i \in DOMAIN ts : Weigh(LengthOf, ts[i]) = CountChars(ts[i])
  <2>1. \A i \in DOMAIN ts : ts[i] \in Texts BY SeqElements
  <2> QED BY <2>1, CountWeighs
<1>4. [i \in DOMAIN ts |-> Weigh(LengthOf, ts[i])] = [i \in DOMAIN ts |-> CountChars(ts[i])]
  BY <1>3
<1> QED BY <1>1, <1>2, <1>4, CountWeighs DEF CountAll

(* Cutting every text of ts into texts that hold the same characters.      *)
LEMMA FlattenAll ==
  ASSUME NEW ts \in Seq(Texts), NEW cut, DOMAIN cut = DOMAIN ts, cut = [i \in DOMAIN ts |-> cut[i]],
         \A i \in DOMAIN ts : cut[i] \in Seq(Texts) /\ CountAll(cut[i]) = CountChars(ts[i])
  PROVE  FlattenSeq(cut) \in Seq(Texts) /\ CountAll(FlattenSeq(cut)) = CountAll(ts)
<1>0. Len(ts) \in Nat /\ DOMAIN ts = 1..Len(ts) BY SeqElements
<1>1. cut \in Seq(Seq(Texts)) BY <1>0
<1>2. /\ FlattenSeq(cut) \in Seq(Texts)
      /\ Weigh(CharsOf, FlattenSeq(cut)) = Total([i \in DOMAIN cut |-> Weigh(CharsOf, cut[i])])
  BY <1>1, CharsOfType, FlattenWeighs
<1>3. \A i \in DOMAIN cut : Weigh(CharsOf, cut[i]) = CountChars(ts[i])
  BY AllWeighs
<1>4. [i \in DOMAIN cut |-> Weigh(CharsOf, cut[i])] = [i \in DOMAIN ts |-> CountChars(ts[i])]
  BY <1>3
<1> QED BY <1>2, <1>4, AllWeighs DEF CountAll

(* F adds the weight m of its second argument to the measure M of its      *)
(* first one, and the measure of A is 0.                                   *)
Adds(F, A, M, m, X, D) ==
    /\ A \in X /\ F \in [X \X D -> X]
    /\ M \in [X -> Int] /\ m \in [D -> Int]
    /\ M[A] = 0
    /\ \A a \in X, b \in D : M[F[<<a, b>>]] = M[a] + m[b]

(* A fold that adds the weight of every element.                           *)
LEMMA FoldWeighs ==
  ASSUME NEW X, NEW D, NEW A, NEW s \in Seq(D), NEW F, NEW M, NEW m,
         Adds(F, A, M, m, X, D), NEW h, FoldsLike(h, s, A, F, X)
  PROVE  h[1..Len(s)] \in X /\ M[h[1..Len(s)]] = Weigh(m, s)
<1> USE DEF Adds
<1>0. Len(s) \in Nat /\ DOMAIN s = 1..Len(s) /\ \A i \in DOMAIN s : s[i] \in D BY SeqElements
<1>1. PICK g \in [0..Len(s) -> X] : Trajectory(g, s, A, F) /\ h[1..Len(s)] = g[Len(s)]
  <2>1. EndsIn(h[1..Len(s)], s, A, F, X) BY FoldTrajectory
  <2> QED BY <2>1 DEF EndsIn
<1> DEFINE w == [i \in DOMAIN s |-> m[s[i]]]
           q == [n \in 0..Len(s) |-> M[g[n]]]
<1>2. w \in Seq(Int) /\ Len(w) = Len(s) /\ \A i \in 1..Len(s) : w[i] = m[s[i]]
  <2>1. \A i \in 1..Len(s) : m[s[i]] \in Int BY <1>0
  <2> QED BY <1>0, <2>1
<1>3. q[0] = 0 /\ q[Len(s)] = M[g[Len(s)]] BY <1>0, <1>1 DEF Trajectory
<1>4. ASSUME NEW n \in 1..Len(s) PROVE q[n] = q[n - 1] + w[n]
  <2>1. n \in 0..Len(s) /\ n - 1 \in 0..Len(s) /\ s[n] \in D BY <1>0
  <2>2. g[n] = F[<<g[n - 1], s[n]>>] BY <1>1 DEF Trajectory
  <2>3. M[F[<<g[n - 1], s[n]>>]] = M[g[n - 1]] + m[s[n]] BY <2>1
  <2> QED BY <1>2, <2>1, <2>2, <2>3
<1>5. Total(w) = q[Len(w)]
  <2> HIDE DEF w, q
  <2> QED BY <1>2, <1>3, <1>4, TotalUnique
<1>6. h[1..Len(s)] \in X
  <2>1. Len(s) \in 0..Len(s) BY <1>0
  <2>2. g[Len(s)] \in X
    <3> HIDE DEF w, q
    <3> QED BY <2>1, <1>1
  <2> QED BY <2>2, <1>1
<1> QED BY <1>1, <1>2, <1>3, <1>5, <1>6 DEF Weigh

LEMMA FrontAndLast ==
  ASSUME NEW D, NEW s \in Seq(D), s # <<>>
  PROVE  /\ Len(s) \in Nat /\ Len(s) > 0 /\ s[Len(s)] \in D
         /\ SubSeq(s, 1, Len(s) - 1) \in Seq(D)
         /\ s = Append(SubSeq(s, 1, Len(s) - 1), s[Len(s)])
<1>1. Len(s) \in Nat /\ Len(s) > 0 /\ s[Len(s)] \in D OBVIOUS
<1> DEFINE front == SubSeq(s, 1, Len(s) - 1)
           k == Len(s) - 1
<1>0. k \in 0..Len(s) /\ k = Len(s) - 1 BY <1>1
<1>2. /\ front \in Seq(D) /\ Len(front) = Len(s) - 1
      /\ \A i \in 1..(Len(s) - 1) : front[i] = s[i]
  <2> HIDE DEF k
  <2>1. /\ SubSeq(s, 1, k) \in Seq(D) /\ Len(SubSeq(s, 1, k)) = k
        /\ \A i \in 1..k : SubSeq(s, 1, k)[i] = s[i]
    BY <1>0, <1>1
  <2> QED BY <2>1 DEF k
<1> HIDE DEF front
<1>3. Append(front, s[Len(s)]) \in Seq(D) /\ Len(Append(front, s[Len(s)])) = Len(s)
  BY <1>1, <1>2
<1>4. \A i \in 1..Len(s) : Append(front, s[Len(s)])[i] = s[i]
  BY <1>1, <1>2
<1>5. s = Append(front, s[Len(s)])
  BY <1>3, <1>4, SeqEqual
<1> QED BY <1>1, <1>2, <1>5 DEF front

LEMMA AppendToLastKeepsAll ==
  ASSUME NEW parts \in Seq(Texts), parts # <<>>, NEW text \in Texts
  PROVE  /\ AppendToLast(parts, text) \in Seq(Texts)
         /\ Len(AppendToLast(parts, text)) = Len(parts)
         /\ CountAll(AppendToLast(parts, text)) = CountAll(parts) + CountChars(text)
<1> DEFINE front == SubSeq(parts, 1, Len(parts) - 1)
           last  == parts[Len(parts)]
           new   == last \o text
<1>1. /\ Len(parts) \in Nat /\ Len(parts) > 0 /\ last \in Texts /\ front \in Seq(Texts)
      /\ parts = Append(front, last)
  BY FrontAndLast
<1>2. new \in Texts /\ CountChars(new) = CountChars(last) + CountChars(text)
  BY <1>1, CountConcat
<1>3. Len(front) = Len(parts) - 1 /\ \A i \in 1..(Len(parts) - 1) : front[i] = parts[i]
  BY <1>1
<1>4. AppendToLast(parts, text) = [parts EXCEPT ![Len(parts)] = new]
  BY DEF AppendToLast
<1> HIDE DEF front, last, new
<1>5. /\ AppendToLast(parts, text) \in Seq(Texts) /\ Len(AppendToLast(parts, text)) = Len(parts)
      /\ \A i \in 1..Len(parts) : AppendToLast(parts, text)[i]
            = IF i = Len(parts) THEN new ELSE parts[i]
  <2> DEFINE T == Texts
  <2>1. parts \in Seq(T) /\ new \in T BY <1>2
  <2> HIDE DEF T
  <2>2. [parts EXCEPT ![Len(parts)] = new] \in Seq(T) BY <2>1, <1>1
  <2>3. Len([parts EXCEPT ![Len(parts)] = new]) = Len(parts) BY <2>1, <1>1
  <2>4. \A i \in 1..Len(parts) : [parts EXCEPT ![Len(parts)] = new][i]
            = IF i = Len(parts) THEN new ELSE parts[i]
    <3>1. parts \in [1..Len(parts) -> T] BY <2>1
    <3> QED BY <3>1
  <2> QED BY <1>4, <2>2, <2>3, <2>4 DEF T
<1>6. /\ Append(front, new) \in Seq(Texts) /\ Len(Append(front, new)) = Len(parts)
      /\ \A i \in 1..Len(parts) : Append(front, new)[i]
            = IF i = Len(parts) THEN new ELSE parts[i]
  <2> DEFINE T == Texts
  <2>1. front \in Seq(T) /\ new \in T BY <1>1, <1>2
  <2> HIDE DEF T
  <2>2. Append(front, new) \in Seq(T) BY <2>1
  <2>3. Len(Append(front, new)) = Len(parts) BY <2>1, <1>1, <1>3
  <2>4. \A i \in 1..Len(parts) : Append(front, new)[i]
            = IF i = Len(parts) THEN new ELSE parts[i]
    BY <2>1, <1>1, <1>3
  <2> QED BY <2>2, <2>3, <2>4 DEF T
<1>7. AppendToLast(parts, text) = Append(front, new)
  <2> DEFINE a == AppendToLast(parts, text)
             b == Append(front, new)
  <2>1. /\ a \in Seq(Texts) /\ b \in Seq(Texts) /\ Len(a) = Len(b)
        /\ \A i \in 1..Len(a) : a[i] = b[i]
    BY <1>5, <1>6
  <2> HIDE DEF a, b
  <2>2. a = b BY <2>1, SeqEqual
  <2> QED BY <2>2 DEF a, b
<1>8. CountAll(Append(front, new)) = CountAll(front) + CountChars(new)
  BY <1>1, <1>2, AllAppend
<1>9. CountAll(parts) = CountAll(front) + CountChars(last)
  BY <1>1, AllAppend
<1>10. CountAll(front) \in Nat /\ CountChars(last) \in Nat /\ CountChars(text) \in Nat
  BY <1>1, AllWeighs, CountWeighs
<1> QED BY <1>2, <1>5, <1>7, <1>8, <1>9, <1>10

(***************************************************************************)
(* Cutting at the punctuation                                              *)
(***************************************************************************)

Grouping == [done : Seq(Texts), open : Texts]
Grouped(a) == CountAll(a.done) + CountChars(a.open)

(* The loop of split_with_delimiters.                                      *)
LEMMA EndGroupKeepsAll ==
  ASSUME NEW ends, NEW a \in Grouping, NEW c \in Clause
  PROVE  /\ EndGroup(ends, a, c) \in Grouping
         /\ Grouped(EndGroup(ends, a, c)) = Grouped(a) + LengthOf[c]
<1>1. a.done \in Seq(Texts) /\ a.open \in Texts BY DEF Grouping
<1>2. c.n \in Nat /\ LengthOf[c] = c.n BY DEF LengthOf, Clause
<1> DEFINE open == Append(a.open, c)
<1>3. open \in Texts /\ CountChars(open) = CountChars(a.open) + c.n BY <1>1, CountAppend
<1>4. CountAll(a.done) \in Nat /\ CountChars(a.open) \in Nat BY <1>1, AllWeighs, CountWeighs
<1> DEFINE done == Append(a.done, open)
<1>5. done \in Seq(Texts) /\ CountAll(done) = CountAll(a.done) + CountChars(open)
  BY <1>1, <1>3, AllAppend
<1>6. CountChars(<<>>) = 0 /\ <<>> \in Texts BY CountEmpty
<1>7. EndGroup(ends, a, c) = IF c.end \in ends THEN [done |-> done, open |-> <<>>]
                             ELSE [a EXCEPT !.open = open]
  BY DEF EndGroup
<1> HIDE DEF open, done
<1>8. CASE c.end \in ends
  <2>1. EndGroup(ends, a, c) = [done |-> done, open |-> <<>>] BY <1>7, <1>8
  <2>2. Grouped(EndGroup(ends, a, c)) = CountAll(done) + 0 BY <2>1, <1>6 DEF Grouped
  <2>3. EndGroup(ends, a, c) \in Grouping BY <2>1, <1>5, <1>6 DEF Grouping
  <2> QED BY <2>2, <2>3, <1>2, <1>3, <1>4, <1>5 DEF Grouped
<1>9. CASE c.end \notin ends
  <2>1. EndGroup(ends, a, c) = [a EXCEPT !.open = open] BY <1>7, <1>9
  <2>2. [a EXCEPT !.open = open] = [done |-> a.done, open |-> open] BY DEF Grouping
  <2>3. Grouped(EndGroup(ends, a, c)) = CountAll(a.done) + CountChars(open) BY <2>1, <2>2 DEF Grouped
  <2>4. EndGroup(ends, a, c) \in Grouping BY <2>1, <2>2, <1>1, <1>3 DEF Grouping
  <2> QED BY <2>3, <2>4, <1>2, <1>3, <1>4 DEF Grouped
<1> QED BY <1>8, <1>9

GroupingOf(ends, s) ==
    FoldLeft(LAMBDA acc, c : EndGroup(ends, acc, c), [done |-> <<>>, open |-> <<>>], s)

LEMMA GroupingLoop ==
  ASSUME NEW ends, NEW s \in Texts
  PROVE  GroupingOf(ends, s) \in Grouping /\ Grouped(GroupingOf(ends, s)) = CountChars(s)
<1> DEFINE D == Clause
           X == Grouping
           A == [done |-> <<>>, open |-> <<>>]
           F == [p \in X \X D |-> EndGroup(ends, p[1], p[2])]
           M == [a \in X |-> Grouped(a)]
           m == LengthOf
           end == FoldLeft(LAMBDA acc, c : EndGroup(ends, acc, c), A, s)
<1>0. s \in Seq(D) BY TextsAreSequences
<1>1. Len(s) \in Nat /\ DOMAIN s = 1..Len(s) /\ \A n \in 1..Len(s) : s[n] \in D
  BY <1>0, SeqElements
<1>2. A \in X /\ Grouped(A) = 0 BY AllEmpty, CountEmpty DEF Grouping, Grouped
<1>3. F \in [X \X D -> X] /\ \A a \in X, b \in D : F[<<a, b>>] = EndGroup(ends, a, b)
  BY EndGroupKeepsAll
<1>4. M \in [X -> Int] /\ m \in [D -> Int]
  <2>1. \A a \in X : Grouped(a) \in Int BY AllWeighs, CountWeighs DEF Grouping, Grouped
  <2> QED BY <2>1, LengthOfType
<1>5. M[A] = 0 BY <1>2
<1>6. ASSUME NEW a \in X, NEW b \in D PROVE M[F[<<a, b>>]] = M[a] + m[b]
  <2>1. EndGroup(ends, a, b) \in X /\ Grouped(EndGroup(ends, a, b)) = Grouped(a) + m[b]
    BY EndGroupKeepsAll
  <2> QED BY <1>3, <2>1
<1>7. \A a \in X : M[a] = Grouped(a) OBVIOUS
<1> HIDE DEF F, X, D, M, m
<1>8. PICK f \in [SUBSET (1..Len(s)) -> X] : FoldTable(f, s, A, F)
  <2> HIDE DEF A
  <2> QED BY <1>0, <1>2, <1>3, FoldExists
<1>9. ASSUME NEW S \in SUBSET (1..Len(s)), S # {}
      PROVE  Max(S) \in 1..Len(s) /\ S \ {Max(S)} \in SUBSET (1..Len(s))
  BY <1>1, <1>9, MaxOfBounded
<1>10. f = [S \in SUBSET (1..Len(s)) |->
              IF S = {} THEN A ELSE EndGroup(ends, f[S \ {Max(S)}], s[Max(S)])]
  <2>1. ASSUME NEW S \in SUBSET (1..Len(s)), S # {}
        PROVE  F[<<f[S \ {Max(S)}], s[Max(S)]>>] = EndGroup(ends, f[S \ {Max(S)}], s[Max(S)])
    BY <1>1, <1>3, <1>9, <2>1
  <2> QED BY <1>8, <2>1 DEF FoldTable
<1>11. PICK h : /\ h = [S \in SUBSET (1..Len(s)) |->
                          IF S = {} THEN A ELSE EndGroup(ends, h[S \ {Max(S)}], s[Max(S)])]
                /\ end = h[1..Len(s)]
  BY <1>1, <1>10, Zenon DEF FoldLeft, MapThenFoldSet
<1> HIDE DEF A, end
<1>12. h[{}] = A BY <1>11
<1>13. ASSUME NEW S \in SUBSET (1..Len(s)), S # {}, h[S \ {Max(S)}] \in X
       PROVE  h[S] = F[<<h[S \ {Max(S)}], s[Max(S)]>>]
  <2>1. F[<<h[S \ {Max(S)}], s[Max(S)]>>] = EndGroup(ends, h[S \ {Max(S)}], s[Max(S)])
    BY <1>1, <1>3, <1>9, <1>13
  <2> QED BY <1>11, <1>13, <2>1
<1>14. FoldsLike(h, s, A, F, X) BY <1>12, <1>13 DEF FoldsLike
<1>15. h[1..Len(s)] \in X /\ M[h[1..Len(s)]] = Weigh(m, s)
  <2>1. Adds(F, A, M, m, X, D) BY <1>2, <1>3, <1>4, <1>5, <1>6 DEF Adds
  <2> QED BY <1>0, <1>14, <2>1, FoldWeighs
<1>16. end \in X /\ Grouped(end) = CountChars(s)
  BY <1>7, <1>11, <1>15, CountWeighs DEF m
<1> QED BY <1>16 DEF end, A, X, GroupingOf

(* split_with_delimiters keeps every character.                            *)
LEMMA GroupsKeepText ==
  ASSUME NEW text \in Texts, NEW ends
  PROVE  Groups(text, ends) \in Seq(Texts) /\ CountAll(Groups(text, ends)) = CountChars(text)
<1> DEFINE out == GroupingOf(ends, text)
<1>1. out \in Grouping /\ Grouped(out) = CountChars(text) BY GroupingLoop
<1>2. Groups(text, ends) = IF out.open = <<>> THEN out.done ELSE Append(out.done, out.open)
  BY DEF Groups, GroupingOf
<1> HIDE DEF out
<1>3. out.done \in Seq(Texts) /\ out.open \in Texts BY <1>1 DEF Grouping
<1>4. CountAll(out.done) + CountChars(out.open) = CountChars(text) BY <1>1 DEF Grouped
<1>5. CASE out.open = <<>>
  <2>1. CountChars(out.open) = 0 BY <1>5, CountEmpty
  <2>2. CountAll(out.done) \in Nat BY <1>3, AllWeighs
  <2> QED BY <1>2, <1>3, <1>4, <1>5, <2>1, <2>2
<1>6. CASE out.open # <<>>
  <2>1. /\ Append(out.done, out.open) \in Seq(Texts)
        /\ CountAll(Append(out.done, out.open)) = CountAll(out.done) + CountChars(out.open)
    BY <1>3, AllAppend
  <2> QED BY <1>2, <1>4, <1>6, <2>1
<1> QED BY <1>5, <1>6

(***************************************************************************)
(* Packing                                                                 *)
(***************************************************************************)

PartPacking == [packed : Seq(Texts), open : Texts]
PackedChars(a) == CountAll(a.packed) + CountChars(a.open)

(* The loop of pack_short_groups.                                          *)
LEMMA PackShortKeepsAll ==
  ASSUME NEW minChars \in Nat, NEW a \in PartPacking, NEW g \in Texts
  PROVE  /\ PackShort(minChars, a, g) \in PartPacking
         /\ PackedChars(PackShort(minChars, a, g)) = PackedChars(a) + CharsOf[g]
<1>1. a.packed \in Seq(Texts) /\ a.open \in Texts BY DEF PartPacking
<1>2. CharsOf[g] = CountChars(g) /\ CountChars(g) \in Nat BY CountWeighs DEF CharsOf
<1> DEFINE open == a.open \o g
<1>3. open \in Texts /\ CountChars(open) = CountChars(a.open) + CountChars(g)
  BY <1>1, CountConcat
<1>4. CountAll(a.packed) \in Nat /\ CountChars(a.open) \in Nat BY <1>1, AllWeighs, CountWeighs
<1> DEFINE packed == Append(a.packed, open)
<1>5. packed \in Seq(Texts) /\ CountAll(packed) = CountAll(a.packed) + CountChars(open)
  BY <1>1, <1>3, AllAppend
<1>6. CountChars(<<>>) = 0 /\ <<>> \in Texts BY CountEmpty
<1>7. PackShort(minChars, a, g)
        = IF CountChars(open) >= minChars THEN [packed |-> packed, open |-> <<>>]
          ELSE [a EXCEPT !.open = open]
  BY DEF PackShort
<1> HIDE DEF open, packed
<1>8. CASE CountChars(open) >= minChars
  <2>1. PackShort(minChars, a, g) = [packed |-> packed, open |-> <<>>] BY <1>7, <1>8
  <2>2. PackedChars(PackShort(minChars, a, g)) = CountAll(packed) + 0
    BY <2>1, <1>6 DEF PackedChars
  <2>3. PackShort(minChars, a, g) \in PartPacking BY <2>1, <1>5, <1>6 DEF PartPacking
  <2> QED BY <2>2, <2>3, <1>2, <1>3, <1>4, <1>5 DEF PackedChars
<1>9. CASE ~(CountChars(open) >= minChars)
  <2>1. PackShort(minChars, a, g) = [a EXCEPT !.open = open] BY <1>7, <1>9
  <2>2. [a EXCEPT !.open = open] = [packed |-> a.packed, open |-> open] BY DEF PartPacking
  <2>3. PackedChars(PackShort(minChars, a, g)) = CountAll(a.packed) + CountChars(open)
    BY <2>1, <2>2 DEF PackedChars
  <2>4. PackShort(minChars, a, g) \in PartPacking BY <2>1, <2>2, <1>1, <1>3 DEF PartPacking
  <2> QED BY <2>3, <2>4, <1>2, <1>3, <1>4 DEF PackedChars
<1> QED BY <1>8, <1>9

ShortPackingOf(minChars, s) ==
    FoldLeft(LAMBDA acc, g : PackShort(minChars, acc, g), [packed |-> <<>>, open |-> <<>>], s)

LEMMA ShortPackingLoop ==
  ASSUME NEW minChars \in Nat, NEW s \in Seq(Texts)
  PROVE  ShortPackingOf(minChars, s) \in PartPacking /\ PackedChars(ShortPackingOf(minChars, s)) = CountAll(s)
<1> DEFINE D == Texts
           X == PartPacking
           A == [packed |-> <<>>, open |-> <<>>]
           F == [p \in X \X D |-> PackShort(minChars, p[1], p[2])]
           M == [a \in X |-> PackedChars(a)]
           m == CharsOf
           end == FoldLeft(LAMBDA acc, g : PackShort(minChars, acc, g), A, s)
<1>0. s \in Seq(D) OBVIOUS
<1>1. Len(s) \in Nat /\ DOMAIN s = 1..Len(s) /\ \A n \in 1..Len(s) : s[n] \in D
  BY <1>0, SeqElements
<1>2. A \in X /\ PackedChars(A) = 0 BY AllEmpty, CountEmpty DEF PartPacking, PackedChars
<1>3. F \in [X \X D -> X] /\ \A a \in X, b \in D : F[<<a, b>>] = PackShort(minChars, a, b)
  BY PackShortKeepsAll
<1>4. M \in [X -> Int] /\ m \in [D -> Int]
  <2>1. \A a \in X : PackedChars(a) \in Int BY AllWeighs, CountWeighs DEF PartPacking, PackedChars
  <2> QED BY <2>1, CharsOfType
<1>5. M[A] = 0 BY <1>2
<1>6. ASSUME NEW a \in X, NEW b \in D PROVE M[F[<<a, b>>]] = M[a] + m[b]
  <2>1. PackShort(minChars, a, b) \in X /\ PackedChars(PackShort(minChars, a, b)) = PackedChars(a) + m[b]
    BY PackShortKeepsAll
  <2> QED BY <1>3, <2>1
<1>7. \A a \in X : M[a] = PackedChars(a) OBVIOUS
<1> HIDE DEF F, X, D, M, m
<1>8. PICK f \in [SUBSET (1..Len(s)) -> X] : FoldTable(f, s, A, F)
  <2> HIDE DEF A
  <2> QED BY <1>0, <1>2, <1>3, FoldExists
<1>9. ASSUME NEW S \in SUBSET (1..Len(s)), S # {}
      PROVE  Max(S) \in 1..Len(s) /\ S \ {Max(S)} \in SUBSET (1..Len(s))
  BY <1>1, <1>9, MaxOfBounded
<1>10. f = [S \in SUBSET (1..Len(s)) |->
              IF S = {} THEN A ELSE PackShort(minChars, f[S \ {Max(S)}], s[Max(S)])]
  <2>1. ASSUME NEW S \in SUBSET (1..Len(s)), S # {}
        PROVE  F[<<f[S \ {Max(S)}], s[Max(S)]>>] = PackShort(minChars, f[S \ {Max(S)}], s[Max(S)])
    BY <1>1, <1>3, <1>9, <2>1
  <2> QED BY <1>8, <2>1 DEF FoldTable
<1>11. PICK h : /\ h = [S \in SUBSET (1..Len(s)) |->
                          IF S = {} THEN A ELSE PackShort(minChars, h[S \ {Max(S)}], s[Max(S)])]
                /\ end = h[1..Len(s)]
  BY <1>1, <1>10, Zenon DEF FoldLeft, MapThenFoldSet
<1> HIDE DEF A, end
<1>12. h[{}] = A BY <1>11
<1>13. ASSUME NEW S \in SUBSET (1..Len(s)), S # {}, h[S \ {Max(S)}] \in X
       PROVE  h[S] = F[<<h[S \ {Max(S)}], s[Max(S)]>>]
  <2>1. F[<<h[S \ {Max(S)}], s[Max(S)]>>] = PackShort(minChars, h[S \ {Max(S)}], s[Max(S)])
    BY <1>1, <1>3, <1>9, <1>13
  <2> QED BY <1>11, <1>13, <2>1
<1>14. FoldsLike(h, s, A, F, X) BY <1>12, <1>13 DEF FoldsLike
<1>15. h[1..Len(s)] \in X /\ M[h[1..Len(s)]] = Weigh(m, s)
  <2>1. Adds(F, A, M, m, X, D) BY <1>2, <1>3, <1>4, <1>5, <1>6 DEF Adds
  <2> QED BY <1>0, <1>14, <2>1, FoldWeighs
<1>16. end \in X /\ PackedChars(end) = CountAll(s)
  BY <1>7, <1>11, <1>15, AllWeighs DEF m
<1> QED BY <1>16 DEF end, A, X, ShortPackingOf

(* The loop of pack_to_part_count.                                         *)
LEMMA PackPartKeepsAll ==
  ASSUME NEW target, NEW count, NEW a \in PartPacking, NEW g \in Texts
  PROVE  /\ PackPart(target, count, a, g) \in PartPacking
         /\ PackedChars(PackPart(target, count, a, g)) = PackedChars(a) + CharsOf[g]
<1>1. a.packed \in Seq(Texts) /\ a.open \in Texts BY DEF PartPacking
<1>2. CharsOf[g] = CountChars(g) /\ CountChars(g) \in Nat BY CountWeighs DEF CharsOf
<1> DEFINE open == a.open \o g
           packed == Append(a.packed, a.open)
           full == /\ a.open # <<>> /\ CountChars(a.open) >= target
                   /\ Len(a.packed) < count - 1
<1>3. open \in Texts /\ CountChars(open) = CountChars(a.open) + CountChars(g)
  BY <1>1, CountConcat
<1>4. CountAll(a.packed) \in Nat /\ CountChars(a.open) \in Nat BY <1>1, AllWeighs, CountWeighs
<1>5. packed \in Seq(Texts) /\ CountAll(packed) = CountAll(a.packed) + CountChars(a.open)
  BY <1>1, AllAppend
<1>6. /\ full  => PackPart(target, count, a, g) = [packed |-> packed, open |-> g]
      /\ ~full => PackPart(target, count, a, g) = [a EXCEPT !.open = open]
  BY DEF PackPart
<1> HIDE DEF open, packed, full
<1>7. CASE full
  <2>1. PackPart(target, count, a, g) = [packed |-> packed, open |-> g] BY <1>6, <1>7
  <2>2. PackedChars(PackPart(target, count, a, g)) = CountAll(packed) + CountChars(g)
    BY <2>1 DEF PackedChars
  <2>3. PackPart(target, count, a, g) \in PartPacking BY <2>1, <1>5 DEF PartPacking
  <2> QED BY <2>2, <2>3, <1>2, <1>4, <1>5 DEF PackedChars
<1>8. CASE ~full
  <2>1. PackPart(target, count, a, g) = [a EXCEPT !.open = open] BY <1>6, <1>8
  <2>2. [a EXCEPT !.open = open] = [packed |-> a.packed, open |-> open] BY DEF PartPacking
  <2>3. PackedChars(PackPart(target, count, a, g)) = CountAll(a.packed) + CountChars(open)
    BY <2>1, <2>2 DEF PackedChars
  <2>4. PackPart(target, count, a, g) \in PartPacking BY <2>1, <2>2, <1>1, <1>3 DEF PartPacking
  <2> QED BY <2>3, <2>4, <1>2, <1>3, <1>4 DEF PackedChars
<1> QED BY <1>7, <1>8

SharePackingOf(target, count, s) ==
    FoldLeft(LAMBDA acc, g : PackPart(target, count, acc, g),
             [packed |-> <<>>, open |-> <<>>], s)

LEMMA SharePackingLoop ==
  ASSUME NEW target, NEW count, NEW s \in Seq(Texts)
  PROVE  SharePackingOf(target, count, s) \in PartPacking /\ PackedChars(SharePackingOf(target, count, s)) = CountAll(s)
<1> DEFINE D == Texts
           X == PartPacking
           A == [packed |-> <<>>, open |-> <<>>]
           F == [p \in X \X D |-> PackPart(target, count, p[1], p[2])]
           M == [a \in X |-> PackedChars(a)]
           m == CharsOf
           end == FoldLeft(LAMBDA acc, g : PackPart(target, count, acc, g), A, s)
<1>0. s \in Seq(D) OBVIOUS
<1>1. Len(s) \in Nat /\ DOMAIN s = 1..Len(s) /\ \A n \in 1..Len(s) : s[n] \in D
  BY <1>0, SeqElements
<1>2. A \in X /\ PackedChars(A) = 0 BY AllEmpty, CountEmpty DEF PartPacking, PackedChars
<1>3. F \in [X \X D -> X] /\ \A a \in X, b \in D : F[<<a, b>>] = PackPart(target, count, a, b)
  BY PackPartKeepsAll
<1>4. M \in [X -> Int] /\ m \in [D -> Int]
  <2>1. \A a \in X : PackedChars(a) \in Int BY AllWeighs, CountWeighs DEF PartPacking, PackedChars
  <2> QED BY <2>1, CharsOfType
<1>5. M[A] = 0 BY <1>2
<1>6. ASSUME NEW a \in X, NEW b \in D PROVE M[F[<<a, b>>]] = M[a] + m[b]
  <2>1. PackPart(target, count, a, b) \in X /\ PackedChars(PackPart(target, count, a, b)) = PackedChars(a) + m[b]
    BY PackPartKeepsAll
  <2> QED BY <1>3, <2>1
<1>7. \A a \in X : M[a] = PackedChars(a) OBVIOUS
<1> HIDE DEF F, X, D, M, m
<1>8. PICK f \in [SUBSET (1..Len(s)) -> X] : FoldTable(f, s, A, F)
  <2> HIDE DEF A
  <2> QED BY <1>0, <1>2, <1>3, FoldExists
<1>9. ASSUME NEW S \in SUBSET (1..Len(s)), S # {}
      PROVE  Max(S) \in 1..Len(s) /\ S \ {Max(S)} \in SUBSET (1..Len(s))
  BY <1>1, <1>9, MaxOfBounded
<1>10. f = [S \in SUBSET (1..Len(s)) |->
              IF S = {} THEN A ELSE PackPart(target, count, f[S \ {Max(S)}], s[Max(S)])]
  <2>1. ASSUME NEW S \in SUBSET (1..Len(s)), S # {}
        PROVE  F[<<f[S \ {Max(S)}], s[Max(S)]>>] = PackPart(target, count, f[S \ {Max(S)}], s[Max(S)])
    BY <1>1, <1>3, <1>9, <2>1
  <2> QED BY <1>8, <2>1 DEF FoldTable
<1>11. PICK h : /\ h = [S \in SUBSET (1..Len(s)) |->
                          IF S = {} THEN A ELSE PackPart(target, count, h[S \ {Max(S)}], s[Max(S)])]
                /\ end = h[1..Len(s)]
  BY <1>1, <1>10, Zenon DEF FoldLeft, MapThenFoldSet
<1> HIDE DEF A, end
<1>12. h[{}] = A BY <1>11
<1>13. ASSUME NEW S \in SUBSET (1..Len(s)), S # {}, h[S \ {Max(S)}] \in X
       PROVE  h[S] = F[<<h[S \ {Max(S)}], s[Max(S)]>>]
  <2>1. F[<<h[S \ {Max(S)}], s[Max(S)]>>] = PackPart(target, count, h[S \ {Max(S)}], s[Max(S)])
    BY <1>1, <1>3, <1>9, <1>13
  <2> QED BY <1>11, <1>13, <2>1
<1>14. FoldsLike(h, s, A, F, X) BY <1>12, <1>13 DEF FoldsLike
<1>15. h[1..Len(s)] \in X /\ M[h[1..Len(s)]] = Weigh(m, s)
  <2>1. Adds(F, A, M, m, X, D) BY <1>2, <1>3, <1>4, <1>5, <1>6 DEF Adds
  <2> QED BY <1>0, <1>14, <2>1, FoldWeighs
<1>16. end \in X /\ PackedChars(end) = CountAll(s)
  BY <1>7, <1>11, <1>15, AllWeighs DEF m
<1> QED BY <1>16 DEF end, A, X, SharePackingOf

(* The loop of merge_tiny_islands.                                         *)
LEMMA MergeTinyKeepsAll ==
  ASSUME NEW a \in Seq(Texts), NEW g \in Texts
  PROVE  /\ MergeTiny(a, g) \in Seq(Texts) /\ MergeTiny(a, g) # <<>>
         /\ CountAll(MergeTiny(a, g)) = CountAll(a) + CharsOf[g]
<1>1. CharsOf[g] = CountChars(g) /\ CountChars(g) \in Nat BY CountWeighs DEF CharsOf
<1>2. CASE a = <<>>
  <2>1. MergeTiny(a, g) = <<g>> BY <1>2 DEF MergeTiny
  <2>2. <<g>> \in Seq(Texts) /\ CountAll(<<g>>) = CountChars(g) BY AllOne
  <2>3. CountAll(a) = 0 /\ <<g>> # <<>> BY <1>2, AllEmpty
  <2> QED BY <1>1, <2>1, <2>2, <2>3
<1>3. CASE a # <<>> /\ MergeTiny(a, g) = AppendToLast(a, g)
  <2>1. /\ AppendToLast(a, g) \in Seq(Texts) /\ Len(AppendToLast(a, g)) = Len(a)
        /\ CountAll(AppendToLast(a, g)) = CountAll(a) + CountChars(g)
    BY <1>3, AppendToLastKeepsAll
  <2>2. AppendToLast(a, g) # <<>> BY <2>1, <1>3
  <2> QED BY <1>1, <1>3, <2>1, <2>2
<1>4. CASE a # <<>> /\ MergeTiny(a, g) = Append(a, g)
  <2>1. Append(a, g) # <<>>
    <3> DEFINE T == Texts
    <3>1. a \in Seq(T) /\ g \in T OBVIOUS
    <3> HIDE DEF T
    <3> QED BY <3>1
  <2> QED BY <1>1, <1>4, <2>1, AllAppend
<1>5. a # <<>> => MergeTiny(a, g) = AppendToLast(a, g) \/ MergeTiny(a, g) = Append(a, g)
  BY DEF MergeTiny
<1> QED BY <1>2, <1>3, <1>4, <1>5

LEMMA MergingLoop ==
  ASSUME NEW s \in Seq(Texts)
  PROVE  MergeTinyIslands(s) \in Seq(Texts) /\ CountAll(MergeTinyIslands(s)) = CountAll(s)
<1> DEFINE D == Texts
           X == Seq(Texts)
           A == <<>>
           F == [p \in X \X D |-> MergeTiny(p[1], p[2])]
           M == [a \in X |-> CountAll(a)]
           m == CharsOf
           end == FoldLeft(MergeTiny, A, s)
<1>0. s \in Seq(D) OBVIOUS
<1>1. Len(s) \in Nat /\ DOMAIN s = 1..Len(s) /\ \A n \in 1..Len(s) : s[n] \in D
  BY <1>0, SeqElements
<1>2. A \in X /\ CountAll(A) = 0 BY AllEmpty, CountEmpty 
<1>3. F \in [X \X D -> X] /\ \A a \in X, b \in D : F[<<a, b>>] = MergeTiny(a, b)
  BY MergeTinyKeepsAll
<1>4. M \in [X -> Int] /\ m \in [D -> Int]
  <2>1. \A a \in X : CountAll(a) \in Int BY AllWeighs, CountWeighs 
  <2> QED BY <2>1, CharsOfType
<1>5. M[A] = 0 BY <1>2
<1>6. ASSUME NEW a \in X, NEW b \in D PROVE M[F[<<a, b>>]] = M[a] + m[b]
  <2>1. MergeTiny(a, b) \in X /\ CountAll(MergeTiny(a, b)) = CountAll(a) + m[b]
    BY MergeTinyKeepsAll
  <2> QED BY <1>3, <2>1
<1>7. \A a \in X : M[a] = CountAll(a) OBVIOUS
<1> HIDE DEF F, X, D, M, m
<1>8. PICK f \in [SUBSET (1..Len(s)) -> X] : FoldTable(f, s, A, F)
  <2> HIDE DEF A
  <2> QED BY <1>0, <1>2, <1>3, FoldExists
<1>9. ASSUME NEW S \in SUBSET (1..Len(s)), S # {}
      PROVE  Max(S) \in 1..Len(s) /\ S \ {Max(S)} \in SUBSET (1..Len(s))
  BY <1>1, <1>9, MaxOfBounded
<1>10. f = [S \in SUBSET (1..Len(s)) |->
              IF S = {} THEN A ELSE MergeTiny(f[S \ {Max(S)}], s[Max(S)])]
  <2>1. ASSUME NEW S \in SUBSET (1..Len(s)), S # {}
        PROVE  F[<<f[S \ {Max(S)}], s[Max(S)]>>] = MergeTiny(f[S \ {Max(S)}], s[Max(S)])
    BY <1>1, <1>3, <1>9, <2>1
  <2> QED BY <1>8, <2>1 DEF FoldTable
<1>11. PICK h : /\ h = [S \in SUBSET (1..Len(s)) |->
                          IF S = {} THEN A ELSE MergeTiny(h[S \ {Max(S)}], s[Max(S)])]
                /\ end = h[1..Len(s)]
  BY <1>1, <1>10, Zenon DEF FoldLeft, MapThenFoldSet
<1> HIDE DEF A, end
<1>12. h[{}] = A BY <1>11
<1>13. ASSUME NEW S \in SUBSET (1..Len(s)), S # {}, h[S \ {Max(S)}] \in X
       PROVE  h[S] = F[<<h[S \ {Max(S)}], s[Max(S)]>>]
  <2>1. F[<<h[S \ {Max(S)}], s[Max(S)]>>] = MergeTiny(h[S \ {Max(S)}], s[Max(S)])
    BY <1>1, <1>3, <1>9, <1>13
  <2> QED BY <1>11, <1>13, <2>1
<1>14. FoldsLike(h, s, A, F, X) BY <1>12, <1>13 DEF FoldsLike
<1>15. h[1..Len(s)] \in X /\ M[h[1..Len(s)]] = Weigh(m, s)
  <2>1. Adds(F, A, M, m, X, D) BY <1>2, <1>3, <1>4, <1>5, <1>6 DEF Adds
  <2> QED BY <1>0, <1>14, <2>1, FoldWeighs
<1>16. end \in X /\ CountAll(end) = CountAll(s)
  BY <1>7, <1>11, <1>15, AllWeighs DEF m
<1> QED BY <1>16 DEF end, A, X, MergeTinyIslands

(* pack_short_groups keeps every character.                                *)
LEMMA PackShortGroupsKeepsAll ==
  ASSUME NEW s \in Seq(Texts), NEW minChars \in Nat
  PROVE  /\ PackShortGroups(s, minChars) \in Seq(Texts)
         /\ CountAll(PackShortGroups(s, minChars)) = CountAll(s)
<1> DEFINE out == ShortPackingOf(minChars, s)
<1>1. out \in PartPacking /\ PackedChars(out) = CountAll(s) BY ShortPackingLoop
<1>2. PackShortGroups(s, minChars)
        = IF Len(s) <= 1 \/ minChars = 0 THEN s
          ELSE IF out.open = <<>> THEN out.packed
          ELSE IF out.packed # <<>> THEN AppendToLast(out.packed, out.open)
          ELSE <<out.open>>
  BY DEF PackShortGroups, ShortPackingOf
<1> HIDE DEF out
<1>3. out.packed \in Seq(Texts) /\ out.open \in Texts BY <1>1 DEF PartPacking
<1>4. CountAll(out.packed) + CountChars(out.open) = CountAll(s) BY <1>1 DEF PackedChars
<1>5. CountAll(out.packed) \in Nat /\ CountChars(out.open) \in Nat
  BY <1>3, AllWeighs, CountWeighs
<1> DEFINE r == PackShortGroups(s, minChars)
<1>6. r \in {s, out.packed, AppendToLast(out.packed, out.open), <<out.open>>}
      /\ (r # s => \/ out.open = <<>> /\ r = out.packed
                   \/ out.packed # <<>> /\ r = AppendToLast(out.packed, out.open)
                   \/ out.packed = <<>> /\ r = <<out.open>>)
  BY <1>2
<1> HIDE DEF r
<1>7. CASE r = s BY <1>7 DEF r
<1>8. CASE out.open = <<>> /\ r = out.packed
  <2>1. CountChars(out.open) = 0 BY <1>8, CountEmpty
  <2> QED BY <2>1, <1>3, <1>4, <1>5, <1>8 DEF r
<1>9. CASE out.packed # <<>> /\ r = AppendToLast(out.packed, out.open)
  BY <1>3, <1>4, <1>9, AppendToLastKeepsAll DEF r
<1>10. CASE out.packed = <<>> /\ r = <<out.open>>
  <2>1. CountAll(out.packed) = 0 BY <1>10, AllEmpty
  <2>2. <<out.open>> \in Seq(Texts) /\ CountAll(<<out.open>>) = CountChars(out.open)
    BY <1>3, AllOne
  <2> QED BY <2>1, <2>2, <1>4, <1>5, <1>10 DEF r
<1> QED BY <1>6, <1>7, <1>8, <1>9, <1>10

(* pack_to_part_count keeps every character.                               *)
LEMMA PackToPartCountKeepsAll ==
  ASSUME NEW s \in Seq(Texts), NEW count
  PROVE  /\ PackToPartCount(s, count) \in Seq(Texts)
         /\ CountAll(PackToPartCount(s, count)) = CountAll(s)
<1> DEFINE target == LargerOf(1, CeilDiv(CountAll(s), count))
           out == SharePackingOf(target, count, s)
<1>1. out \in PartPacking /\ PackedChars(out) = CountAll(s) BY SharePackingLoop
<1>2. PackToPartCount(s, count)
        = IF Len(s) <= count THEN s
          ELSE IF out.open = <<>> THEN out.packed ELSE Append(out.packed, out.open)
  BY DEF PackToPartCount, SharePackingOf
<1> HIDE DEF out, target
<1>3. out.packed \in Seq(Texts) /\ out.open \in Texts BY <1>1 DEF PartPacking
<1>4. CountAll(out.packed) + CountChars(out.open) = CountAll(s) BY <1>1 DEF PackedChars
<1>5. CountAll(out.packed) \in Nat /\ CountChars(out.open) \in Nat
  BY <1>3, AllWeighs, CountWeighs
<1> DEFINE r == PackToPartCount(s, count)
<1>6. \/ r = s
      \/ out.open = <<>> /\ r = out.packed
      \/ r = Append(out.packed, out.open)
  BY <1>2
<1> HIDE DEF r
<1>7. CASE r = s BY <1>7 DEF r
<1>8. CASE out.open = <<>> /\ r = out.packed
  <2>1. CountChars(out.open) = 0 BY <1>8, CountEmpty
  <2> QED BY <2>1, <1>3, <1>4, <1>5, <1>8 DEF r
<1>9. CASE r = Append(out.packed, out.open)
  BY <1>3, <1>4, <1>9, AllAppend DEF r
<1> QED BY <1>6, <1>7, <1>8, <1>9

(***************************************************************************)
(* Cutting a text in two                                                   *)
(***************************************************************************)

LEMMA PrefixStep ==
  ASSUME NEW D, NEW s \in Seq(D), NEW n \in 1..Len(s)
  PROVE  /\ SubSeq(s, 1, n - 1) \in Seq(D) /\ SubSeq(s, 1, n) \in Seq(D) /\ s[n] \in D
         /\ SubSeq(s, 1, n) = Append(SubSeq(s, 1, n - 1), s[n])
<1>0. Len(s) \in Nat BY LenProperties
<1> QED BY <1>0

LEMMA PrefixAndSuffix ==
  ASSUME NEW D, NEW s \in Seq(D), NEW n \in 0..Len(s)
  PROVE  /\ SubSeq(s, 1, n) \in Seq(D) /\ SubSeq(s, n + 1, Len(s)) \in Seq(D)
         /\ Len(SubSeq(s, n + 1, Len(s))) = Len(s) - n
         /\ s = SubSeq(s, 1, n) \o SubSeq(s, n + 1, Len(s))
<1>0. Len(s) \in Nat /\ n \in Nat BY LenProperties
<1> DEFINE a == SubSeq(s, 1, n)
           b == SubSeq(s, n + 1, Len(s))
<1>1. a \in Seq(D) /\ Len(a) = n /\ \A i \in 1..n : a[i] = s[i] BY <1>0
<1>2. b \in Seq(D) /\ Len(b) = Len(s) - n /\ \A i \in 1..(Len(s) - n) : b[i] = s[n + i] BY <1>0
<1> HIDE DEF a, b
<1>3. a \o b \in Seq(D) /\ Len(a \o b) = Len(s) BY <1>0, <1>1, <1>2
<1>4. ASSUME NEW i \in 1..Len(s) PROVE (a \o b)[i] = s[i]
  <2>1. CASE i \in 1..n BY <2>1, <1>0, <1>1, <1>2
  <2>2. CASE i \notin 1..n
    <3>1. i - n \in 1..(Len(s) - n) /\ n + (i - n) = i BY <2>2, <1>0
    <3>2. (a \o b)[i] = b[i - n] BY <2>2, <1>0, <1>1, <1>2
    <3> QED BY <3>1, <3>2, <1>2
  <2> QED BY <2>1, <2>2
<1>5. s = a \o b BY <1>3, <1>4, SeqEqual
<1> QED BY <1>1, <1>2, <1>5 DEF a, b

(* The characters before a clause grow clause by clause.                   *)
LEMMA CharsBeforeSteps ==
  ASSUME NEW text \in Texts
  PROVE  /\ Len(text) \in Nat
         /\ CharsBefore(text, 1) = 0
         /\ CharsBefore(text, Len(text) + 1) = CountChars(text)
         /\ \A i \in 1..Len(text) :
               /\ CharsBefore(text, i) \in Nat /\ text[i] \in Clause
               /\ CharsBefore(text, i + 1) = CharsBefore(text, i) + text[i].n
<1>0. text \in Seq(Clause) BY TextsAreSequences
<1>1. Len(text) \in Nat BY <1>0, LenProperties
<1>2. CharsBefore(text, 1) = 0
  <2>1. SubSeq(text, 1, 1 - 1) = <<>> BY SubSeqEmpty, 0 \in Int, 1 \in Int, 0 < 1, 1 - 1 = 0, Zenon
  <2> QED BY <2>1, CountEmpty DEF CharsBefore
<1>3. CharsBefore(text, Len(text) + 1) = CountChars(text)
  <2>1. (Len(text) + 1) - 1 = Len(text) BY <1>1
  <2>2. SubSeq(text, 1, Len(text)) = text BY <1>0, SubSeqFull, Zenon
  <2> QED BY <2>1, <2>2 DEF CharsBefore
<1>4. ASSUME NEW i \in 1..Len(text)
      PROVE  /\ CharsBefore(text, i) \in Nat /\ text[i] \in Clause
             /\ CharsBefore(text, i + 1) = CharsBefore(text, i) + text[i].n
  <2>1. /\ SubSeq(text, 1, i - 1) \in Seq(Clause) /\ text[i] \in Clause
        /\ SubSeq(text, 1, i) = Append(SubSeq(text, 1, i - 1), text[i])
    BY <1>0, PrefixStep
  <2>2. SubSeq(text, 1, i - 1) \in Texts BY <2>1, TextsAreSequences
  <2>3. CountChars(SubSeq(text, 1, i)) = CountChars(SubSeq(text, 1, i - 1)) + text[i].n
    BY <2>1, <2>2, CountAppend
  <2>4. (i + 1) - 1 = i OBVIOUS
  <2> QED BY <2>1, <2>2, <2>3, <2>4, CountWeighs DEF CharsBefore
<1> QED BY <1>1, <1>2, <1>3, <1>4

(* A cut inside a text lies in one of its clauses.                         *)
LEMMA ClauseAtHoldsTheCut ==
  ASSUME NEW text \in Texts, NEW cut \in 1..CountChars(text)
  PROVE  /\ ClauseAt(text, cut) \in 1..Len(text)
         /\ CharsBefore(text, ClauseAt(text, cut)) < cut
         /\ cut <= CharsBefore(text, ClauseAt(text, cut)) + text[ClauseAt(text, cut)].n
<1> DEFINE P(i) == /\ CharsBefore(text, i) < cut
                   /\ cut <= CharsBefore(text, i) + text[i].n
           T == {i \in 1..Len(text) : cut <= CharsBefore(text, i + 1)}
<1>0. /\ Len(text) \in Nat /\ CountChars(text) \in Nat /\ DOMAIN text = 1..Len(text)
      /\ cut \in Nat /\ cut > 0 /\ cut <= CountChars(text)
  <2>1. DOMAIN text = 1..Len(text) BY TextsAreSequences, SeqElements
  <2>2. CountChars(text) \in Nat BY CountWeighs
  <2> QED BY <2>1, <2>2, CharsBeforeSteps
<1>1. /\ CharsBefore(text, 1) = 0
      /\ CharsBefore(text, Len(text) + 1) = CountChars(text)
      /\ \A i \in 1..Len(text) :
            /\ CharsBefore(text, i) \in Nat /\ text[i] \in Clause
            /\ CharsBefore(text, i + 1) = CharsBefore(text, i) + text[i].n
  BY CharsBeforeSteps
<1>2. Len(text) \in T
  <2>1. text # <<>> BY <1>0, CountEmpty
  <2>2. Len(text) # 0 BY <2>1, TextsAreSequences
  <2> QED BY <2>2, <1>0, <1>1
<1>3. PICK i \in T : \A j \in T : i <= j
  <2>1. T \subseteq Nat /\ T # {} BY <1>2
  <2> HIDE DEF T
  <2> QED BY <2>1, LeastNumber
<1>4. CharsBefore(text, i) < cut
  <2>1. CASE i = 1 BY <2>1, <1>0, <1>1
  <2>2. CASE i # 1
    <3>1. i - 1 \in 1..Len(text) /\ (i - 1) + 1 = i BY <2>2, <1>0
    <3>2. i - 1 \notin T
      <4>1. ~(i <= i - 1) BY <1>0
      <4> HIDE DEF T
      <4> QED BY <4>1, <1>3
    <3>3. ~(cut <= CharsBefore(text, i)) BY <3>1, <3>2
    <3> QED BY <3>3, <1>0, <1>1
  <2> QED BY <2>1, <2>2
<1>5. i \in DOMAIN text /\ P(i) BY <1>0, <1>1, <1>3, <1>4
<1> HIDE DEF P
<1>6. ClauseAt(text, cut) = CHOOSE k \in DOMAIN text : P(k) BY DEF ClauseAt, P
<1>7. ClauseAt(text, cut) \in DOMAIN text /\ P(ClauseAt(text, cut)) BY <1>5, <1>6
<1> QED BY <1>0, <1>7 DEF P

(* What stands left of a cut has as many characters as the cut says; of    *)
(* the right side, which has the rest, the next lemma speaks.              *)
LEMMA LeftOfText ==
  ASSUME NEW text \in Texts, NEW cut \in 1..CountChars(text)
  PROVE  LeftOf(text, cut) \in Texts /\ CountChars(LeftOf(text, cut)) = cut
<1> DEFINE at == ClauseAt(text, cut)
           inside == cut - CharsBefore(text, at)
           end == IF inside = text[at].n THEN text[at].end ELSE "none"
           before == SubSeq(text, 1, at - 1)
           c == [n |-> inside, end |-> end]
<1>1. LeftOf(text, cut) = Append(before, c) BY DEF LeftOf, LeftAt
<1>2. /\ at \in 1..Len(text) /\ CharsBefore(text, at) < cut
      /\ cut <= CharsBefore(text, at) + text[at].n
  BY ClauseAtHoldsTheCut
<1>3. CharsBefore(text, at) \in Nat /\ text[at] \in Clause
  <2> HIDE DEF at
  <2> QED BY <1>2, CharsBeforeSteps
<1>4. before \in Texts /\ CountChars(before) = CharsBefore(text, at)
  <2>1. text \in Seq(Clause) BY TextsAreSequences
  <2> HIDE DEF at
  <2>2. before \in Seq(Clause) BY <2>1, <1>2, PrefixStep
  <2>3. before \in Texts BY <2>2, TextsAreSequences
  <2> QED BY <2>3 DEF CharsBefore
<1>5. cut \in Nat BY CountWeighs
<1> HIDE DEF at
<1>6. inside \in Nat \ {0} BY <1>2, <1>3, <1>5
<1>7. c \in Clause /\ c.n = inside BY <1>3, <1>6 DEF Clause
<1> HIDE DEF before, c
<1>8. /\ Append(before, c) \in Texts
      /\ CountChars(Append(before, c)) = CountChars(before) + inside
  BY <1>4, <1>7, CountAppend
<1> QED BY <1>1, <1>3, <1>4, <1>5, <1>6, <1>8

LEMMA RightOfText ==
  ASSUME NEW text \in Texts, NEW cut \in 1..CountChars(text)
  PROVE  RightOf(text, cut) \in Texts /\ CountChars(RightOf(text, cut)) = CountChars(text) - cut
<1> DEFINE at == ClauseAt(text, cut)
           inside == cut - CharsBefore(text, at)
           rest == SubSeq(text, at + 1, Len(text))
           c == [n |-> text[at].n - inside, end |-> text[at].end]
<1>1. RightOf(text, cut) = IF inside = text[at].n THEN rest ELSE <<c>> \o rest
  BY DEF RightOf, RightAt
<1>2. /\ at \in 1..Len(text) /\ CharsBefore(text, at) < cut
      /\ cut <= CharsBefore(text, at) + text[at].n
  BY ClauseAtHoldsTheCut
<1> HIDE DEF at
<1>3. /\ CharsBefore(text, at) \in Nat /\ text[at] \in Clause
      /\ CharsBefore(text, at + 1) = CharsBefore(text, at) + text[at].n
      /\ Len(text) \in Nat
  BY <1>2, CharsBeforeSteps
<1>4. /\ rest \in Texts
      /\ CountChars(text) = CharsBefore(text, at + 1) + CountChars(rest)
  <2>1. text \in Seq(Clause) /\ at \in 0..Len(text) BY TextsAreSequences, <1>2, <1>3
  <2>2. /\ SubSeq(text, 1, at) \in Seq(Clause) /\ rest \in Seq(Clause)
        /\ text = SubSeq(text, 1, at) \o rest
    BY <2>1, PrefixAndSuffix
  <2>3. SubSeq(text, 1, at) \in Texts /\ rest \in Texts BY <2>2, TextsAreSequences
  <2>4. CountChars(text) = CountChars(SubSeq(text, 1, at)) + CountChars(rest)
    <3> HIDE DEF rest
    <3> QED BY <2>2, <2>3, CountConcat
  <2>5. (at + 1) - 1 = at BY <1>2
  <2> QED BY <2>3, <2>4, <2>5 DEF CharsBefore
<1>5. cut \in Nat /\ CountChars(text) \in Nat /\ CountChars(rest) \in Nat
  BY <1>4, CountWeighs
<1> HIDE DEF rest
<1>6. inside \in Nat /\ text[at].n \in Nat /\ text[at].n >= inside
      /\ text[at].end \in {"hard", "soft", "none"}
  BY <1>2, <1>3, <1>5 DEF Clause
<1>7. CASE inside = text[at].n
  BY <1>1, <1>3, <1>4, <1>5, <1>7
<1>8. CASE inside # text[at].n
  <2>1. text[at].n - inside \in Nat \ {0} BY <1>6, <1>8
  <2>2. c \in Clause /\ c.n = text[at].n - inside BY <1>6, <2>1 DEF Clause
  <2> HIDE DEF c
  <2>3. <<c>> \in Texts /\ CountChars(<<c>>) = text[at].n - inside BY <2>2, CountOne
  <2>4. /\ <<c>> \o rest \in Texts
        /\ CountChars(<<c>> \o rest) = (text[at].n - inside) + CountChars(rest)
    BY <2>3, <1>4, CountConcat
  <2>5. (text[at].n - inside) + CountChars(rest) = CountChars(text) - cut
    BY <1>3, <1>4, <1>5, <1>6, SMTT(30)
  <2> QED BY <1>1, <1>8, <2>4, <2>5
<1> QED BY <1>7, <1>8

(* choose_safe_split_index cuts inside the text, whichever candidates the  *)
(* scores prefer.                                                          *)
LEMMA CutInside ==
  ASSUME NEW text \in Texts, NEW wanted \in Nat, CountChars(text) >= 2
  PROVE  ChooseSplitIndex(text, wanted) \in 1..(CountChars(text) - 1)
<1> DEFINE len     == CountChars(text)
           desired == LargerOf(1, SmallerOf(wanted, len - 1))
           near    == CutWindow(len, desired)
           cuts    == IF near = {} THEN 1..(len - 1) ELSE near
           marks   == Boundaries(text)
           score   == [c \in cuts |-> SplitIndexScore(c, desired, marks)]
           P(c)    == \A d \in cuts :
                         IF d < c THEN score[c] < score[d] ELSE score[c] <= score[d]
           R       == {p \in cuts \X cuts : score[p[1]] < score[p[2]]}
<1>1. ChooseSplitIndex(text, wanted) = CHOOSE c \in cuts : P(c)
  BY DEF ChooseSplitIndex, LowestCut
<1>2. len \in Nat /\ len >= 2 BY CountWeighs
<1> HIDE DEF len, marks
<1>3. desired \in 1..(len - 1) BY <1>2 DEF LargerOf, SmallerOf
<1> HIDE DEF desired
<1>4. near \subseteq 1..(len - 1)
  <2> DEFINE window == LargerOf(8, SmallerOf(30, CeilDiv(len, 4)))
             side == LargerOf(1, SmallerOf(8, len \div 5))
  <2>1. near = LargerOf(side, desired - window)..SmallerOf(len - side, desired + window)
    BY DEF CutWindow
  <2>2. side \in Nat /\ side >= 1
    <3> DEFINE q == len \div 5
    <3>1. q \in Nat BY <1>2
    <3> HIDE DEF q
    <3>2. LargerOf(1, SmallerOf(8, q)) \in Nat /\ LargerOf(1, SmallerOf(8, q)) >= 1
      BY <3>1 DEF LargerOf, SmallerOf
    <3> QED BY <3>2 DEF q
  <2>3. window \in Nat
    <3> DEFINE q == CeilDiv(len, 4)
    <3>1. q \in Nat BY <1>2 DEF CeilDiv
    <3> HIDE DEF q
    <3>2. LargerOf(8, SmallerOf(30, q)) \in Nat BY <3>1 DEF LargerOf, SmallerOf
    <3> QED BY <3>2 DEF q
  <2> HIDE DEF window, side
  <2>4. desired \in Nat BY <1>3
  <2>5. LargerOf(side, desired - window) \in Nat /\ LargerOf(side, desired - window) >= 1
        /\ SmallerOf(len - side, desired + window) \in Int
        /\ SmallerOf(len - side, desired + window) <= len - 1
    BY <1>2, <2>2, <2>3, <2>4 DEF LargerOf, SmallerOf
  <2> QED BY <1>2, <2>1, <2>5
<1>5. cuts \subseteq 1..(len - 1) /\ cuts # {}
  <2>1. 1 \in 1..(len - 1) BY <1>2
  <2> QED BY <1>4, <2>1
<1> HIDE DEF near, cuts
<1>6. \A c \in cuts : score[c] \in Int
  <2> SUFFICES ASSUME NEW c \in cuts PROVE SplitIndexScore(c, desired, marks) \in Int
    OBVIOUS
  <2>1. c \in Int /\ desired \in Int BY <1>3, <1>5
  <2> QED BY <2>1 DEF SplitIndexScore
<1> HIDE DEF score
<1>7. \A c, d \in cuts : <<c, d>> \in R <=> score[c] < score[d] OBVIOUS
<1>8. Orders(R, cuts)
  <2> HIDE DEF R
  <2> QED BY <1>6, <1>7 DEF Orders
<1> HIDE DEF R
<1>9. PICK c \in cuts : Leads(c, cuts, R)
  <2>1. cuts \subseteq 0..len BY <1>2, <1>5
  <2> QED BY <1>2, <1>5, <1>8, <2>1, FirstOfBest
<1>10. P(c)
  <2> SUFFICES ASSUME NEW d \in cuts
               PROVE  IF d < c THEN score[c] < score[d] ELSE score[c] <= score[d]
    OBVIOUS
  <2>1. CASE d < c BY <2>1, <1>7, <1>9 DEF Leads
  <2>2. CASE ~(d < c)
    <3>1. ~(score[d] < score[c]) BY <2>2, <1>7, <1>9 DEF Leads
    <3>2. score[c] \in Int /\ score[d] \in Int BY <1>6
    <3>3. score[c] <= score[d] BY <3>1, <3>2
    <3> QED BY <2>2, <3>3
  <2> QED BY <2>1, <2>2
<1> HIDE DEF P
<1>11. (CHOOSE k \in cuts : P(k)) \in cuts BY <1>10
<1> QED BY <1>1, <1>5, <1>11 DEF len

(* What is left of the text from a cut on.                                 *)
LEMMA RestFromText ==
  ASSUME NEW text \in Texts, NEW start \in 0..CountChars(text)
  PROVE  /\ RestFrom(text, start) \in Texts
         /\ CountChars(RestFrom(text, start)) = CountChars(text) - start
<1>1. CountChars(text) \in Nat BY CountWeighs
<1>2. CASE start = 0 BY <1>1, <1>2 DEF RestFrom
<1>3. CASE start # 0
  <2>1. start \in 1..CountChars(text) BY <1>1, <1>3
  <2> QED BY <1>3, <2>1, RightOfText DEF RestFrom
<1> QED BY <1>2, <1>3

ChunkAt(text, maxChars, chunks, start) ==
    LET rest == RestFrom(text, start)
        cut  == ChooseSplitIndex(rest, maxChars)
    IN  IF CountChars(rest) <= maxChars THEN <<rest>>
        ELSE <<LeftOf(rest, cut)>> \o chunks[start + cut]

ChunkTable(text, maxChars, chunks) ==
    chunks = [start \in 0..CountChars(text) |-> ChunkAt(text, maxChars, chunks, start)]

(* A longer rest is cut inside.                                            *)
LEMMA NextStart ==
  ASSUME NEW text \in Texts, NEW maxChars \in Nat \ {0}, NEW start \in 0..CountChars(text),
         ~(CountChars(RestFrom(text, start)) <= maxChars)
  PROVE  LET cut == ChooseSplitIndex(RestFrom(text, start), maxChars) IN
         /\ cut \in 1..CountChars(RestFrom(text, start))
         /\ start + cut \in (start + 1)..CountChars(text)
<1> DEFINE rest == RestFrom(text, start)
           cut == ChooseSplitIndex(rest, maxChars)
<1>1. rest \in Texts /\ CountChars(rest) = CountChars(text) - start BY RestFromText
<1>2. CountChars(text) \in Nat BY CountWeighs
<1>3. ~(CountChars(rest) <= maxChars) OBVIOUS
<1> HIDE DEF rest
<1>4. CountChars(rest) >= 2 BY <1>1, <1>2, <1>3
<1>5. cut \in 1..(CountChars(rest) - 1) BY <1>1, <1>4, CutInside
<1> HIDE DEF cut
<1>6. cut \in 1..CountChars(rest) /\ start + cut \in (start + 1)..CountChars(text)
  BY <1>1, <1>2, <1>5
<1> QED BY <1>6 DEF cut, rest

LEMMA ChunkAtLooksAhead ==
  ASSUME NEW text \in Texts, NEW maxChars \in Nat \ {0}, NEW start \in 0..CountChars(text),
         NEW f, NEW g, \A i \in (start + 1)..CountChars(text) : f[i] = g[i]
  PROVE  ChunkAt(text, maxChars, f, start) = ChunkAt(text, maxChars, g, start)
<1>1. CASE CountChars(RestFrom(text, start)) <= maxChars BY <1>1 DEF ChunkAt
<1>2. CASE ~(CountChars(RestFrom(text, start)) <= maxChars)
  <2> DEFINE cut == ChooseSplitIndex(RestFrom(text, start), maxChars)
  <2>1. start + cut \in (start + 1)..CountChars(text) BY <1>2, NextStart
  <2>2. f[start + cut] = g[start + cut] BY <2>1
  <2> QED BY <1>2, <2>2 DEF ChunkAt
<1> QED BY <1>1, <1>2

(* The loop of split_long_run ends: every rest is shorter than the one     *)
(* before, so the recursive function of the chunks has a value from every  *)
(* start.                                                                  *)
LEMMA ChunksExist ==
  ASSUME NEW text \in Texts, NEW maxChars \in Nat \ {0}
  PROVE  \E chunks : ChunkTable(text, maxChars, chunks)
<1> DEFINE N == CountChars(text)
           Good(f, k) == \A i \in (N - k)..N : f[i] = ChunkAt(text, maxChars, f, i)
           T == {k \in 0..N : \E f : Good(f, k)}
<1>0. N \in Nat BY CountWeighs
<1>1. ASSUME NEW k \in 0..N, NEW f, k > 0 => Good(f, k - 1)
      PROVE  \E g : Good(g, k)
  <2> DEFINE g == [i \in (N - k)..N |->
                      IF i = N - k THEN ChunkAt(text, maxChars, f, i) ELSE f[i]]
  <2>1. ASSUME NEW i \in (N - k)..N
        PROVE  /\ i \in 0..N
               /\ \A j \in (i + 1)..N : j \in (N - k)..N /\ j # N - k
               /\ i # N - k => k > 0 /\ i \in (N - (k - 1))..N
    BY <1>0
  <2>2. ASSUME NEW i \in (N - k)..N PROVE g[i] = ChunkAt(text, maxChars, g, i)
    <3>1. \A j \in (i + 1)..N : f[j] = g[j] BY <2>1
    <3>2. g[i] = ChunkAt(text, maxChars, f, i)
      <4>1. CASE i = N - k BY <4>1
      <4>2. CASE i # N - k
        <5>1. f[i] = ChunkAt(text, maxChars, f, i) BY <4>2, <2>1, <1>1
        <5> QED BY <4>2, <5>1
      <4> QED BY <4>1, <4>2
    <3> HIDE DEF g
    <3>3. ChunkAt(text, maxChars, f, i) = ChunkAt(text, maxChars, g, i)
      BY <2>1, <3>1, ChunkAtLooksAhead
    <3> QED BY <3>2, <3>3
  <2>3. Good(g, k)
    <3> HIDE DEF g
    <3> QED BY <2>2
  <2> HIDE DEF g, Good
  <2> QED BY <2>3
<1>2. 0 \in T
  <2>1. 0 \in 0..N /\ ~(0 > 0) BY <1>0
  <2> HIDE DEF Good, N
  <2>2. \E g : Good(g, 0) BY <2>1, <1>1
  <2> QED BY <2>1, <2>2
<1>3. ASSUME NEW n \in 1..N, n - 1 \in T PROVE n \in T
  <2> HIDE DEF Good
  <2>1. PICK f : Good(f, n - 1) BY <1>3
  <2>2. n \in 0..N BY <1>0
  <2>3. \E g : Good(g, n) BY <1>1, <2>1, <2>2
  <2> QED BY <2>2, <2>3
<1>4. 0..N \subseteq T
  <2> HIDE DEF T, N
  <2> QED BY <1>0, <1>2, <1>3, InductionUpTo, Zenon
<1>5. N \in T
  <2> HIDE DEF T
  <2> QED BY <1>0, <1>4
<1>6. PICK f : \A i \in 0..N : f[i] = ChunkAt(text, maxChars, f, i)
  <2>1. N - N = 0 BY <1>0
  <2> QED BY <1>5, <2>1
<1> DEFINE g == [i \in 0..N |-> f[i]]
<1>7. ASSUME NEW i \in 0..N PROVE g[i] = ChunkAt(text, maxChars, g, i)
  <2>1. \A j \in (i + 1)..N : j \in 0..N BY <1>0
  <2>2. \A j \in (i + 1)..N : f[j] = g[j] BY <2>1
  <2>3. g[i] = f[i] OBVIOUS
  <2> HIDE DEF g
  <2>4. ChunkAt(text, maxChars, f, i) = ChunkAt(text, maxChars, g, i)
    BY <2>2, ChunkAtLooksAhead
  <2> QED BY <1>6, <2>3, <2>4
<1>8. g = [i \in 0..N |-> ChunkAt(text, maxChars, g, i)]
  <2>1. g = [i \in 0..N |-> g[i]] OBVIOUS
  <2> HIDE DEF g
  <2> QED BY <1>7, <2>1
<1>9. ChunkTable(text, maxChars, g)
  <2> HIDE DEF g
  <2> QED BY <1>8 DEF ChunkTable
<1> QED BY <1>9

(* The parts of a cut hold the characters of the text.                     *)
KeepsText(parts, text) == parts \in Seq(Texts) /\ CountAll(parts) = CountChars(text)

(* The chunks from every start hold the rest of the text.                  *)
LEMMA ChunksKeepText ==
  ASSUME NEW text \in Texts, NEW maxChars \in Nat \ {0}
  PROVE  KeepsText(ChunksFrom(text, maxChars)[0], text)
<1> DEFINE N == CountChars(text)
<1>0. N \in Nat BY CountWeighs
<1>1. PICK h : ChunkTable(text, maxChars, h) /\ ChunksFrom(text, maxChars) = h
  <2>1. PICK f : ChunkTable(text, maxChars, f) BY ChunksExist
  <2> QED BY <2>1, Zenon DEF ChunksFrom, ChunkTable, ChunkAt
<1>2. \A i \in 0..N : h[i] = ChunkAt(text, maxChars, h, i) BY <1>1 DEF ChunkTable
<1> DEFINE Good(i) == h[i] \in Seq(Texts) /\ CountAll(h[i]) = N - i
           T == {k \in 0..N : ~Good(N - k)}
<1>3. ASSUME NEW i \in 0..N, \A j \in (i + 1)..N : Good(j)
      PROVE  Good(i)
  <2> DEFINE rest == RestFrom(text, i)
             cut  == ChooseSplitIndex(rest, maxChars)
  <2>1. rest \in Texts /\ CountChars(rest) = N - i BY RestFromText
  <2>2. h[i] = IF CountChars(rest) <= maxChars THEN <<rest>>
               ELSE <<LeftOf(rest, cut)>> \o h[i + cut]
    BY <1>2 DEF ChunkAt
  <2>3. CASE CountChars(rest) <= maxChars
    <3>1. h[i] = <<rest>> BY <2>2, <2>3
    <3> HIDE DEF rest, N
    <3> QED BY <2>1, <3>1, AllOne
  <2>4. CASE ~(CountChars(rest) <= maxChars)
    <3>1. cut \in 1..CountChars(rest) /\ i + cut \in (i + 1)..N BY <2>4, NextStart
    <3>2. Good(i + cut) BY <1>3, <3>1
    <3>3. h[i] = <<LeftOf(rest, cut)>> \o h[i + cut] BY <2>2, <2>4
    <3> HIDE DEF rest, cut, N
    <3>4. LeftOf(rest, cut) \in Texts /\ CountChars(LeftOf(rest, cut)) = cut
      BY <2>1, <3>1, LeftOfText
    <3>5. <<LeftOf(rest, cut)>> \in Seq(Texts) /\ CountAll(<<LeftOf(rest, cut)>>) = cut
      BY <3>4, AllOne
    <3>6. h[i + cut] \in Seq(Texts) /\ CountAll(h[i + cut]) = N - (i + cut) BY <3>2
    <3>7. /\ <<LeftOf(rest, cut)>> \o h[i + cut] \in Seq(Texts)
          /\ CountAll(<<LeftOf(rest, cut)>> \o h[i + cut]) = cut + (N - (i + cut))
      BY <3>5, <3>6, AllConcat
    <3>8. cut + (N - (i + cut)) = N - i BY <1>0, <2>1, <3>1
    <3> QED BY <3>3, <3>7, <3>8
  <2> QED BY <2>3, <2>4
<1> HIDE DEF Good
<1>4. T = {}
  <2> SUFFICES ASSUME T # {} PROVE FALSE OBVIOUS
  <2>1. PICK k \in T : \A m \in T : k <= m
    <3>1. T \subseteq Nat BY <1>0
    <3> HIDE DEF T
    <3> QED BY <3>1, LeastNumber
  <2>2. N - k \in 0..N /\ k \in 0..N /\ ~Good(N - k) BY <1>0
  <2>3. ASSUME NEW j \in (N - k + 1)..N PROVE Good(j)
    <3>1. N - j \in 0..N /\ ~(k <= N - j) /\ N - (N - j) = j BY <1>0, <2>2
    <3>2. N - j \notin T
      <4> HIDE DEF T
      <4> QED BY <2>1, <3>1
    <3> QED BY <3>1, <3>2
  <2> QED BY <1>3, <2>2, <2>3
<1>5. Good(0)
  <2>1. N \in 0..N /\ N - N = 0 BY <1>0
  <2> QED BY <1>4, <2>1
<1>6. h[0] \in Seq(Texts) /\ CountAll(h[0]) = N - 0 BY <1>5 DEF Good
<1> QED BY <1>0, <1>1, <1>6 DEF KeepsText

LEMMA WholeKeepsText ==
  ASSUME NEW text \in Texts
  PROVE  KeepsText(<<text>>, text)
BY AllOne DEF KeepsText

(* split_long_run keeps every character.                                   *)
LEMMA SplitLongRunKeepsText ==
  ASSUME NEW text \in Texts, NEW maxChars \in Nat
  PROVE  KeepsText(SplitLongRun(text, maxChars), text)
<1>1. CASE text = <<>>
  BY <1>1, AllEmpty, CountEmpty DEF SplitLongRun, KeepsText
<1>2. CASE text # <<>> /\ maxChars = 0
  BY <1>2, WholeKeepsText DEF SplitLongRun
<1>3. CASE text # <<>> /\ maxChars # 0
  <2>1. maxChars \in Nat \ {0} BY <1>3
  <2> QED BY <1>3, <2>1, ChunksKeepText DEF SplitLongRun
<1> QED BY <1>1, <1>2, <1>3

LEMMA PiecesKeepText ==
  ASSUME NEW text \in Texts, NEW maxChars \in Nat
  PROVE  KeepsText(Pieces(text, maxChars), text)
BY WholeKeepsText, SplitLongRunKeepsText DEF Pieces

LEMMA ExpandGroupKeepsText ==
  ASSUME NEW group \in Texts, NEW maxChars \in Nat
  PROVE  KeepsText(ExpandGroup(group, maxChars), group)
<1> DEFINE soft == Groups(group, {"soft"})
           cut  == [i \in DOMAIN soft |-> Pieces(soft[i], maxChars)]
<1>1. ExpandGroup(group, maxChars)
        = IF CountChars(group) <= maxChars THEN <<group>> ELSE FlattenSeq(cut)
  BY DEF ExpandGroup
<1>2. soft \in Seq(Texts) /\ CountAll(soft) = CountChars(group) BY GroupsKeepText
<1> HIDE DEF soft
<1>3. \A i \in DOMAIN soft : cut[i] \in Seq(Texts) /\ CountAll(cut[i]) = CountChars(soft[i])
  <2>1. \A i \in DOMAIN soft : soft[i] \in Texts BY <1>2, SeqElements
  <2> QED BY <2>1, PiecesKeepText DEF KeepsText
<1>4. DOMAIN cut = DOMAIN soft /\ cut = [i \in DOMAIN soft |-> cut[i]] OBVIOUS
<1> HIDE DEF cut
<1>5. FlattenSeq(cut) \in Seq(Texts) /\ CountAll(FlattenSeq(cut)) = CountAll(soft)
  BY <1>2, <1>3, <1>4, FlattenAll
<1>6. KeepsText(FlattenSeq(cut), group) BY <1>2, <1>5 DEF KeepsText
<1> QED BY <1>1, <1>6, WholeKeepsText

(* split_breath_groups keeps every character.                              *)
LEMMA BreathGroupsKeepText ==
  ASSUME NEW text \in Texts, NEW maxChars \in Nat
  PROVE  KeepsText(BreathGroups(text, maxChars), text)
<1> DEFINE groups == Groups(text, {"hard"})
           cut  == [i \in DOMAIN groups |-> ExpandGroup(groups[i], maxChars)]
<1>1. BreathGroups(text, maxChars) = FlattenSeq(cut) BY DEF BreathGroups
<1>2. groups \in Seq(Texts) /\ CountAll(groups) = CountChars(text) BY GroupsKeepText
<1> HIDE DEF groups
<1>3. \A i \in DOMAIN groups : cut[i] \in Seq(Texts) /\ CountAll(cut[i]) = CountChars(groups[i])
  <2>1. \A i \in DOMAIN groups : groups[i] \in Texts BY <1>2, SeqElements
  <2> QED BY <2>1, ExpandGroupKeepsText DEF KeepsText
<1>4. DOMAIN cut = DOMAIN groups /\ cut = [i \in DOMAIN groups |-> cut[i]] OBVIOUS
<1> HIDE DEF cut
<1>5. FlattenSeq(cut) \in Seq(Texts) /\ CountAll(FlattenSeq(cut)) = CountAll(groups)
  BY <1>2, <1>3, <1>4, FlattenAll
<1> QED BY <1>1, <1>2, <1>5 DEF KeepsText

LEMMA PartGroupsKeepText ==
  ASSUME NEW text \in Texts, NEW opts \in OptionSets
  PROVE  KeepsText(PartGroups(text, opts), text)
<1>1. opts.maxPartChars \in Nat /\ opts.minPartChars \in Nat BY DEF OptionSets
<1> DEFINE groups == BreathGroups(text, opts.maxPartChars)
<1>2. groups \in Seq(Texts) /\ CountAll(groups) = CountChars(text)
  BY <1>1, BreathGroupsKeepText DEF KeepsText
<1> HIDE DEF groups
<1>3. /\ PackShortGroups(groups, opts.minPartChars) \in Seq(Texts)
      /\ CountAll(PackShortGroups(groups, opts.minPartChars)) = CountAll(groups)
  BY <1>1, <1>2, PackShortGroupsKeepsAll
<1> QED BY <1>2, <1>3 DEF KeepsText, PartGroups, groups

LEMMA PackedKeepsText ==
  ASSUME NEW text \in Texts, NEW opts \in OptionSets, NEW count
  PROVE  KeepsText(PackToPartCount(PartGroups(text, opts), count), text)
<1> DEFINE groups == PartGroups(text, opts)
<1>1. groups \in Seq(Texts) /\ CountAll(groups) = CountChars(text)
  BY PartGroupsKeepText DEF KeepsText
<1> HIDE DEF groups
<1>2. /\ PackToPartCount(groups, count) \in Seq(Texts)
      /\ CountAll(PackToPartCount(groups, count)) = CountAll(groups)
  BY <1>1, PackToPartCountKeepsAll
<1> QED BY <1>1, <1>2 DEF KeepsText, groups

LEMMA AtLeastTwoKeepsText ==
  ASSUME NEW text \in Texts, NEW parts, KeepsText(parts, text)
  PROVE  KeepsText(AtLeastTwo(parts, text), text)
<1> DEFINE half == LargerOf(1, CeilDiv(CountChars(text), 2))
<1>1. half \in Nat
  <2>1. CountChars(text) \in Nat BY CountWeighs
  <2> DEFINE q == CeilDiv(CountChars(text), 2)
  <2>2. q \in Nat BY <2>1 DEF CeilDiv
  <2> HIDE DEF q
  <2>3. LargerOf(1, q) \in Nat BY <2>2 DEF LargerOf
  <2> QED BY <2>3 DEF q
<1>2. AtLeastTwo(parts, text) = IF Len(parts) > 1 THEN parts ELSE SplitLongRun(text, half)
  BY DEF AtLeastTwo
<1> HIDE DEF half
<1> QED BY <1>1, <1>2, SplitLongRunKeepsText

(* split_part_once keeps every character.                                  *)
LEMMA SplitPartOnceKeepsText ==
  ASSUME NEW text \in Texts, NEW opts \in OptionSets
  PROVE  KeepsText(SplitPartOnce(text, opts), text)
<1>1. KeepsText(PackToPartCount(PartGroups(text, opts), 2), text) BY PackedKeepsText
<1>2. KeepsText(AtLeastTwo(PackToPartCount(PartGroups(text, opts), 2), text), text)
  BY <1>1, AtLeastTwoKeepsText
<1> QED BY <1>2, WholeKeepsText DEF SplitPartOnce

LEMMA DividedInt ==
  ASSUME NEW a \in Int, NEW b \in Int, b > 0
  PROVE  a \div b \in Int
OBVIOUS

LEMMA SpeechInt ==
  ASSUME NEW parts \in Seq(Texts), NEW targetMs \in Nat, NEW opts \in OptionSets
  PROVE  SpeechMs(parts, targetMs, opts) \in Nat
<1> DEFINE n == Len(parts)
           pauses == opts.pauseMs * (n - 1)
           floor == 50 * n
<1>1. n \in Nat /\ opts.pauseMs \in Nat BY SeqElements DEF OptionSets
<1>2. pauses \in Int /\ floor \in Nat
  <2> HIDE DEF n
  <2> QED BY <1>1
<1>3. SpeechMs(parts, targetMs, opts) = LargerOf(floor, targetMs - pauses) BY DEF SpeechMs
<1> HIDE DEF pauses, floor
<1>4. LargerOf(floor, targetMs - pauses) \in Nat BY <1>2 DEF LargerOf
<1> QED BY <1>3, <1>4

LEMMA EstimatesAreInt ==
  ASSUME NEW parts \in Seq(Texts), NEW targetMs \in Nat, NEW opts \in OptionSets
  PROVE  /\ DOMAIN EstimatedMs(parts, targetMs, opts) = 1..Len(parts)
         /\ \A i \in 1..Len(parts) : EstimatedMs(parts, targetMs, opts)[i] \in Int
<1> DEFINE speech == SpeechMs(parts, targetMs, opts)
<1>1. speech \in Int BY SpeechInt
<1>2. EstimatedMs(parts, targetMs, opts) = [i \in DOMAIN parts |-> speech * CountChars(parts[i])]
  BY DEF EstimatedMs
<1> HIDE DEF speech
<1>3. DOMAIN parts = 1..Len(parts) /\ \A i \in DOMAIN parts : parts[i] \in Texts BY SeqElements
<1>4. ASSUME NEW i \in DOMAIN parts PROVE speech * CountChars(parts[i]) \in Int
  <2>1. CountChars(parts[i]) \in Nat BY <1>3, CountWeighs
  <2> QED BY <1>1, <2>1
<1> QED BY <1>2, <1>3, <1>4

(* max and index find the first longest part.                              *)
LEMMA LongestExists ==
  ASSUME NEW N \in Nat, N > 0, NEW ms, DOMAIN ms = 1..N, \A i \in 1..N : ms[i] \in Int
  PROVE  Longest(ms) \in 1..N
<1> DEFINE R == {p \in (1..N) \X (1..N) : ms[p[1]] > ms[p[2]]}
           P(i) == \A j \in 1..N : IF j < i THEN ms[j] < ms[i] ELSE ms[j] <= ms[i]
<1>1. \A i, j \in 1..N : <<i, j>> \in R <=> ms[i] > ms[j] OBVIOUS
<1> DEFINE A == 1..N
<1>2. Orders(R, A)
  <2> HIDE DEF R
  <2> QED BY <1>1, SMTT(30) DEF Orders
<1> HIDE DEF R
<1>3. PICK i \in A : Leads(i, A, R)
  <2>1. A \subseteq 0..N /\ A # {}
    <3>1. 1 \in 1..N OBVIOUS
    <3>2. 1..N \subseteq 0..N OBVIOUS
    <3> QED BY <3>1, <3>2, Zenon
  <2> HIDE DEF A
  <2> QED BY <1>2, <2>1, FirstOfBest
<1>4. P(i)
  <2> SUFFICES ASSUME NEW j \in 1..N
               PROVE  IF j < i THEN ms[j] < ms[i] ELSE ms[j] <= ms[i]
    OBVIOUS
  <2>1. ms[i] \in Int /\ ms[j] \in Int OBVIOUS
  <2>2. CASE j < i
    <3>1. <<i, j>> \in R BY <2>2, <1>3 DEF Leads
    <3> QED BY <2>1, <2>2, <3>1, <1>1
  <2>3. CASE ~(j < i)
    <3>1. <<j, i>> \notin R BY <2>3, <1>3 DEF Leads
    <3>2. ~(ms[j] > ms[i]) BY <3>1, <1>1
    <3> QED BY <2>1, <2>3, <3>2
  <2> QED BY <2>2, <2>3
<1>5. Longest(ms) = CHOOSE k \in 1..N : P(k) BY DEF Longest
<1> HIDE DEF P
<1>6. (CHOOSE k \in 1..N : P(k)) \in 1..N BY <1>4
<1> QED BY <1>5, <1>6

(* Joining what does not fit in the room left keeps every character.       *)
LEMMA JoinFromKeepsAll ==
  ASSUME NEW split \in Seq(Texts), NEW room \in Nat
  PROVE  JoinFrom(split, room) \in Seq(Texts) /\ CountAll(JoinFrom(split, room)) = CountAll(split)
<1> DEFINE before == SubSeq(split, 1, room)
           after  == SubSeq(split, room + 1, Len(split))
<1>0. Len(split) \in Nat BY SeqElements
<1>1. CASE Len(split) - 1 <= room BY <1>1 DEF JoinFrom
<1>2. CASE ~(Len(split) - 1 <= room)
  <2>1. JoinFrom(split, room) = Append(before, FlattenSeq(after)) BY <1>2 DEF JoinFrom
  <2>2. room \in 0..Len(split) BY <1>0, <1>2
  <2>3. before \in Seq(Texts) /\ after \in Seq(Texts) /\ split = before \o after
    <3> DEFINE T == Texts
    <3>1. split \in Seq(T) OBVIOUS
    <3> HIDE DEF T
    <3>2. before \in Seq(T) /\ after \in Seq(T) /\ split = before \o after
      BY <2>2, <3>1, PrefixAndSuffix
    <3> QED BY <3>2 DEF T
  <2> HIDE DEF before, after
  <2>4. FlattenSeq(after) \in Texts /\ CountChars(FlattenSeq(after)) = CountAll(after)
    BY <2>3, FlattenCount
  <2>5. /\ Append(before, FlattenSeq(after)) \in Seq(Texts)
        /\ CountAll(Append(before, FlattenSeq(after))) = CountAll(before) + CountAll(after)
    BY <2>3, <2>4, AllAppend
  <2>6. CountAll(before \o after) = CountAll(before) + CountAll(after) BY <2>3, AllConcat
  <2> QED BY <2>1, <2>3, <2>5, <2>6
<1> QED BY <1>1, <1>2

(* A part replaced by its split parts.                                     *)
LEMMA ReplacePartKeepsAll ==
  ASSUME NEW parts \in Seq(Texts), NEW w \in 1..Len(parts), NEW split \in Seq(Texts),
         CountAll(split) = CountChars(parts[w])
  PROVE  /\ ReplacePart(parts, w, split) \in Seq(Texts)
         /\ CountAll(ReplacePart(parts, w, split)) = CountAll(parts)
<1> DEFINE before == SubSeq(parts, 1, w - 1)
           upto   == SubSeq(parts, 1, w)
           after  == SubSeq(parts, w + 1, Len(parts))
<1>0. Len(parts) \in Nat /\ w \in 0..Len(parts) BY SeqElements
<1>1. /\ before \in Seq(Texts) /\ parts[w] \in Texts
      /\ upto \in Seq(Texts) /\ upto = Append(before, parts[w])
      /\ after \in Seq(Texts) /\ parts = upto \o after
  <2> DEFINE T == Texts
  <2>1. parts \in Seq(T) OBVIOUS
  <2> HIDE DEF T
  <2>2. before \in Seq(T) /\ parts[w] \in T /\ upto \in Seq(T) /\ upto = Append(before, parts[w])
    BY <2>1, PrefixStep
  <2>3. after \in Seq(T) /\ parts = upto \o after BY <1>0, <2>1, PrefixAndSuffix
  <2> QED BY <2>2, <2>3 DEF T
<1>2. ReplacePart(parts, w, split) = (before \o split) \o after BY DEF ReplacePart
<1> HIDE DEF before, after, upto
<1>3. CountAll(upto) = CountAll(before) + CountChars(parts[w]) BY <1>1, AllAppend
<1>4. CountAll(parts) = CountAll(upto) + CountAll(after) BY <1>1, AllConcat
<1>5. before \o split \in Seq(Texts) /\ CountAll(before \o split) = CountAll(before) + CountAll(split)
  BY <1>1, AllConcat
<1>6. /\ (before \o split) \o after \in Seq(Texts)
      /\ CountAll((before \o split) \o after) = CountAll(before \o split) + CountAll(after)
  BY <1>1, <1>5, AllConcat
<1> QED BY <1>2, <1>3, <1>4, <1>5, <1>6

(* One round of enforce_max_part_seconds.                                  *)
LEMMA SplitLongestKeepsText ==
  ASSUME NEW text, NEW parts, KeepsText(parts, text), parts # <<>>,
         NEW targetMs \in Nat, NEW opts \in OptionSets
  PROVE  KeepsText(SplitLongest(parts, targetMs, opts), text)
<1> DEFINE ms    == EstimatedMs(parts, targetMs, opts)
           w     == Longest(ms)
           split == SplitPartOnce(parts[w], opts)
           room  == LargerOf(1, opts.maxParts) - Len(parts)
           join  == JoinFrom(split, room)
<1>1. parts \in Seq(Texts) /\ CountAll(parts) = CountChars(text) BY DEF KeepsText
<1>2. Len(parts) \in Nat /\ Len(parts) > 0 BY <1>1, FrontAndLast
<1>3. w \in 1..Len(parts)
  <2>1. DOMAIN ms = 1..Len(parts) /\ \A i \in 1..Len(parts) : ms[i] \in Int
    BY <1>1, EstimatesAreInt
  <2> HIDE DEF ms
  <2> QED BY <1>2, <2>1, LongestExists
<1>4. \/ SplitLongest(parts, targetMs, opts) = parts
      \/ room > 0 /\ SplitLongest(parts, targetMs, opts) = ReplacePart(parts, w, join)
  <2>1. room \in Int
    <3>1. opts.maxParts \in Nat BY DEF OptionSets
    <3> QED BY <1>2, <3>1 DEF LargerOf
  <2>2. SplitLongest(parts, targetMs, opts)
          = IF room <= 0 \/ ms[w] <= opts.maxPartMs * CountAll(parts) \/ Len(split) < 2
            THEN parts
            ELSE ReplacePart(parts, w, join)
    BY DEF SplitLongest, WithSplit
  <2> HIDE DEF room, ms, w, split, join
  <2>3. CASE room <= 0 BY <2>2, <2>3
  <2>4. CASE ~(room <= 0)
    <3>1. room > 0 BY <2>1, <2>4
    <3> QED BY <2>2, <3>1
  <2> QED BY <2>3, <2>4
<1>5. CASE room > 0 /\ SplitLongest(parts, targetMs, opts) = ReplacePart(parts, w, join)
  <2>1. room \in Nat
    <3>1. opts.maxParts \in Nat BY DEF OptionSets
    <3> QED BY <1>2, <1>5, <3>1 DEF LargerOf
  <2>2. parts[w] \in Texts
    <3> HIDE DEF w
    <3> QED BY <1>1, <1>3, SeqElements
  <2>3. split \in Seq(Texts) /\ CountAll(split) = CountChars(parts[w])
    <3> HIDE DEF w
    <3> QED BY <2>2, SplitPartOnceKeepsText DEF KeepsText
  <2>4. join \in Seq(Texts) /\ CountAll(join) = CountAll(split)
    <3> HIDE DEF split, room
    <3> QED BY <2>1, <2>3, JoinFromKeepsAll
  <2> HIDE DEF w, split, room, join
  <2>5. /\ ReplacePart(parts, w, join) \in Seq(Texts)
        /\ CountAll(ReplacePart(parts, w, join)) = CountAll(parts)
    BY <1>1, <1>3, <2>3, <2>4, ReplacePartKeepsAll
  <2> QED BY <1>1, <1>5, <2>5 DEF KeepsText
<1>6. CASE SplitLongest(parts, targetMs, opts) = parts BY <1>6
<1> QED BY <1>4, <1>5, <1>6

(* Parts that hold a text with characters are not none.                    *)
LEMMA SomePart ==
  ASSUME NEW text, NEW parts, KeepsText(parts, text), CountChars(text) > 0
  PROVE  parts # <<>>
BY AllEmpty DEF KeepsText

RoundsTable(f, parts, targetMs, opts) ==
    f = [n \in 0..opts.maxParts |->
            IF n = 0 THEN parts ELSE SplitLongest(f[n - 1], targetMs, opts)]

(* The rounds of enforce_max_part_seconds, as a recursive function of      *)
(* their number.                                                           *)
LEMMA RoundsExist ==
  ASSUME NEW parts, NEW targetMs, NEW opts \in OptionSets
  PROVE  \E f : RoundsTable(f, parts, targetMs, opts)
<1> DEFINE M == opts.maxParts
           Next(x) == SplitLongest(x, targetMs, opts)
           Body(f, n) == IF n = 0 THEN parts ELSE Next(f[n - 1])
           T == {k \in 0..M : \E f : \A n \in 0..k : f[n] = Body(f, n)}
<1>0. M \in Nat BY DEF OptionSets
<1> HIDE DEF M, Next
<1>1. 0 \in T
  <2> DEFINE f == [n \in {0} |-> parts]
  <2>1. \A n \in 0..0 : f[n] = Body(f, n) OBVIOUS
  <2> HIDE DEF f, Body
  <2>2. 0 \in 0..M BY <1>0
  <2> QED BY <2>1, <2>2
<1>2. ASSUME NEW k \in 1..M, k - 1 \in T PROVE k \in T
  <2>1. PICK f : \A n \in 0..(k - 1) : f[n] = Body(f, n) BY <1>2
  <2> DEFINE g == [n \in 0..k |-> IF n = k THEN Next(f[k - 1]) ELSE f[n]]
  <2>2. ASSUME NEW n \in 0..k PROVE g[n] = Body(g, n)
    <3>1. CASE n = 0
      <4>1. n # k /\ 0 \in 0..(k - 1) BY <3>1, <1>0
      <4> QED BY <3>1, <4>1, <2>1
    <3>2. CASE n # 0
      <4>1. n - 1 \in 0..k /\ n - 1 # k /\ k # 0 BY <3>2, <1>0
      <4>2. g[n - 1] = f[n - 1] BY <4>1
      <4>3. CASE n = k BY <4>1, <4>2, <4>3, <3>2
      <4>4. CASE n # k
        <5>1. n \in 0..(k - 1) BY <4>4, <1>0
        <5>2. f[n] = Next(f[n - 1]) BY <5>1, <2>1, <3>2
        <5> QED BY <5>2, <4>2, <4>4, <3>2
      <4> QED BY <4>3, <4>4
    <3> QED BY <3>1, <3>2
  <2>3. k \in 0..M BY <1>0
  <2> HIDE DEF g, Body
  <2> QED BY <2>2, <2>3
<1>3. M \in T
  <2> HIDE DEF T
  <2>1. 0..M \subseteq T BY <1>0, <1>1, <1>2, InductionUpTo, Zenon
  <2> QED BY <1>0, <2>1
<1>4. PICK f : \A n \in 0..M : f[n] = Body(f, n) BY <1>3
<1> DEFINE g == [n \in 0..M |-> f[n]]
<1>5. ASSUME NEW n \in 0..M PROVE g[n] = Body(g, n)
  <2>1. n # 0 => n - 1 \in 0..M BY <1>0
  <2> QED BY <1>4, <2>1
<1>6. g = [n \in 0..M |-> Body(g, n)]
  <2>1. g = [n \in 0..M |-> g[n]] OBVIOUS
  <2> HIDE DEF g, Body
  <2> QED BY <1>5, <2>1
<1> HIDE DEF g
<1> QED BY <1>6 DEF RoundsTable, M, Next

(* Every number of rounds keeps the text.                                  *)
LEMMA SplitLongPartsKeepsText ==
  ASSUME NEW text, NEW parts, KeepsText(parts, text), CountChars(text) > 0,
         NEW targetMs \in Nat, NEW opts \in OptionSets
  PROVE  KeepsText(SplitLongParts(parts, targetMs, opts), text)
<1> DEFINE M == opts.maxParts
<1>0. M \in Nat BY DEF OptionSets
<1>1. PICK h : /\ RoundsTable(h, parts, targetMs, opts)
               /\ SplitLongParts(parts, targetMs, opts) = h[M]
  <2>1. PICK f : RoundsTable(f, parts, targetMs, opts) BY RoundsExist
  <2> QED BY <2>1, Zenon DEF SplitLongParts, RoundsTable
<1>2. \A n \in 0..M : h[n] = IF n = 0 THEN parts ELSE SplitLongest(h[n - 1], targetMs, opts)
  BY <1>1 DEF RoundsTable
<1> HIDE DEF M
<1> DEFINE T == {n \in 0..M : KeepsText(h[n], text)}
<1>3. 0 \in T BY <1>0, <1>2
<1>4. ASSUME NEW n \in 1..M, n - 1 \in T PROVE n \in T
  <2>1. n \in 0..M /\ n # 0 BY <1>0
  <2>2. KeepsText(h[n - 1], text) BY <1>4
  <2>3. h[n - 1] # <<>> BY <2>2, SomePart
  <2>4. h[n] = SplitLongest(h[n - 1], targetMs, opts) BY <1>2, <2>1
  <2>5. KeepsText(h[n], text) BY <2>2, <2>3, <2>4, SplitLongestKeepsText
  <2> QED BY <2>1, <2>5
<1>5. M \in T
  <2> HIDE DEF T
  <2>1. 0..M \subseteq T BY <1>0, <1>3, <1>4, InductionUpTo, Zenon
  <2> QED BY <1>0, <2>1
<1> QED BY <1>1, <1>5

LEMMA MergeKeepsText ==
  ASSUME NEW text, NEW parts, KeepsText(parts, text)
  PROVE  KeepsText(MergeTinyIslands(parts), text)
BY MergingLoop DEF KeepsText

(* The parts of a plan hold every character of the text.                   *)
LEMMA PlannerKeepsText ==
  ASSUME NEW text \in Texts, text # <<>>, NEW targetMs \in Nat, NEW opts \in OptionSets
  PROVE  /\ KeepsText(SplitParts(text, targetMs, opts), text)
         /\ SplitParts(text, targetMs, opts) # <<>>
<1> DEFINE count  == ChoosePartCount(CountChars(text), targetMs, opts)
           packed == PackToPartCount(PartGroups(text, opts), count)
           two    == AtLeastTwo(packed, text)
           short  == EnforceMaxPartMs(two, targetMs, opts)
<1>0. CountChars(text) > 0 BY CountPositive
<1>1. KeepsText(packed, text) BY PackedKeepsText
<1>2. SplitParts(text, targetMs, opts) = MergeTinyIslands(short) BY DEF SplitParts
<1> HIDE DEF packed
<1>3. KeepsText(two, text) BY <1>1, AtLeastTwoKeepsText
<1> HIDE DEF two
<1>4. KeepsText(short, text)
  <2>1. KeepsText(SplitLongParts(two, targetMs, opts), text)
    BY <1>0, <1>3, SplitLongPartsKeepsText
  <2>2. KeepsText(MergeTinyIslands(SplitLongParts(two, targetMs, opts)), text)
    BY <2>1, MergeKeepsText
  <2> QED BY <1>3, <2>2 DEF EnforceMaxPartMs
<1> HIDE DEF short
<1>5. KeepsText(MergeTinyIslands(short), text) BY <1>4, MergeKeepsText
<1> QED BY <1>0, <1>2, <1>5, SomePart

(***************************************************************************)
(* The slot of a plan                                                      *)
(***************************************************************************)

LEMMA RoundedInt ==
  ASSUME NEW n \in Int, NEW d \in Int, d > 0
  PROVE  RoundMs(n, d) \in Int
<1>1. n \div d \in Int BY DividedInt
<1> QED BY <1>1 DEF RoundMs

LEMMA ShareInt ==
  ASSUME NEW parts \in Seq(Texts), NEW speech \in Int, NEW i \in DOMAIN parts
  PROVE  ShareMs(parts, speech, i) \in Int /\ ShareMs(parts, speech, i) >= 50
<1> DEFINE a == speech * CountChars(parts[i])
           whole == LargerOf(1, CountAll(parts))
           r == RoundMs(a, whole)
<1>1. parts[i] \in Texts BY SeqElements
<1>2. CountChars(parts[i]) \in Int BY <1>1, CountWeighs
<1>3. a \in Int BY <1>2
<1>4. whole \in Int /\ whole > 0
  <2>1. CountAll(parts) \in Nat BY AllWeighs
  <2> QED BY <2>1 DEF LargerOf
<1>5. ShareMs(parts, speech, i) = LargerOf(50, r) BY DEF ShareMs
<1> HIDE DEF a, whole
<1>6. r \in Int BY <1>3, <1>4, RoundedInt
<1> HIDE DEF r
<1>7. LargerOf(50, r) \in Int /\ LargerOf(50, r) >= 50 BY <1>6 DEF LargerOf
<1> QED BY <1>5, <1>7

(* The last part gets what is left, at least the minimum.                  *)
LEMMA PartsFillTheSpeech ==
  ASSUME NEW parts \in Seq(Texts), parts # <<>>, NEW speech \in Int
  PROVE  /\ PartMs(parts, speech) \in Seq(Int) /\ Len(PartMs(parts, speech)) = Len(parts)
         /\ Total(PartMs(parts, speech)) >= speech
         /\ (\A i \in 1..Len(parts) : PartMs(parts, speech)[i] > 50)
               => Total(PartMs(parts, speech)) = speech
<1> DEFINE n == Len(parts)
           share == [i \in DOMAIN parts |-> ShareMs(parts, speech, i)]
           front == SubSeq(share, 1, n - 1)
           last  == LargerOf(50, speech - Total(front))
           ms    == [share EXCEPT ![n] = last]
           I     == Int
<1>0. PartMs(parts, speech) = ms BY DEF PartMs
<1>1. n \in Nat /\ n > 0 /\ DOMAIN parts = 1..n BY FrontAndLast, SeqElements
<1>2. share \in Seq(I) /\ Len(share) = n
  <2>1. \A i \in DOMAIN parts : ShareMs(parts, speech, i) \in Int BY ShareInt
  <2> QED BY <1>1, <2>1
<1> HIDE DEF share, n
<1> DEFINE k == n - 1
<1>3. k \in 0..n /\ n = k + 1 BY <1>1
<1>4. front \in Seq(I) /\ Len(front) = k /\ \A i \in 1..k : front[i] = share[i]
  <2> HIDE DEF k, I
  <2>1. SubSeq(share, 1, k) \in Seq(I) /\ Len(SubSeq(share, 1, k)) = k
        /\ \A i \in 1..k : SubSeq(share, 1, k)[i] = share[i]
    BY <1>1, <1>2, <1>3
  <2> QED BY <2>1 DEF k
<1> HIDE DEF front
<1>5. Total(front) \in Int BY <1>4, TotalType
<1>6. last \in I /\ last >= 50 /\ last >= speech - Total(front)
      /\ (last > 50 => last = speech - Total(front))
  BY <1>5 DEF LargerOf
<1> HIDE DEF last
<1>7. ms \in Seq(I) /\ Len(ms) = n /\ \A i \in 1..n : ms[i] = IF i = n THEN last ELSE share[i]
  <2>1. share \in [1..n -> I] BY <1>2, <1>1
  <2> HIDE DEF I
  <2>2. ms \in [1..n -> I] /\ \A i \in 1..n : ms[i] = IF i = n THEN last ELSE share[i]
    BY <2>1, <1>6
  <2> HIDE DEF ms
  <2> QED BY <2>2, <1>1
<1> HIDE DEF ms
<1>8. ms = Append(front, last)
  <2>1. Append(front, last) \in Seq(I) /\ Len(Append(front, last)) = n
        /\ \A i \in 1..n : Append(front, last)[i] = IF i = n THEN last ELSE share[i]
    <3> HIDE DEF k, I
    <3>1. Append(front, last) \in Seq(I) /\ Len(Append(front, last)) = n BY <1>3, <1>4, <1>6
    <3>2. ASSUME NEW i \in 1..n
          PROVE  Append(front, last)[i] = IF i = n THEN last ELSE share[i]
      <4>1. i # n => i \in 1..k BY <1>1, <1>3
      <4> QED BY <4>1, <1>3, <1>4
    <3> QED BY <3>1, <3>2
  <2>2. \A i \in 1..Len(ms) : ms[i] = Append(front, last)[i] BY <1>7, <2>1
  <2> HIDE DEF I
  <2> QED BY <1>7, <2>1, <2>2, SeqEqual
<1>9. Total(ms) = Total(front) + last BY <1>4, <1>6, <1>8, TotalAppend
<1>10. Total(ms) >= speech BY <1>5, <1>6, <1>9
<1>11. ASSUME \A i \in 1..n : ms[i] > 50 PROVE Total(ms) = speech
  <2>1. n \in 1..n BY <1>1
  <2>2. last > 50 BY <1>7, <1>11, <2>1
  <2> QED BY <1>5, <1>6, <1>9, <2>2
<1> QED BY <1>0, <1>7, <1>10, <1>11 DEF n

LEMMA MoreThanMinimum ==
  ASSUME NEW ms \in Seq(Int), Len(ms) > 0, \A i \in 1..Len(ms) : ms[i] > 50
  PROVE  Total(ms) > 50 * Len(ms)
<1> DEFINE n == Len(ms)
           c == 51
           flat == [i \in 1..n |-> c]
<1>1. n \in Nat /\ \A i \in 1..n : ms[i] \in Int BY SeqElements
<1>2. flat \in Seq(Int) /\ Len(flat) = n /\ \A i \in 1..n : flat[i] = c BY <1>1
<1>3. \A i \in 1..n : flat[i] <= ms[i] BY <1>1, <1>2
<1>4. c \in Int OBVIOUS
<1>5. c * n > 50 * n /\ c * n \in Int BY <1>1
<1> HIDE DEF flat, c
<1>6. Total(flat) = c * n BY <1>2, <1>4, TotalConstant
<1>7. Total(flat) <= Total(ms) BY <1>2, <1>3, TotalMonotone
<1>8. Total(ms) \in Int BY TotalType
<1>9. 50 * n \in Int BY <1>1
<1> QED BY <1>5, <1>6, <1>7, <1>8, <1>9

(* What a plan promises of a text and its slot.                            *)
PlanFills(plan, text, targetMs) ==
    LET spoken == Total([k \in DOMAIN plan.parts |-> plan.parts[k].ms])
        pauses == plan.planningPauseMs * (Len(plan.parts) - 1)
    IN  /\ Total([k \in DOMAIN plan.parts |-> CountChars(plan.parts[k].text)]) = CountChars(text)
        /\ spoken + pauses >= targetMs
        /\ (\A k \in DOMAIN plan.parts : plan.parts[k].ms > 50) => spoken + pauses = targetMs

(* The durations and pauses of a plan add up to the target.                *)
LEMMA PlanOfPartsFills ==
  ASSUME NEW text, NEW parts, KeepsText(parts, text), parts # <<>>,
         NEW targetMs \in Nat, NEW opts \in OptionSets
  PROVE  PlanFills(PlanOfParts(parts, targetMs, opts), text, targetMs)
<1> DEFINE plan   == PlanOfParts(parts, targetMs, opts)
           speech == SpeechMs(parts, targetMs, opts)
           ms     == PartMs(parts, speech)
           n      == Len(parts)
           pauses == opts.pauseMs * (n - 1)
           floor  == 50 * n
<1>1. parts \in Seq(Texts) /\ CountAll(parts) = CountChars(text) BY DEF KeepsText
<1>2. n \in Nat /\ n > 0 /\ DOMAIN parts = 1..n BY <1>1, FrontAndLast, SeqElements
<1>3. opts.pauseMs \in Nat BY DEF OptionSets
<1>4. pauses \in Int /\ floor \in Int
  <2> HIDE DEF n
  <2> QED BY <1>2, <1>3
<1>5. speech \in Int BY <1>1, SpeechInt
<1>6. /\ speech >= floor /\ speech >= targetMs - pauses
      /\ (speech > floor => speech = targetMs - pauses)
  <2>1. speech = LargerOf(floor, targetMs - pauses) BY DEF SpeechMs
  <2> HIDE DEF speech, floor, pauses
  <2> QED BY <1>4, <2>1 DEF LargerOf
<1>7. /\ plan.parts = [i \in DOMAIN parts |-> [text |-> parts[i], ms |-> ms[i]]]
      /\ plan.planningPauseMs = opts.pauseMs
  BY DEF PlanOfParts
<1> HIDE DEF speech, plan
<1>8. /\ ms \in Seq(Int) /\ Len(ms) = n /\ Total(ms) >= speech
      /\ (\A i \in 1..n : ms[i] > 50) => Total(ms) = speech
  BY <1>1, <1>5, PartsFillTheSpeech
<1> HIDE DEF ms
<1>9. DOMAIN plan.parts = 1..n /\ Len(plan.parts) = n
  BY <1>2, <1>7
<1>10. \A i \in 1..n : plan.parts[i].ms = ms[i] /\ plan.parts[i].text = parts[i]
  BY <1>2, <1>7
<1>11. [k \in DOMAIN plan.parts |-> plan.parts[k].ms] = ms
  <2>1. [k \in DOMAIN plan.parts |-> plan.parts[k].ms] = [k \in 1..n |-> ms[k]]
    BY <1>9, <1>10
  <2>2. ms = [k \in 1..n |-> ms[k]] BY <1>8
  <2> QED BY <2>1, <2>2
<1>12. [k \in DOMAIN plan.parts |-> CountChars(plan.parts[k].text)]
         = [k \in DOMAIN parts |-> CountChars(parts[k])]
  BY <1>2, <1>9, <1>10
<1>13. Total([k \in DOMAIN plan.parts |-> CountChars(plan.parts[k].text)]) = CountChars(text)
  BY <1>1, <1>12 DEF CountAll
<1>14. plan.planningPauseMs * (Len(plan.parts) - 1) = pauses BY <1>7, <1>9
<1>15. Total(ms) \in Int BY <1>8, TotalType
<1>16. Total(ms) + pauses >= targetMs
  <2> HIDE DEF pauses, floor
  <2> QED BY <1>4, <1>5, <1>6, <1>8, <1>15
<1>17. ASSUME \A k \in DOMAIN plan.parts : plan.parts[k].ms > 50
       PROVE  Total(ms) + pauses = targetMs
  <2>1. \A i \in 1..n : ms[i] > 50 BY <1>9, <1>10, <1>17
  <2>2. Total(ms) = speech BY <1>8, <2>1
  <2>3. Total(ms) > floor BY <1>2, <1>8, <2>1, MoreThanMinimum
  <2> HIDE DEF pauses, floor
  <2> QED BY <1>4, <1>5, <1>6, <2>2, <2>3
<1> HIDE DEF pauses
<1> QED BY <1>11, <1>13, <1>14, <1>16, <1>17 DEF PlanFills, plan

(* Every plan of build_split_plan speaks the text in the target duration.  *)
LEMMA SplitPlansFill ==
  ASSUME NEW text \in Texts, text # <<>>, NEW targetMs \in Nat, NEW opts \in OptionSets
  PROVE  PlanFills(BuildSplitPlan(text, targetMs, opts), text, targetMs)
<1> DEFINE parts == SplitParts(text, targetMs, opts)
<1>1. KeepsText(parts, text) /\ parts # <<>> BY PlannerKeepsText
<1>2. BuildSplitPlan(text, targetMs, opts) = PlanOfParts(parts, targetMs, opts)
  BY DEF BuildSplitPlan
<1> HIDE DEF parts
<1> QED BY <1>1, <1>2, PlanOfPartsFills
==============================================================================
