----------------------------- MODULE FoldLemmas -----------------------------
(***************************************************************************)
(* The folds of the community modules, for sequences of any length.        *)
(* FoldLeft and FoldRight are defined with a CHOOSE of a function on sets  *)
(* of positions: such a function exists (FoldExists), and its value on all *)
(* positions is the last of a history that takes one element at a time     *)
(* (UnrollMax, UnrollMin), which is what a proof about a loop needs.       *)
(* Induction is the one of the naturals' order, applied to a set (Steps).  *)
(***************************************************************************)
EXTENDS SequencesExt, FiniteSetTheorems, TLAPS

\* A nonempty set of naturals has a least element.
LEMMA Least ==
  ASSUME NEW T, T \subseteq Nat, T # {}
  PROVE  \E x \in T : \A y \in T : x <= y
<1>1. PICK x \in T : \A y \in T : ~(<<y, x>> \in OpToRel(<, Nat))
  BY WFMin, NatLessThanWellFounded
<1>2. ASSUME NEW y \in T PROVE ~(y < x)
  <2>1. <<y, x>> \in Nat \X Nat /\ <<y, x>>[1] = y /\ <<y, x>>[2] = x
    OBVIOUS
  <2> QED BY <1>1, <2>1, Zenon DEF OpToRel
<1> QED BY <1>2

\* Induction, by steps: a set with 0 that is closed under successors holds every natural.
LEMMA Steps ==
  ASSUME NEW S, 0 \in S, \A k \in Nat : k \in S => k + 1 \in S
  PROVE  Nat \subseteq S
<1> SUFFICES ASSUME Nat \ S # {} PROVE FALSE
  OBVIOUS
<1>1. PICK x \in Nat \ S : \A y \in Nat \ S : x <= y
  BY Least
<1>2. x # 0 /\ x - 1 \in Nat
  BY <1>1
<1>3. x - 1 \in S
  BY <1>1, <1>2
<1>4. (x - 1) + 1 = x
  BY <1>1
<1> QED BY <1>1, <1>2, <1>3, <1>4

(* A fold takes the elements of a set one by one. *)
Stepping(step, n, D) == step \in [(1 .. n) \X D -> D]

Picks(pick, n) ==
  /\ pick \in [SUBSET (1 .. n) -> 1 .. n \cup {0}]
  /\ \A s \in SUBSET (1 .. n) : s # {} => pick[s] \in s

Folds(f, n, D, base, step, pick) ==
  /\ f \in [SUBSET (1 .. n) -> D]
  /\ \A s \in SUBSET (1 .. n) :
       f[s] = IF s = {} THEN base ELSE step[<<pick[s], f[s \ {pick[s]}]>>]

\* There is a function on the sets of positions that folds them, whichever element it takes first:
\* what the CHOOSE of MapThenFoldSet chooses from.
LEMMA FoldExists ==
  ASSUME NEW n \in Nat, NEW D, NEW base \in D, NEW step, Stepping(step, n, D),
         NEW pick, Picks(pick, n)
  PROVE  \E f : Folds(f, n, D, base, step, pick)
<1> USE DEF Picks, Stepping
<1> DEFINE Sets(k) == {s \in SUBSET (1 .. n) : Cardinality(s) <= k}
           Good(k, f) == \A s \in Sets(k) :
             f[s] = IF s = {} THEN base ELSE step[<<pick[s], f[s \ {pick[s]}]>>]
           S == {k \in Nat : \E f \in [Sets(k) -> D] : Good(k, f)}
<1>1. ASSUME NEW s \in SUBSET (1 .. n)
      PROVE /\ IsFiniteSet(s) /\ Cardinality(s) \in Nat /\ Cardinality(s) <= n
            /\ Cardinality(s) = 0 <=> s = {}
  <2>1. IsFiniteSet(1 .. n) /\ Cardinality(1 .. n) = n
    BY FS_Interval
  <2>2. IsFiniteSet(s) /\ Cardinality(s) <= Cardinality(1 .. n)
    BY <2>1, FS_Subset
  <2> QED BY <2>1, <2>2, FS_CardinalityType, FS_EmptySet
<1>2. ASSUME NEW s \in SUBSET (1 .. n), s # {}
      PROVE /\ s \ {pick[s]} \in SUBSET (1 .. n)
            /\ Cardinality(s \ {pick[s]}) = Cardinality(s) - 1
            /\ Cardinality(s) \in Nat \ {0}
  BY <1>2, <1>1, FS_RemoveElement
<1>3. 0 \in S
  <2> DEFINE f == [s \in Sets(0) |-> base]
  <2>1. f \in [Sets(0) -> D]
    OBVIOUS
  <2>2. \A s \in Sets(0) : s = {}
    BY <1>1
  <2>3. Good(0, f)
    BY <2>2
  <2> QED BY <2>1, <2>3
<1>4. ASSUME NEW k \in Nat, k \in S PROVE k + 1 \in S
  <2>1. PICK f \in [Sets(k) -> D] : Good(k, f)
    BY <1>4
  <2> DEFINE g == [s \in Sets(k + 1) |->
                     IF s \in Sets(k) THEN f[s] ELSE step[<<pick[s], f[s \ {pick[s]}]>>]]
  <2>2. ASSUME NEW s \in Sets(k + 1), s # {}
        PROVE  s \ {pick[s]} \in Sets(k) /\ s \ {pick[s]} \in Sets(k + 1)
    BY <2>2, <1>2
  <2>3. Sets(k) \subseteq Sets(k + 1) /\ {} \in Sets(k)
    BY <1>1, FS_EmptySet
  <2>4. ASSUME NEW s \in Sets(k + 1) PROVE g[s] \in D
    <3>1. CASE s \in Sets(k)
      BY <3>1
    <3>2. CASE s \notin Sets(k)
      <4>1. s # {}
        BY <3>2, <2>3
      <4>2. f[s \ {pick[s]}] \in D /\ pick[s] \in 1 .. n
        BY <4>1, <2>2
      <4> QED BY <3>2, <4>2
    <3> QED BY <3>1, <3>2
  <2>5. g \in [Sets(k + 1) -> D]
    BY <2>4
  <2>6. ASSUME NEW s \in Sets(k + 1)
        PROVE  g[s] = IF s = {} THEN base ELSE step[<<pick[s], g[s \ {pick[s]}]>>]
    <3>1. CASE s = {}
      BY <3>1, <2>1, <2>3
    <3>2. CASE s # {}
      <4>1. g[s \ {pick[s]}] = f[s \ {pick[s]}]
        BY <2>2, <3>2
      <4>2. g[s] = step[<<pick[s], f[s \ {pick[s]}]>>]
        BY <2>1, <3>2
      <4> QED BY <4>1, <4>2, <3>2
    <3> QED BY <3>1, <3>2
  <2>7. Good(k + 1, g)
    BY <2>6
  <2>8. \E h \in [Sets(k + 1) -> D] : Good(k + 1, h)
    <3> HIDE DEF g, Good, Sets
    <3> QED BY <2>5, <2>7
  <2> HIDE DEF Good, Sets
  <2> QED BY <2>8
<1>5. Nat \subseteq S
  <2> HIDE DEF S
  <2> QED BY <1>3, <1>4, Steps
<1>6. PICK f \in [Sets(n) -> D] : Good(n, f)
  BY <1>5
<1>7. Sets(n) = SUBSET (1 .. n)
  BY <1>1
<1>8. f \in [SUBSET (1 .. n) -> D]
  BY <1>6, <1>7
<1>9. \A s \in SUBSET (1 .. n) : f[s] = IF s = {} THEN base ELSE step[<<pick[s], f[s \ {pick[s]}]>>]
  BY <1>6, <1>7
<1> QED BY <1>8, <1>9 DEF Folds


\* The greatest and the least of a nonempty set of positions.
LEMMA MaxMin ==
  ASSUME NEW n \in Nat, NEW s \in SUBSET (1 .. n), s # {}
  PROVE  /\ Max(s) \in s /\ \A x \in s : x <= Max(s)
         /\ Min(s) \in s /\ \A x \in s : Min(s) <= x
<1> DEFINE T == {n - x : x \in s}
<1>1. PICK m \in s : \A x \in s : m <= x
  <2>1. s \subseteq Nat
    OBVIOUS
  <2> QED BY <2>1, Least
<1>2. PICK c \in T : \A y \in T : c <= y
  <2>1. T \subseteq Nat /\ T # {}
    OBVIOUS
  <2> HIDE DEF T
  <2> QED BY <2>1, Least
<1>3. n - c \in s /\ \A x \in s : x <= n - c
  BY <1>2
<1> QED BY <1>1, <1>3 DEF Max, Min


(* Folding from the last element of the sets of positions, and from the first. *)
FoldsMax(f, n, D, base, step) ==
  /\ f \in [SUBSET (1 .. n) -> D]
  /\ \A s \in SUBSET (1 .. n) :
       f[s] = IF s = {} THEN base ELSE step[<<Max(s), f[s \ {Max(s)}]>>]

FoldsMin(f, n, D, base, step) ==
  /\ f \in [SUBSET (1 .. n) -> D]
  /\ \A s \in SUBSET (1 .. n) :
       f[s] = IF s = {} THEN base ELSE step[<<Min(s), f[s \ {Min(s)}]>>]

\* FoldLeft takes the last position first.
LEMMA FoldMaxExists ==
  ASSUME NEW n \in Nat, NEW D, NEW base \in D, NEW step, Stepping(step, n, D)
  PROVE  \E f : FoldsMax(f, n, D, base, step)
<1> DEFINE pick == [s \in SUBSET (1 .. n) |-> IF s = {} THEN 0 ELSE Max(s)]
<1>1. Picks(pick, n)
  BY MaxMin DEF Picks
<1>2. \A s \in SUBSET (1 .. n) : s # {} => pick[s] = Max(s)
  OBVIOUS
<1> HIDE DEF pick
<1>3. PICK f : Folds(f, n, D, base, step, pick)
  BY <1>1, FoldExists
<1> QED BY <1>2, <1>3, ZenonT(40) DEF Folds, FoldsMax

\* FoldRight takes the first position first.
LEMMA FoldMinExists ==
  ASSUME NEW n \in Nat, NEW D, NEW base \in D, NEW step, Stepping(step, n, D)
  PROVE  \E f : FoldsMin(f, n, D, base, step)
<1> DEFINE pick == [s \in SUBSET (1 .. n) |-> IF s = {} THEN 0 ELSE Min(s)]
<1>1. Picks(pick, n)
  BY MaxMin DEF Picks
<1>2. \A s \in SUBSET (1 .. n) : s # {} => pick[s] = Min(s)
  OBVIOUS
<1> HIDE DEF pick
<1>3. PICK f : Folds(f, n, D, base, step, pick)
  BY <1>1, FoldExists
<1> QED BY <1>2, <1>3, ZenonT(40) DEF Folds, FoldsMin

\* The last position of a prefix, and what is left without it.
LEMMA PrefixMax ==
  ASSUME NEW n \in Nat, NEW k \in 1 .. n
  PROVE  /\ 1 .. k \in SUBSET (1 .. n) /\ 1 .. k # {}
         /\ Max(1 .. k) = k /\ (1 .. k) \ {Max(1 .. k)} = 1 .. k - 1
<1>1. 1 .. k \in SUBSET (1 .. n) /\ k \in 1 .. k
  OBVIOUS
<1>2. Max(1 .. k) \in 1 .. k /\ \A x \in 1 .. k : x <= Max(1 .. k)
  BY <1>1, MaxMin
<1> QED BY <1>1, <1>2

\* The first position of a suffix, and what is left without it.
LEMMA SuffixMin ==
  ASSUME NEW n \in Nat, NEW k \in 1 .. n
  PROVE  /\ k .. n \in SUBSET (1 .. n) /\ k .. n # {}
         /\ Min(k .. n) = k /\ (k .. n) \ {Min(k .. n)} = k + 1 .. n
<1>1. k .. n \in SUBSET (1 .. n) /\ k \in k .. n
  OBVIOUS
<1>2. Min(k .. n) \in k .. n /\ \A x \in k .. n : Min(k .. n) <= x
  BY <1>1, MaxMin
<1> QED BY <1>1, <1>2

(* A fold over all positions, as the history of its values: from the first *)
(* position to the last, and from the last to the first.                   *)
ClimbsBy(f, n, D, base, step) ==
  /\ f[{}] = base
  /\ \A k \in 1 .. n : f[1 .. k - 1] \in D => f[1 .. k] = step[<<k, f[1 .. k - 1]>>]

Climb(h, n, D, base, step) ==
  /\ h \in [0 .. n -> D]
  /\ h[0] = base
  /\ \A k \in 1 .. n : h[k] = step[<<k, h[k - 1]>>]

DescendsBy(f, n, D, base, step) ==
  /\ f[{}] = base
  /\ \A k \in 1 .. n : f[k + 1 .. n] \in D => f[k .. n] = step[<<k, f[k + 1 .. n]>>]

Descent(h, n, D, base, step) ==
  /\ h \in [1 .. n + 1 -> D]
  /\ h[n + 1] = base
  /\ \A k \in 1 .. n : h[k] = step[<<k, h[k + 1]>>]

\* A place of a history and the one it comes from.
LEMMA ClimbAt ==
  ASSUME NEW n \in Nat, NEW D, NEW base, NEW step, NEW h, Climb(h, n, D, base, step), NEW k \in 1 .. n
  PROVE  h[k - 1] \in D /\ h[k] = step[<<k, h[k - 1]>>]
<1>1. k - 1 \in 0 .. n
  OBVIOUS
<1> QED BY <1>1 DEF Climb

LEMMA DescentAt ==
  ASSUME NEW n \in Nat, NEW D, NEW base, NEW step, NEW h, Descent(h, n, D, base, step), NEW k \in 1 .. n
  PROVE  h[k + 1] \in D /\ h[k] = step[<<k, h[k + 1]>>]
<1>1. k + 1 \in 1 .. n + 1
  OBVIOUS
<1> QED BY <1>1 DEF Descent

\* The fold over all positions is the last value of its history, position by position.
LEMMA UnrollMax ==
  ASSUME NEW n \in Nat, NEW D, NEW base \in D, NEW step, Stepping(step, n, D),
         NEW f, ClimbsBy(f, n, D, base, step)
  PROVE  \E h : Climb(h, n, D, base, step) /\ f[1 .. n] = h[n]
<1> USE DEF ClimbsBy
<1> DEFINE h == [k \in 0 .. n |-> f[1 .. k]]
           S == {k \in Nat : k <= n => h[k] \in D}
<1>1. h[0] = base
  <2>1. 1 .. 0 = {}
    OBVIOUS
  <2> QED BY <2>1
<1>2. ASSUME NEW k \in Nat, k \in S, k + 1 <= n PROVE h[k + 1] \in D
  <2>1. k + 1 \in 1 .. n /\ (k + 1) - 1 = k /\ f[1 .. k] \in D
    BY <1>2
  <2>2. f[1 .. k + 1] = step[<<k + 1, f[1 .. k]>>]
    BY <2>1
  <2> QED BY <2>1, <2>2 DEF Stepping
<1>3. 0 \in S /\ \A k \in Nat : k \in S => k + 1 \in S
  BY <1>1, <1>2
<1>4. Nat \subseteq S
  <2> HIDE DEF S
  <2> QED BY <1>3, Steps
<1>5. ASSUME NEW k \in 0 .. n PROVE h[k] \in D
  <2>1. k \in S /\ k <= n
    <3> HIDE DEF S
    <3> QED BY <1>4
  <2> QED BY <2>1
<1>6. h \in [0 .. n -> D]
  BY <1>5
<1>7. ASSUME NEW k \in 1 .. n PROVE h[k] = step[<<k, h[k - 1]>>]
  <2>1. k - 1 \in 0 .. n /\ h[k - 1] = f[1 .. k - 1]
    OBVIOUS
  <2> QED BY <2>1, <1>5
<1>8. f[1 .. n] = h[n]
  OBVIOUS
<1> HIDE DEF h
<1> QED BY <1>1, <1>6, <1>7, <1>8 DEF Climb

\* The same from the last position to the first.
LEMMA UnrollMin ==
  ASSUME NEW n \in Nat, NEW D, NEW base \in D, NEW step, Stepping(step, n, D),
         NEW f, DescendsBy(f, n, D, base, step)
  PROVE  \E h : Descent(h, n, D, base, step) /\ f[1 .. n] = h[1]
<1> USE DEF DescendsBy
<1> DEFINE h == [k \in 1 .. n + 1 |-> f[k .. n]]
           S == {j \in Nat : j <= n => h[n + 1 - j] \in D}
<1>1. h[n + 1] = base
  <2>1. n + 1 .. n = {}
    OBVIOUS
  <2> QED BY <2>1
<1>2. ASSUME NEW j \in Nat, j \in S, j + 1 <= n PROVE h[n + 1 - (j + 1)] \in D
  <2> DEFINE k == n - j
  <2>1. k \in 1 .. n /\ n + 1 - j = k + 1 /\ n + 1 - (j + 1) = k /\ f[k + 1 .. n] \in D
    BY <1>2
  <2>2. f[k .. n] = step[<<k, f[k + 1 .. n]>>]
    BY <2>1
  <2> QED BY <2>1, <2>2 DEF Stepping
<1>3. 0 \in S /\ \A j \in Nat : j \in S => j + 1 \in S
  <2>1. 0 \in S
    <3>1. n + 1 - 0 = n + 1 /\ h[n + 1] \in D
      BY <1>1
    <3> QED BY <3>1
  <2>2. \A j \in Nat : j \in S => j + 1 \in S
    <3> HIDE DEF h
    <3> QED BY <1>2
  <2> QED BY <2>1, <2>2
<1>4. Nat \subseteq S
  <2> HIDE DEF S
  <2> QED BY <1>3, Steps
<1>5. ASSUME NEW k \in 1 .. n + 1 PROVE h[k] \in D
  <2>1. n + 1 - k \in S
    <3> HIDE DEF S
    <3> QED BY <1>4
  <2>2. n + 1 - (n + 1 - k) = k /\ n + 1 - k <= n
    OBVIOUS
  <2> QED BY <2>1, <2>2
<1>6. h \in [1 .. n + 1 -> D]
  BY <1>5
<1>7. ASSUME NEW k \in 1 .. n PROVE h[k] = step[<<k, h[k + 1]>>]
  <2>1. k + 1 \in 1 .. n + 1 /\ k \in 1 .. n + 1 /\ h[k + 1] = f[k + 1 .. n]
    OBVIOUS
  <2> QED BY <2>1, <1>5
<1>8. f[1 .. n] = h[1]
  OBVIOUS
<1> HIDE DEF h
<1> QED BY <1>1, <1>6, <1>7, <1>8 DEF Descent

(* Induction over a bounded range, upwards and downwards. *)
LEMMA Upwards ==
  ASSUME NEW n \in Nat, NEW S, 0 \in S, \A k \in 1 .. n : k - 1 \in S => k \in S
  PROVE  0 .. n \subseteq S
<1> DEFINE T == {k \in Nat : k <= n => k \in S}
<1>1. ASSUME NEW k \in Nat, k \in T PROVE k + 1 \in T
  <2>1. CASE k + 1 <= n
    <3>1. k + 1 \in 1 .. n /\ (k + 1) - 1 = k /\ k \in S
      BY <1>1, <2>1
    <3> QED BY <3>1
  <2> QED BY <2>1
<1>2. 0 \in T
  OBVIOUS
<1>3. Nat \subseteq T
  <2> HIDE DEF T
  <2> QED BY <1>1, <1>2, Steps
<1> QED BY <1>3

LEMMA Downwards ==
  ASSUME NEW n \in Nat, NEW S, n + 1 \in S, \A k \in 1 .. n : k + 1 \in S => k \in S
  PROVE  1 .. n + 1 \subseteq S
<1> DEFINE T == {j \in Nat : j <= n => n + 1 - j \in S}
<1>1. ASSUME NEW j \in Nat, j \in T PROVE j + 1 \in T
  <2>1. CASE j + 1 <= n
    <3> DEFINE k == n - j
    <3>1. k \in 1 .. n /\ k + 1 = n + 1 - j /\ k = n + 1 - (j + 1) /\ n + 1 - j \in S
      BY <1>1, <2>1
    <3> QED BY <3>1
  <2> QED BY <2>1
<1>2. 0 \in T
  OBVIOUS
<1>3. Nat \subseteq T
  <2> HIDE DEF T
  <2> QED BY <1>1, <1>2, Steps
<1>4. ASSUME NEW k \in 1 .. n + 1 PROVE k \in S
  <2>1. n + 1 - k \in Nat /\ n + 1 - k <= n /\ n + 1 - (n + 1 - k) = k
    OBVIOUS
  <2>2. n + 1 - k \in T
    <3> HIDE DEF T
    <3> QED BY <2>1, <1>3
  <2> QED BY <2>1, <2>2
<1> QED BY <1>4
=============================================================================
