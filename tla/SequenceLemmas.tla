---------------------------- MODULE SequenceLemmas ----------------------------
(***************************************************************************)
(* What the proofs need to know of the operators of the community modules  *)
(* that the specifications use.                                            *)
(***************************************************************************)
EXTENDS Integers, Sequences, FiniteSets, SequencesExt, Functions,
        FiniteSetTheorems, FunctionTheorems, TLAPS

(* A set of natural numbers that is not empty has a least element. *)
LEMMA LeastElement ==
  ASSUME NEW S \in SUBSET Nat, S # {}
  PROVE  \E x \in S : \A y \in S : x <= y
<1>1. PICK x \in S : \A y \in S : <<y, x>> \notin OpToRel(<, Nat)
  BY NatLessThanWellFounded, WFMin
<1>2. \A y \in S : ~(y < x)
  BY <1>1 DEF OpToRel
<1> QED
  BY <1>2

(* Max of a set of positions. *)
LEMMA MaxPosition ==
  ASSUME NEW n \in Nat, NEW S \in SUBSET (1 .. n), S # {}
  PROVE  /\ Max(S) \in S
         /\ \A y \in S : y <= Max(S)
<1> DEFINE T == {n - x : x \in S}
<1>1. T \in SUBSET Nat /\ T # {}
  <2>1. \A x \in S : n - x \in Nat
    OBVIOUS
  <2> QED
    BY <2>1
<1>2. PICK t \in T : \A u \in T : t <= u
  BY <1>1, LeastElement
<1>3. PICK x \in S : t = n - x
  BY <1>2
<1>4. \A y \in S : x >= y
  <2> TAKE y \in S
  <2>1. n - y \in T
    OBVIOUS
  <2>2. n - x <= n - y
    BY <1>2, <1>3, <2>1
  <2> QED
    BY <2>2
<1> QED
  BY <1>4 DEF Max

(* SetToSeq lists each element of a finite set once. *)
LEMMA SetToSeqProperties ==
  ASSUME NEW S, IsFiniteSet(S)
  PROVE  /\ SetToSeq(S) \in Seq(S)
         /\ \A x \in S : \E i \in DOMAIN SetToSeq(S) : SetToSeq(S)[i] = x
         /\ \A i, j \in DOMAIN SetToSeq(S) : SetToSeq(S)[i] = SetToSeq(S)[j] => i = j
<1> DEFINE n == Cardinality(S)
           f == SetToSeq(S)
<1>1. n \in Nat /\ ExistsBijection(1 .. n, S)
  BY FS_CardinalityType
<1>2. PICK g : g \in Bijection(1 .. n, S)
  BY <1>1 DEF ExistsBijection
<1>3. g \in [1 .. n -> S] /\ IsInjective(g)
  BY <1>2 DEF Bijection, Injection
<1>4. f \in [1 .. n -> S] /\ IsInjective(f)
  BY <1>3 DEF SetToSeq
<1>5. f \in Injection(1 .. n, S)
  BY <1>4 DEF Injection
<1>6. Cardinality(1 .. n) = Cardinality(S)
  BY <1>1, FS_Interval
<1>7. f \in Surjection(1 .. n, S)
  BY <1>5, <1>6, FS_Injection
<1>8. f \in Seq(S) /\ DOMAIN f = 1 .. n
  BY <1>1, <1>4
<1> QED
  BY <1>4, <1>7, <1>8 DEF Surjection, IsInjective

(* Counting up, from one number to the next. *)
LEMMA CountingUp ==
  ASSUME NEW n \in Nat, NEW S, 0 \in S, \A i \in 0 .. n - 1 : i \in S => i + 1 \in S
  PROVE  0 .. n \subseteq S
<1> SUFFICES ASSUME (0 .. n) \ S # {}
             PROVE  FALSE
  OBVIOUS
<1>1. PICK i \in (0 .. n) \ S : \A j \in (0 .. n) \ S : i <= j
  <2>1. (0 .. n) \ S \in SUBSET Nat
    OBVIOUS
  <2> QED
    BY <2>1, LeastElement
<1>2. i # 0 /\ i - 1 \in 0 .. n - 1 /\ i - 1 \in 0 .. n /\ ~(i <= i - 1) /\ (i - 1) + 1 = i
  BY <1>1
<1>3. i - 1 \in S
  BY <1>1, <1>2
<1> QED
  BY <1>1, <1>2, <1>3

(* Sequences are built by appending, and what holds for all that are so    *)
(* built holds for all.                                                    *)
LEMMA BuiltByAppend ==
  ASSUME NEW T, NEW Y, << >> \in Y, \A s \in Seq(T), x \in T : s \in Y => Append(s, x) \in Y
  PROVE  Seq(T) \subseteq Y
<1> SUFFICES ASSUME NEW s \in Seq(T)
             PROVE  s \in Y
  OBVIOUS
<1> DEFINE first(n) == SubSeq(s, 1, n)
           S == {n \in 0 .. Len(s) : first(n) \in Y}
<1>1. Len(s) \in Nat /\ Len(s) \in 0 .. Len(s)
  OBVIOUS
<1>2. 0 \in S
  <2>1. first(0) = << >>
    OBVIOUS
  <2> HIDE DEF first
  <2> QED
    BY <1>1, <2>1
<1>3. ASSUME NEW n \in 0 .. Len(s) - 1, n \in S
      PROVE  n + 1 \in S
  <2>1. n \in 0 .. Len(s) /\ n + 1 \in 1 .. Len(s) /\ n + 1 \in 0 .. Len(s)
    BY <1>1
  <2>2. first(n) \in Seq(T) /\ s[n + 1] \in T
    BY <2>1
  <2>3. first(n + 1) = Append(first(n), s[n + 1])
    BY <2>1
  <2> HIDE DEF first
  <2> QED
    BY <1>3, <2>1, <2>2, <2>3
<1>4. 0 .. Len(s) \subseteq S
  <2> HIDE DEF S
  <2> QED
    BY <1>1, <1>2, <1>3, CountingUp
<1>5. first(Len(s)) = s
  BY <1>1
<1> QED
  BY <1>1, <1>4, <1>5

(* The states from s on, a step for each line. *)
IsRun(after, X, step, s, lines) ==
    /\ after \in [0 .. Len(lines) -> X]
    /\ after[0] = s
    /\ \A n \in 1 .. Len(lines) : after[n] = step[<<after[n - 1], lines[n]>>]

(* Whatever a step makes of a state and a line, it can be done for one     *)
(* line of a sequence after the other.                                     *)
LEMMA StepsExist ==
  ASSUME NEW X, NEW L, NEW step \in [X \X L -> X],
         NEW s \in X, NEW lines \in Seq(L)
  PROVE  \E after : IsRun(after, X, step, s, lines)
<1> DEFINE Done(m) == \E after \in [0 .. m -> X] :
                         after = [n \in 0 .. m |->
                                     IF n = 0 THEN s ELSE step[<<after[n - 1], lines[n]>>]]
           S == {m \in 0 .. Len(lines) : Done(m)}
<1>1. Len(lines) \in Nat /\ \A i \in 1 .. Len(lines) : lines[i] \in L
  OBVIOUS
<1>2. 0 \in S
  <2> DEFINE a == [n \in 0 .. 0 |-> s]
  <2>1. a \in [0 .. 0 -> X]
    OBVIOUS
  <2>2. a = [n \in 0 .. 0 |-> IF n = 0 THEN s ELSE step[<<a[n - 1], lines[n]>>]]
    OBVIOUS
  <2>3. Done(0)
    <3> HIDE DEF a
    <3> QED
      BY <2>1, <2>2
  <2> HIDE DEF Done
  <2> QED
    BY <1>1, <2>3
<1>3. ASSUME NEW i \in 0 .. Len(lines) - 1, i \in S
      PROVE  i + 1 \in S
  <2>1. PICK a \in [0 .. i -> X] :
              a = [n \in 0 .. i |-> IF n = 0 THEN s ELSE step[<<a[n - 1], lines[n]>>]]
    BY <1>3
  <2> DEFINE last == step[<<a[i], lines[i + 1]>>]
             b == [n \in 0 .. i + 1 |-> IF n = i + 1 THEN last ELSE a[n]]
  <2>2. i \in Nat /\ i + 1 \in 1 .. Len(lines) /\ last \in X
    BY <1>1, <2>1
  <2> HIDE DEF last
  <2>3. b \in [0 .. i + 1 -> X]
    BY <2>1, <2>2
  <2>4. ASSUME NEW n \in 0 .. i + 1
        PROVE  b[n] = IF n = 0 THEN s ELSE step[<<b[n - 1], lines[n]>>]
    <3>1. CASE n = 0
      BY <2>1, <2>2, <3>1
    <3>2. CASE n = i + 1
      <4>1. n # 0 /\ n - 1 = i /\ i \in 0 .. i + 1 /\ i # i + 1
        BY <2>2, <3>2
      <4>2. b[n] = last /\ b[n - 1] = a[i]
        BY <3>2, <4>1
      <4> QED
        BY <3>2, <4>1, <4>2 DEF last
    <3>3. CASE n # 0 /\ n # i + 1
      <4>1. n \in 0 .. i /\ n - 1 \in 0 .. i + 1 /\ n - 1 # i + 1
        BY <2>2, <3>3
      <4>2. b[n] = a[n] /\ b[n - 1] = a[n - 1]
        BY <3>3, <4>1
      <4> QED
        BY <2>1, <3>3, <4>1, <4>2
    <3> QED
      BY <3>1, <3>2, <3>3
  <2>5. b = [n \in 0 .. i + 1 |-> IF n = 0 THEN s ELSE step[<<b[n - 1], lines[n]>>]]
    <3>1. b = [n \in 0 .. i + 1 |-> b[n]]
      OBVIOUS
    <3> HIDE DEF b
    <3> QED
      BY <2>4, <3>1
  <2>6. Done(i + 1)
    <3> HIDE DEF b
    <3> QED
      BY <2>3, <2>5
  <2> HIDE DEF Done
  <2> QED
    BY <2>2, <2>6
<1>4. 0 .. Len(lines) \subseteq S
  <2> HIDE DEF S
  <2> QED
    BY <1>1, <1>2, <1>3, CountingUp
<1>5. Done(Len(lines))
  <2> HIDE DEF Done
  <2> QED
    BY <1>1, <1>4
<1>6. PICK after \in [0 .. Len(lines) -> X] :
         after = [n \in 0 .. Len(lines) |->
                     IF n = 0 THEN s ELSE step[<<after[n - 1], lines[n]>>]]
  BY <1>5
<1>7. after[0] = s /\ \A n \in 1 .. Len(lines) : after[n] = step[<<after[n - 1], lines[n]>>]
  <2>1. 0 \in 0 .. Len(lines) /\ \A n \in 1 .. Len(lines) : n \in 0 .. Len(lines) /\ n # 0
    BY <1>1
  <2> QED
    BY <1>6, <2>1
<1> QED
  BY <1>7 DEF IsRun

-----------------------------------------------------------------------------
(* How many of a set of positions are not after the i-th. *)
UpTo(P, i) == Cardinality({j \in P : j <= i})
Counts(P, n) ==
    /\ UpTo(P, 0) = 0 /\ UpTo(P, n) = Cardinality(P)
    /\ \A i \in 0 .. n : UpTo(P, i) \in Nat /\ UpTo(P, i) <= i
    /\ \A i \in 1 .. n : UpTo(P, i) = IF i \in P THEN UpTo(P, i - 1) + 1 ELSE UpTo(P, i - 1)

(* It goes up by one at each of them. *)
LEMMA Counting ==
  ASSUME NEW n \in Nat, NEW P \in SUBSET (1 .. n)
  PROVE  IsFiniteSet(P) /\ Counts(P, n)
<1>0. \A j \in P : j \in Nat /\ 1 <= j /\ j <= n
  OBVIOUS
<1>1. IsFiniteSet(P)
  <2>1. IsFiniteSet(1 .. n)
    BY FS_Interval
  <2> QED
    BY <2>1, FS_Subset
<1>2. UpTo(P, 0) = 0
  <2>0. \A j \in P : ~(j <= 0)
    BY <1>0
  <2>1. {j \in P : j <= 0} = {}
    BY <2>0
  <2> QED
    BY <2>1, FS_EmptySet DEF UpTo
<1>3. UpTo(P, n) = Cardinality(P)
  <2>1. {j \in P : j <= n} = P
    BY <1>0
  <2> QED
    BY <2>1 DEF UpTo
<1>4. ASSUME NEW i \in 0 .. n
      PROVE  UpTo(P, i) \in Nat /\ UpTo(P, i) <= i
  <2> DEFINE Q == {j \in P : j <= i}
  <2>0. \A j \in P : j <= i => j \in 1 .. i
    BY <1>0
  <2>1. Q \in SUBSET (1 .. i)
    BY <2>0
  <2>2. IsFiniteSet(1 .. i) /\ Cardinality(1 .. i) = i
    BY FS_Interval
  <2> HIDE DEF Q
  <2>3. IsFiniteSet(Q) /\ Cardinality(Q) <= i
    BY <2>1, <2>2, FS_Subset
  <2>4. Cardinality(Q) \in Nat
    BY <2>3, FS_CardinalityType
  <2> QED
    BY <2>3, <2>4 DEF UpTo, Q
<1>5. ASSUME NEW i \in 1 .. n
      PROVE  UpTo(P, i) = IF i \in P THEN UpTo(P, i - 1) + 1 ELSE UpTo(P, i - 1)
  <2> DEFINE Q == {j \in P : j <= i - 1}
  <2>1. IsFiniteSet(Q) /\ i \notin Q
    BY <1>1, FS_Subset
  <2>2. CASE i \in P
    <3>0. i <= i /\ \A j \in P : j <= i <=> j <= i - 1 \/ j = i
      BY <1>0
    <3>1. {j \in P : j <= i} = Q \cup {i}
      BY <2>2, <3>0
    <3>2. Cardinality(Q \cup {i}) = Cardinality(Q) + 1
      BY <2>1, FS_AddElement
    <3> QED
      BY <2>2, <3>1, <3>2 DEF UpTo
  <2>3. CASE i \notin P
    <3>0. \A j \in P : j <= i <=> j <= i - 1
      BY <1>0, <2>3
    <3>1. {j \in P : j <= i} = Q
      BY <3>0
    <3> QED
      BY <2>3, <3>1 DEF UpTo
  <2> QED
    BY <2>2, <2>3
<1> QED
  BY <1>1, <1>2, <1>3, <1>4, <1>5 DEF Counts

(* Positions seen from the other end. *)
Mirror(P, n) == {n + 1 - j : j \in P}

(* There are as many of them. *)
LEMMA MirrorCounts ==
  ASSUME NEW n \in Nat, NEW P \in SUBSET (1 .. n)
  PROVE  Mirror(P, n) \in SUBSET (1 .. n) /\ Cardinality(Mirror(P, n)) = Cardinality(P)
<1> DEFINE f == [j \in P |-> n + 1 - j]
<1>1. Mirror(P, n) \in SUBSET (1 .. n)
  BY DEF Mirror
<1>2. IsFiniteSet(P)
  BY Counting
<1>3. f \in Bijection(P, Mirror(P, n))
  <2>1. f \in [P -> Mirror(P, n)]
    BY DEF Mirror
  <2>2. \A a, b \in P : f[a] = f[b] => a = b
    OBVIOUS
  <2>3. \A t \in Mirror(P, n) : \E a \in P : f[a] = t
    BY DEF Mirror
  <2> HIDE DEF f
  <2> QED
    BY <2>1, <2>2, <2>3 DEF Bijection, Injection, Surjection, IsInjective
<1>4. ExistsBijection(P, Mirror(P, n))
  BY <1>3 DEF ExistsBijection
<1> QED
  BY <1>1, <1>2, <1>4, FS_Bijection

(* Those before one are behind it. *)
LEMMA MirrorUpTo ==
  ASSUME NEW n \in Nat, NEW P \in SUBSET (1 .. n), NEW i \in 1 .. n, i \notin P
  PROVE  UpTo(Mirror(P, n), n - i) = Cardinality(P) - UpTo(P, i - 1)
<1> DEFINE A == {j \in P : j <= i - 1}
           B == {j \in P : j >= i}
           M == {m \in Mirror(P, n) : m <= n - i}
<1>1. \A j \in P : j \in 1 .. n /\ j # i /\ n + 1 - j \in Int
  OBVIOUS
<1>2. B = P \ A
  <2>1. \A j \in P : j >= i <=> ~(j <= i - 1)
    BY <1>1
  <2> QED
    BY <2>1
<1>3. P \cap A = A
  OBVIOUS
<1>4. M = Mirror(B, n)
  <2>1. \A j \in P : n + 1 - j <= n - i <=> j >= i
    BY <1>1
  <2>2. M = {n + 1 - j : j \in B}
    BY <2>1 DEF Mirror
  <2> QED
    BY <2>2 DEF Mirror
<1>5. B \in SUBSET (1 .. n)
  BY <1>1
<1> HIDE DEF A, B, M
<1>6. Cardinality(B) = Cardinality(P) - Cardinality(A)
  BY <1>2, <1>3, Counting, FS_Difference
<1>7. Cardinality(M) = Cardinality(B)
  BY <1>4, <1>5, MirrorCounts
<1> QED
  BY <1>6, <1>7 DEF UpTo, A, M
=============================================================================
