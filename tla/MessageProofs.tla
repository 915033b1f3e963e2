---------------------------- MODULE MessageProofs ----------------------------
(***************************************************************************)
(* Facts about recursion along the positions of a sequence and about       *)
(* InOrder.  Induction is over a set of numbers, so that the provers can   *)
(* instantiate it.                                                         *)
(***************************************************************************)
EXTENDS Message, Integers, TLAPS, FiniteSetTheorems, SequenceTheorems,
        WellFoundedInduction

(* A set that has 0 and, with each number, the next one has them all.      *)
LEMMA Induction ==
    ASSUME NEW S, 0 \in S, \A n \in Nat : n \in S => n + 1 \in S
    PROVE  \A n \in Nat : n \in S
<1> SUFFICES ASSUME Nat \ S # {} PROVE FALSE
  OBVIOUS
<1> DEFINE T == Nat \ S
<1>1. PICK m \in T : \A y \in T : ~ (<<y, m>> \in OpToRel(<, Nat))
  BY NatLessThanWellFounded, WFMin
<1>2. m \in Nat /\ m # 0 /\ m - 1 \in Nat
  OBVIOUS
<1>3. m - 1 \in S
  <2>1. <<m - 1, m>> \in OpToRel(<, Nat)
    BY <1>2 DEF OpToRel
  <2> QED BY <1>1, <1>2, <2>1
<1> QED BY <1>2, <1>3

(* The same up to a bound.                                                 *)
LEMMA InductionUpTo ==
    ASSUME NEW N \in Nat, NEW S, 0 \in S,
           \A n \in 0..(N - 1) : n \in S => n + 1 \in S
    PROVE  \A n \in 0..N : n \in S
<1> DEFINE T == {n \in Nat : n <= N => n \in S}
<1>1. 0 \in T
  OBVIOUS
<1>2. \A n \in Nat : n \in T => n + 1 \in T
  OBVIOUS
<1>3. \A n \in Nat : n \in T
  <2> HIDE DEF T
  <2> QED BY <1>1, <1>2, Induction
<1> QED BY <1>3

(* What is computed from the value before, along 1..N, exists.             *)
Recursions(N, S, base, step) ==
    {g \in [0..N -> S] :
        g[0] = base /\ \A n \in 1..N : g[n] = step[<<g[n - 1], n>>]}

LEMMA RecursionExists ==
    ASSUME NEW N \in Nat, NEW S, NEW base \in S, NEW step \in [S \X (1..N) -> S]
    PROVE  Recursions(N, S, base, step) # {}
<1> DEFINE Up(g, m) == g[0] = base /\ \A n \in 1..m : g[n] = step[<<g[n - 1], n>>]
           T == {m \in 0..N : \E g \in [0..m -> S] : Up(g, m)}
<1>1. 0 \in T
  <2> DEFINE g == [n \in 0..0 |-> base]
  <2>1. g \in [0..0 -> S] /\ g[0] = base
    OBVIOUS
  <2>2. Up(g, 0)
    BY <2>1
  <2>3. 0 \in 0..N
    OBVIOUS
  <2> HIDE DEF g, Up
  <2> QED BY <2>1, <2>2, <2>3
<1>2. ASSUME NEW m \in 0..(N - 1), m \in T PROVE m + 1 \in T
  <2>1. PICK g \in [0..m -> S] : Up(g, m)
    BY <1>2
  <2> DEFINE h == [n \in 0..(m + 1) |-> IF n = m + 1 THEN step[<<g[m], m + 1>>] ELSE g[n]]
  <2>2. m \in Nat /\ m + 1 \in 1..N /\ m \in 0..m
    BY <1>2
  <2>3. step[<<g[m], m + 1>>] \in S
    BY <2>2
  <2>4. \A n \in 0..(m + 1) : n = m + 1 \/ n \in 0..m
    BY <2>2
  <2>5. h \in [0..(m + 1) -> S]
    BY <2>3, <2>4
  <2>6. h[0] = base
    <3>1. 0 \in 0..m /\ 0 # m + 1 /\ 0 \in 0..(m + 1)
      BY <2>2
    <3> QED BY <2>1, <3>1
  <2>7. ASSUME NEW n \in 1..(m + 1)
        PROVE  h[n] = step[<<h[n - 1], n>>]
    <3>1. n \in 0..(m + 1) /\ n - 1 \in 0..(m + 1) /\ n - 1 # m + 1
      BY <2>2
    <3>2. CASE n # m + 1
      <4>1. n \in 1..m /\ n - 1 \in 0..m
        BY <3>2, <2>2
      <4>2. g[n] = step[<<g[n - 1], n>>]
        BY <2>1, <4>1
      <4> QED BY <3>1, <3>2, <4>2
    <3>3. CASE n = m + 1
      <4>1. n - 1 = m
        BY <3>3, <2>2
      <4> QED BY <3>1, <3>3, <4>1
    <3> QED BY <3>2, <3>3
  <2>8. Up(h, m + 1)
    <3> HIDE DEF h
    <3> QED BY <2>6, <2>7
  <2>9. m + 1 \in 0..N
    BY <2>2
  <2> HIDE DEF h, Up
  <2> QED BY <2>5, <2>8, <2>9
<1>3. N \in T
  <2> HIDE DEF T
  <2>1. \A n \in 0..N : n \in T
    BY <1>1, <1>2, InductionUpTo
  <2> QED BY <2>1
<1> QED BY <1>3 DEF Recursions

-----------------------------------------------------------------------------
(* Positions in order.                                                     *)

(* The rank of a position grows with it, by one at each element.           *)
LEMMA RankGrows ==
    ASSUME NEW S, IsFiniteSet(S), S \subseteq Nat,
           NEW i \in S, NEW h \in Nat, h < i
    PROVE  Rank(S, h) \in Nat /\ Rank(S, i) \in Nat /\ Rank(S, h) < Rank(S, i)
<1> DEFINE Low == {j \in S : j <= h}
           High == {j \in S : j <= i}
<1>1. IsFiniteSet(Low) /\ IsFiniteSet(High)
  BY FS_Subset
<1>2. Low \in SUBSET High /\ i \in High /\ i \notin Low
  <2>1. i \in Nat /\ i <= i /\ ~ (i <= h)
    OBVIOUS
  <2>2. \A j \in S : j \in Nat
    OBVIOUS
  <2>3. \A j \in Nat : j <= h => j <= i
    BY <2>1
  <2> QED BY <2>1, <2>2, <2>3
<1>3. /\ Cardinality(Low) <= Cardinality(High)
      /\ Cardinality(High) = Cardinality(Low) => High = Low
  <2> HIDE DEF Low, High
  <2> QED BY <1>1, <1>2, FS_Subset
<1>4. Cardinality(Low) # Cardinality(High)
  BY <1>2, <1>3
<1>5. Cardinality(Low) \in Nat /\ Cardinality(High) \in Nat
  BY <1>1, FS_CardinalityType
<1> QED BY <1>3, <1>4, <1>5 DEF Rank

LEMMA RankRange ==
    ASSUME NEW S, IsFiniteSet(S), S \subseteq Nat, NEW i \in S
    PROVE  Rank(S, i) \in 1..Cardinality(S)
<1> DEFINE High == {j \in S : j <= i}
<1>1. IsFiniteSet(High) /\ Cardinality(High) <= Cardinality(S)
  <2>1. High \in SUBSET S
    OBVIOUS
  <2> HIDE DEF High
  <2> QED BY <2>1, FS_Subset
<1>2. Cardinality(High) \in Nat /\ Cardinality(S) \in Nat
  BY <1>1, FS_CardinalityType
<1>3. i \in High
  OBVIOUS
<1>4. Cardinality(High) # 0
  <2> HIDE DEF High
  <2> QED BY <1>1, <1>3, FS_EmptySet
<1> QED BY <1>1, <1>2, <1>4 DEF Rank

(* No two positions have one rank, and every rank is that of a position.   *)
LEMMA RankOnce ==
    ASSUME NEW S, IsFiniteSet(S), S \subseteq Nat, NEW i \in S, NEW j \in S,
           Rank(S, i) = Rank(S, j)
    PROVE  i = j
<1>1. i \in Nat /\ j \in Nat
  OBVIOUS
<1>2. i < j => Rank(S, i) < Rank(S, j) /\ Rank(S, i) \in Nat
  BY <1>1, RankGrows
<1>3. j < i => Rank(S, j) < Rank(S, i) /\ Rank(S, i) \in Nat
  BY <1>1, RankGrows
<1> QED BY <1>1, <1>2, <1>3

LEMMA RankReached ==
    ASSUME NEW S, IsFiniteSet(S), S \subseteq Nat, NEW n \in 1..Cardinality(S)
    PROVE  \E i \in S : Rank(S, i) = n
<1> DEFINE N == Cardinality(S)
           f == [i \in S |-> Rank(S, i)]
<1>1. N \in Nat
  BY FS_CardinalityType
<1>2. f \in Injection(S, 1..N)
  <2>1. f \in [S -> 1..N]
    BY RankRange
  <2>2. \A i, j \in S : f[i] = f[j] => i = j
    BY RankOnce
  <2>3. DOMAIN f = S
    OBVIOUS
  <2> HIDE DEF f
  <2> QED BY <2>1, <2>2, <2>3 DEF Injection, IsInjective
<1>3. IsFiniteSet(1..N) /\ Cardinality(1..N) = N
  BY <1>1, FS_Interval
<1>4. f \in Surjection(S, 1..N)
  <2> HIDE DEF f
  <2>1. IsFiniteSet(S) /\ (Cardinality(S) = Cardinality(1..N) <=> f \in Surjection(S, 1..N))
    BY <1>2, <1>3, FS_Injection
  <2> QED BY <2>1, <1>3
<1> QED BY <1>4 DEF Surjection

(* InOrder lists every element once, at its rank.                          *)
LEMMA InOrderLists ==
    ASSUME NEW S, IsFiniteSet(S), S \subseteq Nat
    PROVE  /\ Cardinality(S) \in Nat
           /\ InOrder(S) \in [1..Cardinality(S) -> S]
           /\ \A i \in S : /\ Rank(S, i) \in 1..Cardinality(S)
                           /\ InOrder(S)[Rank(S, i)] = i
           /\ \A n \in 1..Cardinality(S) : Rank(S, InOrder(S)[n]) = n
<1>1. \A n \in 1..Cardinality(S) :
         /\ (CHOOSE i \in S : Rank(S, i) = n) \in S
         /\ Rank(S, CHOOSE i \in S : Rank(S, i) = n) = n
  BY RankReached
<1>2. \A n \in 1..Cardinality(S) : InOrder(S)[n] \in S /\ Rank(S, InOrder(S)[n]) = n
  BY <1>1 DEF InOrder
<1>3. \A i \in S : Rank(S, i) \in 1..Cardinality(S)
  BY RankRange
<1>4. \A i \in S : InOrder(S)[Rank(S, i)] = i
  BY <1>2, <1>3, RankOnce
<1>5. InOrder(S) \in [1..Cardinality(S) -> S]
  BY <1>1 DEF InOrder
<1> QED BY <1>2, <1>3, <1>4, <1>5, FS_CardinalityType

(* A list of elements in which each is at its rank is InOrder.             *)
LEMMA InOrderUnique ==
    ASSUME NEW S, IsFiniteSet(S), S \subseteq Nat,
           NEW n \in 1..Cardinality(S), NEW i \in S, Rank(S, i) = n
    PROVE  InOrder(S)[n] = i
BY InOrderLists

(* The rank counts the elements that have been passed.                     *)
LEMMA RankEnds ==
    ASSUME NEW N \in Nat, NEW S, S \subseteq 1..N
    PROVE  /\ IsFiniteSet(S) /\ S \subseteq Nat
           /\ Rank(S, 0) = 0
           /\ Rank(S, N) = Cardinality(S)
<1>1. IsFiniteSet(S)
  <2>1. IsFiniteSet(1..N)
    BY FS_Interval
  <2>2. S \in SUBSET (1..N)
    OBVIOUS
  <2> QED BY <2>1, <2>2, FS_Subset
<1>2. S \subseteq Nat /\ \A j \in S : j \in 1..N
  OBVIOUS
<1>3. Rank(S, 0) = 0
  <2>1. \A j \in S : ~ (j <= 0)
    BY <1>2
  <2>2. {j \in S : j <= 0} = {}
    BY <2>1
  <2> QED BY <2>2, FS_EmptySet DEF Rank
<1>4. Rank(S, N) = Cardinality(S)
  <2>1. \A j \in S : j <= N
    BY <1>2
  <2>2. {j \in S : j <= N} = S
    BY <2>1
  <2> QED BY <2>2 DEF Rank
<1> QED BY <1>1, <1>2, <1>3, <1>4

RankStepped(S, n) ==
    /\ Rank(S, n) \in Nat
    /\ Rank(S, n + 1) = IF n + 1 \in S THEN Rank(S, n) + 1 ELSE Rank(S, n)

LEMMA RankStep ==
    ASSUME NEW S, IsFiniteSet(S), S \subseteq Nat, NEW n \in Nat
    PROVE  RankStepped(S, n)
<1> DEFINE Low == {j \in S : j <= n}
           High == {j \in S : j <= n + 1}
<1>1. Low \in SUBSET S /\ n + 1 \notin Low
  OBVIOUS
<1>2. High = IF n + 1 \in S THEN Low \cup {n + 1} ELSE Low
  <2>1. \A j \in S : j <= n + 1 <=> j <= n \/ j = n + 1
    OBVIOUS
  <2>2. \A j \in S : j <= n => j <= n + 1
    BY <2>1
  <2> QED BY <2>1, <2>2
<1> HIDE DEF Low, High
<1>3. IsFiniteSet(Low)
  BY <1>1, FS_Subset
<1>4. Cardinality(Low \cup {n + 1}) = Cardinality(Low) + 1
  BY <1>1, <1>3, FS_AddElement
<1>5. Cardinality(Low) \in Nat
  BY <1>3, FS_CardinalityType
<1> QED BY <1>2, <1>4, <1>5 DEF RankStepped, Rank, Low, High

LEMMA MaxOfNext ==
    ASSUME NEW n \in Nat, NEW S, S \subseteq 1..n
    PROVE  Max(S \cup {n + 1}) = n + 1
<1> DEFINE A == S \cup {n + 1}
<1>1. n + 1 \in A /\ \A k \in A : n + 1 >= k
  OBVIOUS
<1>2. \A m \in A : (\A k \in A : m >= k) => m = n + 1
  OBVIOUS
<1> QED BY <1>1, <1>2 DEF Max

LEMMA MinIsIn ==
    ASSUME NEW S, S \subseteq Nat, S # {}
    PROVE  Min(S) \in S /\ \A k \in S : Min(S) <= k
<1>1. PICK m \in S : \A y \in S : ~ (<<y, m>> \in OpToRel(<, Nat))
  BY NatLessThanWellFounded, WFMin
<1>2. \A y \in S : m <= y
  <2> TAKE y \in S
  <2>1. y \in Nat /\ m \in Nat
    OBVIOUS
  <2>2. ~ (y < m)
    BY <1>1, <2>1 DEF OpToRel
  <2> QED BY <2>1, <2>2
<1> QED BY <1>2 DEF Min

-----------------------------------------------------------------------------
(* The parameters of a line are texts of its characters.                   *)

LEMMA PartOfLine ==
    ASSUME NEW C, NEW line \in Seq(C), NEW i \in Nat \ {0}, NEW j \in Int, j <= Len(line)
    PROVE  SubSeq(line, i, j) \in Seq(C)
<1>1. Len(line) \in Nat
  OBVIOUS
<1>2. \A k \in i..j : k \in 1..Len(line)
  BY <1>1
<1>3. \A k \in i..j : line[k] \in C
  BY <1>2
<1> QED BY <1>3, SubSeqProperties

LEMMA WordType ==
    ASSUME NEW C, NEW line \in Seq(C), NEW i \in DOMAIN line
    PROVE  Word(line, i) \in Seq(C)
<1> DEFINE spaces == {j \in i..Len(line) : line[j] = Space}
           j == IF spaces = {} THEN Len(line) ELSE Min(spaces) - 1
<1>1. Len(line) \in Nat /\ i \in 1..Len(line)
  OBVIOUS
<1>2. spaces # {} => Min(spaces) \in spaces
  <2>1. \A k \in i..Len(line) : k \in Nat
    BY <1>1
  <2>2. spaces \subseteq i..Len(line)
    OBVIOUS
  <2> HIDE DEF spaces
  <2>3. spaces \subseteq Nat
    BY <2>1, <2>2
  <2> QED BY <2>3, MinIsIn
<1>3. spaces # {} => Min(spaces) \in i..Len(line)
  BY <1>2
<1> HIDE DEF spaces
<1>4. j \in Int /\ j <= Len(line)
  BY <1>1, <1>3
<1>5. Word(line, i) = SubSeq(line, i, j)
  BY DEF Word, spaces
<1> HIDE DEF j
<1> QED BY <1>1, <1>4, <1>5, PartOfLine

LEMMA ParamsType ==
    ASSUME NEW C, NEW line \in Seq(C)
    PROVE  params(line) \in Seq(Seq(C))
<1> DEFINE words == CommandAt(line) \ {Min(CommandAt(line))}
           colons == {i \in words : line[i] = ":"}
           middle == IF colons = {} THEN words
                     ELSE {i \in words : i < Min(colons)}
           order == InOrder(middle)
           first == [n \in DOMAIN order |-> Word(line, order[n])]
           last == IF colons = {} THEN <<>>
                   ELSE <<SubSeq(line, Min(colons) + 1, Len(line))>>
<1>1. Len(line) \in Nat /\ DOMAIN line = 1..Len(line)
  OBVIOUS
<1>2. words \subseteq 1..Len(line)
  BY <1>1 DEF CommandAt, Starts
<1>3. colons \subseteq words /\ middle \subseteq words
  OBVIOUS
<1>4. params(line) = first \o last
  BY DEF params
<1> HIDE DEF words, colons, middle
<1>5. middle \subseteq 1..Len(line) /\ colons \subseteq 1..Len(line)
  BY <1>2, <1>3
<1>6. Cardinality(middle) \in Nat /\ order \in [1..Cardinality(middle) -> middle]
  <2>1. IsFiniteSet(middle) /\ middle \subseteq Nat
    BY <1>1, <1>5, RankEnds
  <2> QED BY <2>1, InOrderLists
<1> HIDE DEF order
<1>7. \A n \in 1..Cardinality(middle) : Word(line, order[n]) \in Seq(C)
  <2> TAKE n \in 1..Cardinality(middle)
  <2>1. order[n] \in DOMAIN line
    BY <1>1, <1>5, <1>6
  <2> QED BY <2>1, WordType
<1>8. first \in Seq(Seq(C))
  <2> DEFINE T == Seq(C)
  <2>1. first = [n \in 1..Cardinality(middle) |-> Word(line, order[n])]
    BY <1>6
  <2>2. \A n \in 1..Cardinality(middle) : Word(line, order[n]) \in T
    BY <1>7
  <2> HIDE DEF T
  <2>3. first \in [1..Cardinality(middle) -> T]
    BY <2>1, <2>2
  <2>4. first \in Seq(T)
    <3> HIDE DEF first
    <3> QED BY <1>6, <2>3
  <2> QED BY <2>4 DEF T
<1>9. last \in Seq(Seq(C))
  <2>1. CASE colons = {}
    BY <2>1
  <2>2. CASE colons # {}
    <3>1. Min(colons) \in 1..Len(line)
      <4>1. colons \subseteq Nat
        BY <1>5
      <4>2. Min(colons) \in colons
        BY <2>2, <4>1, MinIsIn
      <4> QED BY <1>5, <4>2
    <3>2. Min(colons) + 1 \in Nat \ {0} /\ Len(line) \in Int /\ Len(line) <= Len(line)
      BY <1>1, <3>1
    <3>3. SubSeq(line, Min(colons) + 1, Len(line)) \in Seq(C)
      BY <3>2, PartOfLine
    <3> QED BY <2>2, <3>3
  <2> QED BY <2>1, <2>2
<1> HIDE DEF first, last
<1> QED BY <1>4, <1>8, <1>9, ConcatProperties

-----------------------------------------------------------------------------
(* The least of a set of positions.                                        *)

LEMMA MinIs ==
    ASSUME NEW S, S \subseteq Nat, NEW m \in S, \A k \in S : m <= k
    PROVE  Min(S) = m
<1>1. Min(S) \in S /\ \A k \in S : Min(S) <= k
  BY MinIsIn
<1>2. Min(S) \in Nat /\ m \in Nat /\ Min(S) <= m /\ m <= Min(S)
  BY <1>1
<1> QED BY <1>2

LEMMA MinOfOne ==
    ASSUME NEW m \in Nat
    PROVE  Min({m}) = m
<1> DEFINE S == {m}
<1>1. S \subseteq Nat /\ m \in S /\ \A k \in S : m <= k
  OBVIOUS
<1> HIDE DEF S
<1>2. Min(S) = m
  BY <1>1, MinIs
<1> QED BY <1>2 DEF S

(* Later positions do not change it.                                       *)
LEMMA MinOfMore ==
    ASSUME NEW S, S \subseteq Nat, S # {}, NEW More, More \subseteq Nat,
           \A s \in S, e \in More : s < e
    PROVE  Min(S \cup More) = Min(S)
<1> DEFINE A == S \cup More
           m == Min(S)
<1>1. m \in S /\ \A k \in S : m <= k
  BY MinIsIn
<1> HIDE DEF m
<1>2. \A k \in A : m <= k
  <2> TAKE k \in A
  <2>1. m \in Nat /\ k \in Nat
    BY <1>1
  <2>2. CASE k \in S
    BY <1>1, <2>2
  <2>3. CASE k \in More
    <3>1. m < k
      BY <1>1, <2>3
    <3> QED BY <2>1, <3>1
  <2> QED BY <2>2, <2>3
<1>3. A \subseteq Nat /\ m \in A
  BY <1>1
<1> HIDE DEF A
<1>4. Min(A) = m
  BY <1>2, <1>3, MinIs
<1> QED BY <1>4 DEF A, m

(* One later position comes last in the order.                             *)
InOrderWith(S, x) ==
    /\ Cardinality(S) \in Nat
    /\ Cardinality(S \cup {x}) = Cardinality(S) + 1
    /\ \A k \in 1..Cardinality(S) : InOrder(S \cup {x})[k] = InOrder(S)[k]
    /\ InOrder(S \cup {x})[Cardinality(S) + 1] = x

LEMMA InOrderMore ==
    ASSUME NEW n \in Nat, NEW S, S \subseteq 1..n, NEW x \in Nat, x > n
    PROVE  InOrderWith(S, x)
<1> DEFINE A == S \cup {x}
           N == Cardinality(S)
<1>1. IsFiniteSet(S) /\ S \subseteq Nat
  BY RankEnds
<1>2. \A s \in S : s \in Nat /\ s <= n /\ s < x
  OBVIOUS
<1>3. IsFiniteSet(A) /\ A \subseteq Nat /\ Cardinality(A) = N + 1 /\ N \in Nat
  <2>1. x \notin S
    BY <1>2
  <2>2. IsFiniteSet(A) /\ Cardinality(A) = N + 1
    BY <1>1, <2>1, FS_AddElement
  <2> QED BY <1>1, <2>2, FS_CardinalityType
<1>4. ASSUME NEW i \in S PROVE Rank(A, i) = Rank(S, i)
  <2>1. {j \in A : j <= i} = {j \in S : j <= i}
    <3>1. i \in Nat /\ i < x
      BY <1>2
    <3>2. ~ (x <= i)
      BY <3>1
    <3> QED BY <3>2
  <2> QED BY <2>1 DEF Rank
<1>5. Rank(A, x) = N + 1
  <2>1. {j \in A : j <= x} = A
    <3>1. \A j \in A : j <= x
      BY <1>2
    <3> QED BY <3>1
  <2> QED BY <1>3, <2>1 DEF Rank
<1> HIDE DEF A, N
<1>6. ASSUME NEW k \in 1..N PROVE InOrder(A)[k] = InOrder(S)[k]
  <2> DEFINE i == InOrder(S)[k]
  <2>1. i \in S /\ Rank(S, i) = k
    BY <1>1, <1>6, InOrderLists DEF N
  <2> HIDE DEF i
  <2>2. i \in A /\ Rank(A, i) = k
    BY <1>4, <2>1 DEF A
  <2>3. k \in 1..Cardinality(A)
    BY <1>3
  <2>4. InOrder(A)[k] = i
    BY <1>3, <2>2, <2>3, InOrderUnique
  <2> QED BY <2>4 DEF i
<1>7. InOrder(A)[N + 1] = x
  <2>1. x \in A /\ N + 1 \in 1..Cardinality(A)
    BY <1>3 DEF A
  <2> QED BY <1>3, <1>5, <2>1, InOrderUnique
<1> QED BY <1>3, <1>6, <1>7 DEF A, N, InOrderWith

-----------------------------------------------------------------------------
(* A line that grows by a space and a word.                                *)

LEMMA SubSeqKept ==
    ASSUME NEW C, NEW line \in Seq(C), NEW more \in Seq(C),
           NEW i \in Nat \ {0}, NEW j \in Int, j <= Len(line)
    PROVE  SubSeq(line \o more, i, j) = SubSeq(line, i, j)
<1>1. Len(line) \in Nat /\ Len(more) \in Nat
  OBVIOUS
<1>2. \A k \in i..j : k \in 1..Len(line) /\ k \in 1..(Len(line) + Len(more)) /\ k <= Len(line)
  BY <1>1
<1>3. \A k \in i..j : (line \o more)[k] = line[k] /\ line[k] \in C
  BY <1>2, ConcatProperties, ElementOfSeq
<1> DEFINE a == SubSeq(line \o more, i, j)
           b == SubSeq(line, i, j)
<1>4. /\ a \in Seq(C) /\ Len(a) = (IF i <= j THEN j - i + 1 ELSE 0)
      /\ \A k \in 1..(j - i + 1) : a[k] = (line \o more)[i + k - 1]
  BY <1>3, SubSeqProperties
<1>5. /\ b \in Seq(C) /\ Len(b) = (IF i <= j THEN j - i + 1 ELSE 0)
      /\ \A k \in 1..(j - i + 1) : b[k] = line[i + k - 1]
  BY <1>3, SubSeqProperties
<1>6. \A k \in 1..(j - i + 1) : i + k - 1 \in i..j
  OBVIOUS
<1>7. \A k \in 1..Len(a) : k \in 1..(j - i + 1)
  BY <1>4
<1> HIDE DEF a, b
<1>8. \A k \in 1..Len(a) : a[k] = b[k]
  BY <1>3, <1>4, <1>5, <1>6, <1>7
<1>9. a = b
  BY <1>4, <1>5, <1>8, SeqEqual
<1> QED BY <1>9 DEF a, b

LEMMA SubSeqAdded ==
    ASSUME NEW C, NEW line \in Seq(C), NEW more \in Seq(C)
    PROVE  SubSeq(line \o more, Len(line) + 1, Len(line \o more)) = more
<1> DEFINE n == Len(line)
           m == Len(more)
           both == line \o more
           part == SubSeq(both, n + 1, n + m)
<1>1. /\ n \in Nat /\ m \in Nat /\ both \in Seq(C) /\ Len(both) = n + m
      /\ \A k \in 1..(n + m) : both[k] = IF k <= n THEN line[k] ELSE more[k - n]
  BY ConcatProperties
<1> HIDE DEF both, n, m
<1>2. \A k \in (n + 1)..(n + m) : k \in 1..Len(both)
  BY <1>1
<1>3. \A k \in (n + 1)..(n + m) : both[k] \in C
  BY <1>1, <1>2, ElementOfSeq
<1>4. /\ part \in Seq(C) /\ Len(part) = (IF n + 1 <= n + m THEN n + m - (n + 1) + 1 ELSE 0)
      /\ \A k \in 1..(n + m - (n + 1) + 1) : part[k] = both[n + 1 + k - 1]
  BY <1>1, <1>3, SubSeqProperties
<1>5. Len(part) = m /\ n + m - (n + 1) + 1 = m
  BY <1>1, <1>4
<1>6. \A k \in 1..m : n + 1 + k - 1 = n + k /\ n + k \in 1..(n + m) /\ ~ (n + k <= n) /\ n + k - n = k
  BY <1>1
<1>7. \A k \in 1..m : part[k] = more[k]
  BY <1>1, <1>4, <1>5, <1>6
<1> HIDE DEF part
<1>8. part = more
  BY <1>4, <1>5, <1>7, SeqEqual DEF m
<1> QED BY <1>1, <1>8 DEF part, both, n, m
Words(line) == CommandAt(line) \ {Min(CommandAt(line))}

(* The end of a line that grows, from the space on.                        *)
IsTail(C, tail) ==
    tail \in Seq(C) /\ Len(tail) >= 2 /\ tail[1] = Space /\ tail[2] # Space

OneWord(tail) == \A k \in 2..Len(tail) : tail[k] # Space

More(line, tail) == {i \in Starts(line \o tail) : i > Len(line)}

LEMMA CharacterAt ==
    ASSUME NEW C, NEW line \in Seq(C), NEW tail \in Seq(C)
    PROVE  /\ Len(line) \in Nat /\ Len(tail) \in Nat
           /\ line \o tail \in Seq(C) /\ Len(line \o tail) = Len(line) + Len(tail)
           /\ DOMAIN line = 1..Len(line)
           /\ DOMAIN (line \o tail) = 1..(Len(line) + Len(tail))
           /\ \A i \in 1..Len(line) : (line \o tail)[i] = line[i]
           /\ \A i \in (Len(line) + 1)..(Len(line) + Len(tail)) :
                 (line \o tail)[i] = tail[i - Len(line)]
<1>1. /\ Len(line) \in Nat /\ Len(tail) \in Nat
      /\ DOMAIN line = 1..Len(line)
  OBVIOUS
<1>2. /\ line \o tail \in Seq(C) /\ Len(line \o tail) = Len(line) + Len(tail)
      /\ \A i \in 1..(Len(line) + Len(tail)) :
            (line \o tail)[i] = IF i <= Len(line) THEN line[i] ELSE tail[i - Len(line)]
  BY ConcatProperties
<1>3. DOMAIN (line \o tail) = 1..(Len(line) + Len(tail))
  BY <1>2, LenProperties
<1>4. /\ \A i \in 1..Len(line) : i <= Len(line) /\ i \in 1..(Len(line) + Len(tail))
      /\ \A i \in (Len(line) + 1)..(Len(line) + Len(tail)) :
            ~ (i <= Len(line)) /\ i \in 1..(Len(line) + Len(tail))
  BY <1>1
<1> QED BY <1>1, <1>2, <1>3, <1>4

LEMMA StartsGrow ==
    ASSUME NEW C, NEW line \in Seq(C), NEW tail, IsTail(C, tail)
    PROVE  /\ Starts(line) \subseteq 1..Len(line)
           /\ Starts(line \o tail) = Starts(line) \cup More(line, tail)
           /\ More(line, tail) \subseteq (Len(line) + 2)..(Len(line) + Len(tail))
           /\ Len(line) + 2 \in More(line, tail)
           /\ OneWord(tail) => More(line, tail) = {Len(line) + 2}
<1> DEFINE two == line \o tail
           n == Len(line)
           w == Len(tail)
<1>1. /\ n \in Nat /\ w \in Nat
      /\ DOMAIN line = 1..n /\ DOMAIN two = 1..(n + w)
      /\ \A i \in 1..n : two[i] = line[i]
      /\ \A i \in (n + 1)..(n + w) : two[i] = tail[i - n]
  BY CharacterAt DEF IsTail
<1>2. w >= 2 /\ tail[1] = Space /\ tail[2] # Space
  BY DEF IsTail
<1> HIDE DEF two, n, w
<1>3. Starts(line) = {i \in 1..n : line[i] # Space /\ (i = 1 \/ line[i - 1] = Space)}
  BY <1>1 DEF Starts
<1>4. Starts(two) = {i \in 1..(n + w) : two[i] # Space /\ (i = 1 \/ two[i - 1] = Space)}
  BY <1>1 DEF Starts
<1>5. ASSUME NEW i \in 1..n PROVE i \in Starts(two) <=> i \in Starts(line)
  <2>1. i \in 1..(n + w) /\ two[i] = line[i]
    BY <1>1
  <2>2. i # 1 => i - 1 \in 1..n
    BY <1>1
  <2>3. i # 1 => two[i - 1] = line[i - 1]
    BY <1>1, <2>2
  <2> QED BY <1>3, <1>4, <2>1, <2>3
<1>6. More(line, tail) = {i \in Starts(two) : i > n}
  BY DEF More, two, n
<1>7. Starts(two) = Starts(line) \cup More(line, tail)
  <2>1. \A i \in Starts(two) : i \in 1..n \/ i > n
    BY <1>1, <1>4
  <2>2. \A i \in Starts(line) : i \in 1..n
    BY <1>3
  <2> QED BY <1>5, <1>6, <2>1, <2>2
<1>8. two[n + 1] = Space /\ two[n + 2] # Space
  <2>1. n + 1 \in (n + 1)..(n + w) /\ n + 2 \in (n + 1)..(n + w)
    BY <1>1, <1>2
  <2>2. (n + 1) - n = 1 /\ (n + 2) - n = 2
    BY <1>1
  <2> QED BY <1>1, <1>2, <2>1, <2>2
<1>9. n + 2 \in More(line, tail)
  <2>1. n + 2 \in 1..(n + w) /\ (n + 2) - 1 = n + 1 /\ n + 2 > n
    BY <1>1, <1>2
  <2> QED BY <1>4, <1>6, <1>8, <2>1
<1>10. ASSUME NEW i \in More(line, tail) PROVE i \in (n + 2)..(n + w)
  <2>1. i \in 1..(n + w) /\ two[i] # Space /\ i > n
    BY <1>4, <1>6
  <2>2. i # n + 1
    BY <1>8, <2>1
  <2> QED BY <1>1, <2>1, <2>2
<1>11. ASSUME OneWord(tail), NEW i \in More(line, tail) PROVE i = n + 2
  <2> SUFFICES ASSUME i # n + 2 PROVE FALSE
    OBVIOUS
  <2>1. i \in (n + 2)..(n + w)
    BY <1>10
  <2>2. i - 1 \in (n + 1)..(n + w) /\ (i - 1) - n \in 2..w /\ i # 1
    BY <1>1, <2>1
  <2>3. two[i - 1] = tail[(i - 1) - n]
    BY <1>1, <2>2
  <2>4. two[i - 1] # Space
    BY <1>11, <2>2, <2>3 DEF OneWord, w
  <2>5. two[i - 1] = Space
    BY <1>4, <1>6, <2>2
  <2> QED BY <2>4, <2>5
<1>12. Starts(line) \subseteq 1..n
  BY <1>3
<1>13. More(line, tail) \subseteq (n + 2)..(n + w)
  BY <1>10
<1>14. OneWord(tail) => More(line, tail) = {n + 2}
  BY <1>9, <1>11
<1> QED BY <1>7, <1>9, <1>12, <1>13, <1>14 DEF two, n, w

LEMMA WordsGrow ==
    ASSUME NEW C, NEW line \in Seq(C), NEW tail, IsTail(C, tail), Parses(line)
    PROVE  /\ Parses(line \o tail)
           /\ Words(line) \subseteq 1..Len(line)
           /\ Words(line \o tail) = Words(line) \cup More(line, tail)
<1> DEFINE two == line \o tail
           S == Starts(line)
           E == More(line, tail)
           m == Min(S)
           c == Min(CommandAt(line))
<1>1. /\ Len(line) \in Nat /\ Len(tail) \in Nat
      /\ \A i \in 1..Len(line) : two[i] = line[i]
  BY CharacterAt DEF IsTail
<1>2. /\ S \subseteq 1..Len(line) /\ Starts(two) = S \cup E
      /\ E \subseteq (Len(line) + 2)..(Len(line) + Len(tail))
  BY StartsGrow
<1>3. CommandAt(line) = IF HasPrefix(line) THEN S \ {m} ELSE S
  BY DEF CommandAt
<1>4. CommandAt(line) # {} /\ CommandAt(line) \subseteq S /\ S # {}
  BY <1>3 DEF Parses
<1> HIDE DEF S, E, m, two
<1>5. S \subseteq Nat /\ E \subseteq Nat /\ \A s \in S, e \in E : s < e
  <2>1. \A s \in S : s \in 1..Len(line)
    BY <1>2
  <2>2. \A e \in E : e \in (Len(line) + 2)..(Len(line) + Len(tail))
    BY <1>2
  <2>3. \A s \in 1..Len(line) : s \in Nat /\ s <= Len(line)
    BY <1>1
  <2>4. \A e \in (Len(line) + 2)..(Len(line) + Len(tail)) : e \in Nat /\ Len(line) < e
    BY <1>1
  <2> QED BY <1>1, <2>1, <2>2, <2>3, <2>4
<1>6. m \in S /\ Min(S \cup E) = m
  BY <1>4, <1>5, MinIsIn, MinOfMore DEF m
<1>7. Starts(two) # {} /\ Min(Starts(two)) = m /\ two[m] = line[m]
  BY <1>1, <1>2, <1>4, <1>6
<1>8. HasPrefix(two) <=> HasPrefix(line)
  BY <1>4, <1>7 DEF HasPrefix, S, m
<1>9. CommandAt(two) = CommandAt(line) \cup E
  <2>1. m \notin E
    BY <1>5, <1>6
  <2>2. CommandAt(two) = IF HasPrefix(two) THEN Starts(two) \ {m} ELSE Starts(two)
    BY <1>7 DEF CommandAt
  <2> QED BY <1>2, <1>3, <1>8, <2>1, <2>2
<1>10. CommandAt(line) \subseteq Nat /\ \A s \in CommandAt(line), e \in E : s < e
  BY <1>4, <1>5
<1>11. c \in CommandAt(line) /\ Min(CommandAt(two)) = c
  BY <1>4, <1>5, <1>9, <1>10, MinIsIn, MinOfMore
<1>12. c \notin E
  BY <1>5, <1>10, <1>11
<1>13. Words(two) = (CommandAt(line) \cup E) \ {c} /\ Words(line) = CommandAt(line) \ {c}
  BY <1>9, <1>11 DEF Words
<1> HIDE DEF c
<1>14. Words(two) = Words(line) \cup E
  BY <1>12, <1>13
<1>15. Parses(two)
  BY <1>4, <1>9 DEF Parses
<1>16. Words(line) \subseteq 1..Len(line)
  BY <1>2, <1>4, <1>13
<1> QED BY <1>14, <1>15, <1>16 DEF two, E

(* The words that were there stay what they were.                          *)
LEMMA WordKept ==
    ASSUME NEW C, NEW line \in Seq(C), NEW tail, IsTail(C, tail),
           NEW i \in 1..Len(line)
    PROVE  Word(line \o tail, i) = Word(line, i)
<1> DEFINE two == line \o tail
           n == Len(line)
           w == Len(tail)
           early == {j \in i..n : line[j] = Space}
           late == {j \in (n + 1)..(n + w) : two[j] = Space}
           all == {j \in i..(n + w) : two[j] = Space}
           j1 == IF early = {} THEN n ELSE Min(early) - 1
<1>1. /\ n \in Nat /\ w \in Nat /\ Len(two) = n + w
      /\ \A j \in 1..n : two[j] = line[j]
      /\ \A j \in (n + 1)..(n + w) : two[j] = tail[j - n]
  BY CharacterAt DEF IsTail
<1>2. w >= 2 /\ tail[1] = Space
  BY DEF IsTail
<1>3. i \in 1..n
  OBVIOUS
<1>4. Word(line, i) = SubSeq(line, i, j1)
  BY DEF Word
<1>5. Word(two, i) = SubSeq(two, i, IF all = {} THEN n + w ELSE Min(all) - 1)
  BY <1>1 DEF Word
<1> HIDE DEF two, n, w
<1>6. all = early \cup late
  <2>1. \A j : j \in i..(n + w) <=> j \in i..n \/ j \in (n + 1)..(n + w)
    BY <1>1, <1>3
  <2>2. \A j \in i..n : two[j] = line[j]
    BY <1>1, <1>3
  <2> QED BY <2>1, <2>2
<1>7. early \subseteq i..n /\ late \subseteq (n + 1)..(n + w)
  OBVIOUS
<1>8. n + 1 \in late
  <2>1. n + 1 \in (n + 1)..(n + w) /\ (n + 1) - n = 1
    BY <1>1, <1>2
  <2>2. two[n + 1] = Space
    BY <1>1, <1>2, <2>1
  <2> QED BY <2>1, <2>2
<1> HIDE DEF early, late, all
<1>9. early \subseteq Nat /\ late \subseteq Nat /\ \A s \in early, e \in late : s < e
  BY <1>1, <1>3, <1>7
<1>10. all # {} /\ Min(all) - 1 = j1
  <2>1. CASE early = {}
    <3>1. \A e \in late : n + 1 <= e
      BY <1>1, <1>7
    <3>2. Min(late) = n + 1
      BY <1>8, <1>9, <3>1, MinIs
    <3>3. all = late
      BY <1>6, <2>1
    <3> QED BY <1>1, <1>8, <2>1, <3>2, <3>3
  <2>2. CASE early # {}
    <3>1. Min(all) = Min(early)
      BY <1>6, <1>9, <2>2, MinOfMore
    <3> QED BY <1>6, <2>2, <3>1
  <2> QED BY <2>1, <2>2
<1>11. j1 \in Int /\ j1 <= n
  <2>1. early # {} => Min(early) \in i..n
    BY <1>7, <1>9, MinIsIn
  <2> QED BY <1>1, <1>3, <2>1
<1> HIDE DEF j1
<1>12. Word(two, i) = SubSeq(two, i, j1)
  BY <1>5, <1>10
<1>13. SubSeq(two, i, j1) = SubSeq(line, i, j1)
  <2>1. i \in Nat \ {0} /\ tail \in Seq(C)
    BY <1>1, <1>3 DEF IsTail
  <2> QED BY <1>11, <2>1, SubSeqKept DEF two, n
<1> QED BY <1>4, <1>12, <1>13 DEF two
(* What a line says after its command, while no parameter is the last.     *)
ReadsAs(line, texts) ==
    /\ Parses(line)
    /\ \A i \in Words(line) : line[i] # ":"
    /\ Len(texts) = Cardinality(Words(line))
    /\ \A n \in 1..Len(texts) : Word(line, InOrder(Words(line))[n]) = texts[n]

LEMMA MiddleTail ==
    ASSUME NEW C, Space \in C, NEW text \in Seq(C), IsMiddle(text)
    PROVE  /\ IsTail(C, <<Space>> \o text) /\ OneWord(<<Space>> \o text)
           /\ (<<Space>> \o text)[2] # ":"
<1> DEFINE tail == <<Space>> \o text
<1>1. <<Space>> \in Seq(C) /\ Len(<<Space>>) = 1 /\ <<Space>>[1] = Space
  OBVIOUS
<1>2. /\ Len(text) \in Nat /\ tail \in Seq(C) /\ Len(tail) = 1 + Len(text)
      /\ tail[1] = Space
      /\ \A i \in (1 + 1)..(1 + Len(text)) : tail[i] = text[i - 1]
  <2>1. 1 \in 1..1
    OBVIOUS
  <2> QED BY <1>1, <2>1, CharacterAt
<1> HIDE DEF tail
<1>3. /\ text # <<>> /\ text[1] # ":" /\ \A i \in DOMAIN text : text[i] # Space
  BY DEF IsMiddle
<1>4. Len(text) \in Nat \ {0} /\ DOMAIN text = 1..Len(text)
  BY <1>3, EmptySeq, LenProperties
<1>5. \A i \in 2..(1 + Len(text)) : i - 1 \in 1..Len(text) /\ tail[i] = text[i - 1]
  BY <1>2, <1>4
<1>6. 2 \in 2..(1 + Len(text)) /\ 2 - 1 = 1
  BY <1>4
<1>7. tail[2] = text[1] /\ 1 \in 1..Len(text)
  BY <1>5, <1>6
<1>8. OneWord(tail)
  BY <1>2, <1>3, <1>4, <1>5 DEF OneWord
<1>9. IsTail(C, tail)
  BY <1>2, <1>3, <1>4, <1>7 DEF IsTail
<1> QED BY <1>3, <1>7, <1>8, <1>9 DEF tail

LEMMA LastWord ==
    ASSUME NEW C, Space \in C, NEW line \in Seq(C), NEW text \in Seq(C), IsMiddle(text)
    PROVE  Word(line \o (<<Space>> \o text), Len(line) + 2) = text
<1> DEFINE tail == <<Space>> \o text
           two == line \o tail
           n == Len(line)
           w == Len(tail)
           spaces == {j \in (n + 2)..Len(two) : two[j] = Space}
<1>1. IsTail(C, tail) /\ OneWord(tail)
  BY MiddleTail
<1> HIDE DEF tail
<1>2. /\ n \in Nat /\ w \in Nat /\ Len(two) = n + w
      /\ \A j \in (n + 1)..(n + w) : two[j] = tail[j - n]
  BY <1>1, CharacterAt DEF IsTail
<1> HIDE DEF two, n, w
<1>3. \A j \in (n + 2)..(n + w) : j \in (n + 1)..(n + w) /\ j - n \in 2..w
  BY <1>2
<1>4. \A k \in 2..w : tail[k] # Space
  BY <1>1 DEF OneWord, w
<1>5. spaces = {}
  BY <1>2, <1>3, <1>4
<1>6. Word(two, n + 2) = SubSeq(two, n + 2, Len(two))
  BY <1>5 DEF Word
<1>7. SubSeq(two, n + 2, Len(two)) = text
  <2> DEFINE front == line \o <<Space>>
  <2>1. <<Space>> \in Seq(C) /\ Len(<<Space>>) = 1
    OBVIOUS
  <2>2. front \in Seq(C) /\ Len(front) = n + 1
    BY <2>1, ConcatProperties DEF n
  <2>3. two = front \o text
    BY <2>1, ConcatAssociative DEF two, tail
  <2> HIDE DEF front
  <2>4. SubSeq(front \o text, Len(front) + 1, Len(front \o text)) = text
    BY <2>2, SubSeqAdded
  <2>5. (n + 1) + 1 = n + 2
    BY <1>2
  <2> QED BY <2>2, <2>3, <2>4, <2>5
<1> QED BY <1>6, <1>7 DEF two, n, tail

LEMMA ReadsMore ==
    ASSUME NEW C, NEW D, Space \in C, NEW line \in Seq(C), NEW texts \in Seq(D),
           ReadsAs(line, texts), NEW text \in Seq(C), text \in D, IsMiddle(text)
    PROVE  ReadsAs(line \o (<<Space>> \o text), Append(texts, text))
<1> DEFINE tail == <<Space>> \o text
           two == line \o tail
           n == Len(line)
           W == Words(line)
           K == Cardinality(W)
           more == Append(texts, text)
<1>1. IsTail(C, tail) /\ OneWord(tail) /\ tail[2] # ":"
  BY MiddleTail
<1>2. Word(two, n + 2) = text
  BY LastWord
<1> HIDE DEF tail
<1>3. /\ n \in Nat /\ Len(tail) \in Nat /\ Len(tail) >= 2
      /\ \A i \in 1..n : two[i] = line[i]
      /\ \A i \in (n + 1)..(n + Len(tail)) : two[i] = tail[i - n]
  BY <1>1, CharacterAt DEF IsTail
<1>4. Parses(two) /\ W \subseteq 1..n /\ Words(two) = W \cup {n + 2}
  BY <1>1, WordsGrow, StartsGrow DEF ReadsAs
<1>5. \A i \in 1..n : Word(two, i) = Word(line, i)
  BY <1>1, WordKept
<1>6. /\ \A i \in W : line[i] # ":"
      /\ Len(texts) = K /\ \A k \in 1..K : Word(line, InOrder(W)[k]) = texts[k]
  BY DEF ReadsAs
<1> HIDE DEF two, n, W
<1>7. n + 2 \in Nat /\ n + 2 > n
  BY <1>3
<1>8. /\ K \in Nat /\ Cardinality(Words(two)) = K + 1
      /\ \A k \in 1..K : InOrder(Words(two))[k] = InOrder(W)[k]
      /\ InOrder(Words(two))[K + 1] = n + 2
  <2> DEFINE x == n + 2
  <2>1. x \in Nat /\ x > n /\ Words(two) = W \cup {x}
    BY <1>4, <1>7
  <2> HIDE DEF x
  <2>2. InOrderWith(W, x)
    BY <1>3, <1>4, <2>1, InOrderMore
  <2> QED BY <2>1, <2>2 DEF InOrderWith, x
<1>9. \A k \in 1..K : InOrder(W)[k] \in 1..n
  <2>1. IsFiniteSet(W) /\ W \subseteq Nat
    BY <1>3, <1>4, RankEnds
  <2>2. InOrder(W) \in [1..K -> W]
    BY <2>1, InOrderLists
  <2> QED BY <1>4, <2>2
<1> HIDE DEF K
<1>10. Len(more) = K + 1 /\ more[K + 1] = text /\ \A k \in 1..K : more[k] = texts[k]
  BY <1>6
<1> HIDE DEF more
<1>11. ASSUME NEW k \in 1..Len(more)
       PROVE  Word(two, InOrder(Words(two))[k]) = more[k]
  <2>1. k \in 1..K \/ k = K + 1
    BY <1>8, <1>10
  <2>2. CASE k \in 1..K
    BY <1>5, <1>6, <1>8, <1>9, <1>10, <2>2
  <2>3. CASE k = K + 1
    BY <1>2, <1>8, <1>10, <2>3
  <2> QED BY <2>1, <2>2, <2>3
<1>12. ASSUME NEW i \in Words(two) PROVE two[i] # ":"
  <2>1. CASE i \in W
    BY <1>3, <1>4, <1>6, <2>1
  <2>2. CASE i = n + 2
    <3>1. n + 2 \in (n + 1)..(n + Len(tail)) /\ (n + 2) - n = 2
      BY <1>3
    <3> QED BY <1>1, <1>3, <2>2, <3>1
  <2> QED BY <1>4, <2>1, <2>2
<1>13. Len(more) = Cardinality(Words(two))
  BY <1>8, <1>10
<1>14. ReadsAs(two, more)
  BY <1>4, <1>11, <1>12, <1>13 DEF ReadsAs
<1> QED BY <1>14 DEF two, tail, more

LEMMA WordsListed ==
    ASSUME NEW C, NEW D, NEW line \in Seq(C), NEW texts \in Seq(D),
           ReadsAs(line, texts), NEW order, order = InOrder(Words(line))
    PROVE  [n \in DOMAIN order |-> Word(line, order[n])] = texts
<1>1. Words(line) \subseteq 1..Len(line) /\ Len(line) \in Nat
  <2>1. DOMAIN line = 1..Len(line) /\ Len(line) \in Nat
    OBVIOUS
  <2>2. Starts(line) \subseteq 1..Len(line)
    BY <2>1 DEF Starts
  <2> QED BY <2>1, <2>2 DEF Words, CommandAt
<1>2. IsFiniteSet(Words(line)) /\ Words(line) \subseteq Nat
  BY <1>1, RankEnds
<1>3. DOMAIN order = 1..Cardinality(Words(line))
  BY <1>2, InOrderLists
<1>4. DOMAIN texts = 1..Len(texts) /\ Len(texts) = Cardinality(Words(line))
  BY LenProperties DEF ReadsAs
<1>5. \A n \in DOMAIN order : Word(line, order[n]) = texts[n]
  BY <1>3, <1>4 DEF ReadsAs
<1>6. texts = [n \in DOMAIN order |-> texts[n]]
  BY <1>3, <1>4
<1> QED BY <1>5, <1>6

LEMMA ReadsParams ==
    ASSUME NEW C, NEW D, NEW line \in Seq(C), NEW texts \in Seq(D),
           ReadsAs(line, texts)
    PROVE  params(line) = texts
<1> DEFINE order == InOrder(Words(line))
<1>1. {i \in Words(line) : line[i] = ":"} = {}
  BY DEF ReadsAs
<1>2. [n \in DOMAIN order |-> Word(line, order[n])] = texts
  BY WordsListed
<1>3. params(line) = [n \in DOMAIN order |-> Word(line, order[n])] \o <<>>
  BY <1>1 DEF params, Words
<1> QED BY <1>2, <1>3, ConcatEmptySeq

AddsLast(line, texts, text) ==
    params(line \o (<<Space, ":">> \o text)) = Append(texts, text)

LEMMA ReadsLast ==
    ASSUME NEW C, NEW D, Space \in C, ":" \in C, NEW line \in Seq(C),
           NEW texts \in Seq(D), ReadsAs(line, texts), NEW text \in Seq(C), text \in D
    PROVE  AddsLast(line, texts, text)
<1> DEFINE mark == <<Space, ":">>
           tail == mark \o text
           two == line \o tail
           n == Len(line)
           W == Words(line)
           E == More(line, tail)
           order == InOrder(W)
<1>1. /\ mark \in Seq(C) /\ Len(mark) = 2 /\ mark[1] = Space /\ mark[2] = ":"
  OBVIOUS
<1>2. Space # ":"
  BY Zenon DEF Space
<1> HIDE DEF mark
<1>3. /\ tail \in Seq(C) /\ Len(text) \in Nat /\ Len(tail) = 2 + Len(text)
      /\ \A i \in 1..2 : tail[i] = mark[i]
  <2>1. /\ Len(text) \in Nat /\ tail \in Seq(C)
        /\ Len(tail) = Len(mark) + Len(text)
        /\ \A i \in 1..Len(mark) : tail[i] = mark[i]
    BY <1>1, CharacterAt
  <2> HIDE DEF tail
  <2> QED BY <1>1, <2>1
<1>4. IsTail(C, tail)
  <2>1. 1 \in 1..2 /\ 2 \in 1..2
    OBVIOUS
  <2>2. tail[1] = Space /\ tail[2] = ":"
    BY <1>1, <1>3, <2>1
  <2> QED BY <1>2, <1>3, <2>2 DEF IsTail
<1>5. tail[2] = ":"
  BY <1>1, <1>3
<1> HIDE DEF tail
<1>6. /\ n \in Nat /\ Len(tail) \in Nat /\ Len(tail) >= 2
      /\ two \in Seq(C) /\ Len(two) = n + Len(tail)
      /\ \A i \in 1..n : two[i] = line[i]
      /\ \A i \in (n + 1)..(n + Len(tail)) : two[i] = tail[i - n]
  BY <1>4, CharacterAt DEF IsTail
<1>7. /\ W \subseteq 1..n /\ Words(two) = W \cup E
  BY <1>4, WordsGrow DEF ReadsAs
<1>8. E \subseteq (n + 2)..(n + Len(tail)) /\ n + 2 \in E
  BY <1>4, StartsGrow
<1>9. \A i \in 1..n : Word(two, i) = Word(line, i)
  BY <1>4, WordKept
<1>10. \A i \in W : line[i] # ":"
  BY DEF ReadsAs
<1>11. [k \in DOMAIN order |-> Word(line, order[k])] = texts
  BY WordsListed
<1>12. two[n + 2] = ":"
  <2>1. n + 2 \in (n + 1)..(n + Len(tail)) /\ (n + 2) - n = 2
    BY <1>6
  <2> QED BY <1>5, <1>6, <2>1
<1>13. SubSeq(two, (n + 2) + 1, Len(two)) = text
  <2> DEFINE front == line \o mark
  <2>1. front \in Seq(C) /\ Len(front) = n + 2
    <3>1. front \in Seq(C) /\ Len(front) = Len(line) + Len(mark)
      BY <1>1, ConcatProperties
    <3> QED BY <1>1, <3>1
  <2>2. two = front \o text
    BY <1>1, ConcatAssociative DEF two, tail
  <2> HIDE DEF front
  <2>3. SubSeq(front \o text, Len(front) + 1, Len(front \o text)) = text
    BY <2>1, SubSeqAdded
  <2> QED BY <2>1, <2>2, <2>3
<1>14. \A k \in DOMAIN order : order[k] \in 1..n
  <2>1. IsFiniteSet(W) /\ W \subseteq Nat
    BY <1>6, <1>7, RankEnds
  <2>2. order \in [1..Cardinality(W) -> W]
    BY <2>1, InOrderLists
  <2> HIDE DEF order
  <2> QED BY <1>7, <2>2
<1> DEFINE colons == {i \in Words(two) : two[i] = ":"}
           middle == IF colons = {} THEN Words(two) ELSE {i \in Words(two) : i < Min(colons)}
           listed == InOrder(middle)
<1>15. params(two) = [k \in DOMAIN listed |-> Word(two, listed[k])]
                        \o (IF colons = {} THEN <<>>
                            ELSE <<SubSeq(two, Min(colons) + 1, Len(two))>>)
  BY DEF params, Words
<1> HIDE DEF two, n, W, E, order
<1>16. n + 2 \in colons /\ \A i \in colons : n + 2 <= i /\ i \in Nat
  <2>1. n + 2 \in colons
    BY <1>7, <1>8, <1>12
  <2>2. ASSUME NEW i \in colons PROVE i \in E
    BY <1>6, <1>7, <1>10, <2>2
  <2>3. \A i \in (n + 2)..(n + Len(tail)) : n + 2 <= i /\ i \in Nat
    BY <1>6
  <2> QED BY <1>8, <2>1, <2>2, <2>3
<1>17. colons # {} /\ Min(colons) = n + 2
  <2> HIDE DEF colons
  <2> QED BY <1>16, MinIs
<1> HIDE DEF colons
<1>18. middle = W
  <2>1. middle = {i \in Words(two) : i < n + 2}
    BY <1>17
  <2>2. \A i \in W : i < n + 2
    BY <1>6, <1>7
  <2>3. \A i \in E : ~ (i < n + 2)
    BY <1>6, <1>8
  <2> QED BY <1>7, <2>1, <2>2, <2>3
<1> HIDE DEF middle
<1>19. listed = order
  BY <1>18 DEF order
<1> HIDE DEF listed
<1>20. [k \in DOMAIN listed |-> Word(two, listed[k])] = texts
  BY <1>9, <1>11, <1>14, <1>19
<1>21. params(two) = texts \o <<text>>
  BY <1>13, <1>15, <1>17, <1>20
<1>22. texts \o <<text>> = Append(texts, text)
  OBVIOUS
<1> QED BY <1>21, <1>22 DEF two, tail, mark, AddsLast

(* What follows other parameters could only have been read as a word.      *)
LEMMA WordMiddle ==
    ASSUME NEW C, NEW line \in Seq(C), NEW i \in DOMAIN line,
           line[i] # Space, line[i] # ":"
    PROVE  IsMiddle(Word(line, i))
<1> DEFINE spaces == {j \in i..Len(line) : line[j] = Space}
           j == IF spaces = {} THEN Len(line) ELSE Min(spaces) - 1
           word == SubSeq(line, i, j)
<1>1. Len(line) \in Nat /\ i \in 1..Len(line)
  OBVIOUS
<1>2. \A k \in spaces : k \in Nat /\ i < k /\ k <= Len(line)
  BY <1>1
<1>3. spaces # {} => Min(spaces) \in spaces /\ \A k \in spaces : Min(spaces) <= k
  <2>1. spaces \subseteq Nat
    BY <1>2
  <2> HIDE DEF spaces
  <2> QED BY <2>1, MinIsIn
<1>4. spaces # {} => /\ Min(spaces) \in Nat /\ i < Min(spaces) /\ Min(spaces) <= Len(line)
                     /\ \A k \in spaces : Min(spaces) <= k
  BY <1>2, <1>3
<1>5. \A k \in i..Len(line) : line[k] = Space => k \in spaces
  OBVIOUS
<1> HIDE DEF spaces
<1>6. j \in Int /\ i <= j /\ j <= Len(line)
  BY <1>1, <1>4
<1>7. \A k \in i..j : k \in i..Len(line) /\ k \notin spaces
  BY <1>1, <1>4
<1>8. \A k \in i..j : line[k] # Space
  BY <1>5, <1>7
<1>9. Word(line, i) = word
  BY DEF Word, spaces
<1> HIDE DEF j
<1>10. \A k \in i..j : line[k] \in C
  BY <1>1, <1>6
<1>11. /\ Len(word) = (j - i) + 1
       /\ \A k \in 1..((j - i) + 1) : word[k] = line[(i + k) - 1]
       /\ word \in Seq(C)
  BY <1>1, <1>6, <1>10, SubSeqProperties
<1> HIDE DEF word
<1>12. /\ DOMAIN word = 1..((j - i) + 1) /\ 1 \in 1..((j - i) + 1)
       /\ (i + 1) - 1 = i
       /\ \A k \in 1..((j - i) + 1) : (i + k) - 1 \in i..j
  BY <1>1, <1>6, <1>11, LenProperties
<1>13. word # <<>> /\ word[1] # ":"
  BY <1>6, <1>11, <1>12
<1>14. \A k \in DOMAIN word : word[k] # Space
  BY <1>8, <1>11, <1>12
<1> QED BY <1>9, <1>13, <1>14 DEF IsMiddle

LEMMA AtMostOne ==
    ASSUME NEW D, NEW x, NEW seq, seq = <<>> \/ seq = <<x>>
    PROVE  seq \in Seq(D \cup {x}) /\ Len(seq) <= 1 /\ Len(seq) \in Nat
<1>1. CASE seq = <<>>
  BY <1>1
<1>2. CASE seq = <<x>>
  <2>1. seq \in Seq(D \cup {x}) /\ Len(seq) = 1
    BY <1>2
  <2> QED BY <2>1
<1> QED BY <1>1, <1>2

LEMMA ParamsMiddle ==
    ASSUME NEW C, NEW line \in Seq(C), NEW n \in 1..(Len(params(line)) - 1)
    PROVE  IsMiddle(params(line)[n])
<1> DEFINE words == CommandAt(line) \ {Min(CommandAt(line))}
           colons == {i \in words : line[i] = ":"}
           middle == IF colons = {} THEN words
                     ELSE {i \in words : i < Min(colons)}
           order == InOrder(middle)
           first == [k \in DOMAIN order |-> Word(line, order[k])]
           last == IF colons = {} THEN <<>>
                   ELSE <<SubSeq(line, Min(colons) + 1, Len(line))>>
           N == Cardinality(middle)
           D == Seq(C)
<1>1. Len(line) \in Nat /\ DOMAIN line = 1..Len(line)
  OBVIOUS
<1>2. words \subseteq 1..Len(line) /\ \A i \in words : line[i] # Space
  BY <1>1 DEF CommandAt, Starts
<1>3. colons = {} \/ \A i \in colons : ~ (i < Min(colons))
  <2>1. colons \subseteq Nat
    BY <1>2
  <2> HIDE DEF colons
  <2> SUFFICES ASSUME colons # {}, NEW i \in colons PROVE ~ (i < Min(colons))
    OBVIOUS
  <2>2. Min(colons) \in colons /\ Min(colons) <= i
    BY <2>1, MinIsIn
  <2>3. Min(colons) \in Nat /\ i \in Nat
    BY <2>1, <2>2
  <2> QED BY <2>2, <2>3
<1>4. middle \subseteq words /\ \A i \in middle : line[i] # ":"
  BY <1>3
<1>5. params(line) = first \o last
  BY DEF params
<1>6. /\ last = <<>> \/ last = <<SubSeq(line, Min(colons) + 1, Len(line))>>
  OBVIOUS
<1> HIDE DEF words, colons, middle
<1>7. N \in Nat /\ order \in [1..N -> middle]
  <2>1. middle \subseteq 1..Len(line)
    BY <1>2, <1>4
  <2>2. IsFiniteSet(middle) /\ middle \subseteq Nat
    BY <1>1, <2>1, RankEnds
  <2> QED BY <2>2, InOrderLists
<1> HIDE DEF order, N
<1>8. \A k \in 1..N : IsMiddle(Word(line, order[k])) /\ Word(line, order[k]) \in D
  <2> TAKE k \in 1..N
  <2>1. order[k] \in DOMAIN line /\ line[order[k]] # Space /\ line[order[k]] # ":"
    BY <1>1, <1>2, <1>4, <1>7
  <2> QED BY <2>1, WordMiddle, WordType
<1>9. first = [k \in 1..N |-> Word(line, order[k])]
  BY <1>7
<1> HIDE DEF D
<1>10. first \in Seq(D) /\ Len(first) = N /\ \A k \in 1..N : first[k] = Word(line, order[k])
  <2>1. first \in [1..N -> D]
    BY <1>8, <1>9
  <2>2. \A k \in 1..N : first[k] = Word(line, order[k])
    BY <1>9
  <2> HIDE DEF first
  <2>3. first \in Seq(D)
    BY <1>7, <2>1
  <2> QED BY <1>7, <2>1, <2>2, <2>3
<1>11. last \in Seq(D \cup {SubSeq(line, Min(colons) + 1, Len(line))}) /\ Len(last) <= 1 /\ Len(last) \in Nat
  <2> DEFINE rest == SubSeq(line, Min(colons) + 1, Len(line))
  <2>1. last = <<>> \/ last = <<rest>>
    BY <1>6
  <2> HIDE DEF rest, last
  <2>2. last \in Seq(D \cup {rest}) /\ Len(last) <= 1 /\ Len(last) \in Nat
    BY <2>1, AtMostOne
  <2> QED BY <2>2 DEF rest
<1> DEFINE E == D \cup {SubSeq(line, Min(colons) + 1, Len(line))}
<1>12. first \in Seq(E) /\ last \in Seq(E)
  <2>1. D \subseteq E
    OBVIOUS
  <2>2. last \in Seq(E)
    BY <1>11
  <2> HIDE DEF E, first, last
  <2>3. first \in Seq(E)
    BY <1>10, <2>1
  <2> QED BY <2>2, <2>3
<1> HIDE DEF E, first, last
<1>13. /\ Len(first \o last) = N + Len(last)
       /\ \A k \in 1..N : (first \o last)[k] = first[k]
  BY <1>7, <1>10, <1>12, CharacterAt
<1>14. n \in 1..N
  BY <1>5, <1>7, <1>11, <1>13
<1> QED BY <1>5, <1>8, <1>10, <1>13, <1>14

-----------------------------------------------------------------------------
(* serialize().                                                            *)

(* What FlattenSeq has put together after each part.                       *)
Joined(C, parts) ==
    {J \in [0..Len(parts) -> Seq(C)] :
        J[0] = <<>> /\ \A n \in 1..Len(parts) : J[n] = J[n - 1] \o parts[n]}

LEMMA FlattenJoined ==
    ASSUME NEW C, NEW parts \in Seq(Seq(C))
    PROVE  \E J \in Joined(C, parts) : FlattenSeq(parts) = J[Len(parts)]
<1> DEFINE N == Len(parts)
           S == Seq(C)
           step == [p \in S \X (1..N) |-> p[1] \o parts[p[2]]]
           Is(g) == g = [i \in 1..N |-> IF i = 1 THEN parts[i] ELSE g[i - 1] \o parts[i]]
<1>1. N \in Nat /\ <<>> \in S
  BY EmptySeq
<1>2. \A n \in 1..N : parts[n] \in S
  OBVIOUS
<1>3. \A s \in S, n \in 1..N : s \o parts[n] \in S
  BY <1>2, ConcatProperties
<1>4. step \in [S \X (1..N) -> S]
  BY <1>3
<1>5. PICK J \in [0..N -> S] :
         J[0] = <<>> /\ \A n \in 1..N : J[n] = step[<<J[n - 1], n>>]
  <2> HIDE DEF step, N, S
  <2>1. Recursions(N, S, <<>>, step) # {}
    BY <1>1, <1>4, RecursionExists
  <2> QED BY <2>1 DEF Recursions
<1>6. ASSUME NEW n \in 1..N PROVE J[n] = J[n - 1] \o parts[n]
  <2>1. J[n - 1] \in S
    <3>1. n - 1 \in 0..N
      BY <1>1
    <3> HIDE DEF S
    <3> QED BY <1>5, <3>1
  <2>2. step[<<J[n - 1], n>>] = J[n - 1] \o parts[n]
    <3> HIDE DEF S, N
    <3> QED BY <2>1
  <2> QED BY <1>5, <2>2
<1>7. J \in Joined(C, parts)
  BY <1>5, <1>6 DEF Joined
<1>8. CASE N = 0
  <2>1. parts = <<>>
    BY <1>8, EmptySeq
  <2>2. FlattenSeq(parts) = parts
    BY <1>8 DEF FlattenSeq
  <2> QED BY <1>5, <1>7, <1>8, <2>1, <2>2
<1>9. CASE N # 0
  <2> DEFINE g == [i \in 1..N |-> J[i]]
             v == CHOOSE h : Is(h)
             T == {n \in 0..N : n = 0 \/ v[n] = J[n]}
  <2>1. N \in 1..N
    BY <1>1, <1>9
  <2>2. FlattenSeq(parts) = v[N]
    BY <1>9 DEF FlattenSeq
  <2>3. J[1] = parts[1]
    <3>1. 1 \in 1..N /\ 1 - 1 = 0
      BY <1>1, <1>9
    <3>2. J[1] = <<>> \o parts[1]
      <4> HIDE DEF S, step, g, v, T, N
      <4>1. J[1] = J[1 - 1] \o parts[1]
        BY <1>6, <3>1
      <4>2. J[1 - 1] = <<>>
        BY <1>5, <3>1
      <4> QED BY <4>1, <4>2
    <3> QED BY <1>2, <3>1, <3>2, ConcatEmptySeq
  <2>4. ASSUME NEW i \in 1..N
        PROVE  g[i] = IF i = 1 THEN parts[i] ELSE g[i - 1] \o parts[i]
    <3>1. CASE i = 1
      BY <2>3, <3>1
    <3>2. CASE i # 1
      <4>1. i - 1 \in 1..N
        BY <1>1, <3>2
      <4>2. g[i - 1] = J[i - 1] /\ g[i] = J[i]
        BY <4>1
      <4> HIDE DEF g
      <4> QED BY <1>6, <3>2, <4>2
    <3> QED BY <3>1, <3>2
  <2>5. Is(g)
    <3>1. g = [i \in 1..N |-> g[i]]
      OBVIOUS
    <3> HIDE DEF g, N
    <3> QED BY <2>4, <3>1
  <2>6. Is(v)
    <3> HIDE DEF Is, g
    <3> QED BY <2>5
  <2>7. \A i \in 1..N : v[i] = IF i = 1 THEN parts[i] ELSE v[i - 1] \o parts[i]
    <3> HIDE DEF v, N
    <3> QED BY <2>6
  <2> HIDE DEF v
  <2>8. 0 \in T
    BY <1>1
  <2>9. ASSUME NEW n \in 0..(N - 1), n \in T PROVE n + 1 \in T
    <3>1. n + 1 \in 1..N /\ n + 1 \in 0..N /\ (n + 1) - 1 = n
      BY <1>1
    <3>2. CASE n = 0
      BY <2>3, <2>7, <3>1, <3>2
    <3>3. CASE n # 0
      <4>1. n + 1 # 1 /\ v[n] = J[n]
        BY <1>1, <2>9, <3>3
      <4>2. v[n + 1] = v[n] \o parts[n + 1]
        BY <2>7, <3>1, <4>1
      <4>3. J[n + 1] = J[n] \o parts[n + 1]
        BY <1>6, <3>1
      <4> QED BY <3>1, <4>1, <4>2, <4>3
    <3> QED BY <3>2, <3>3
  <2>10. \A n \in 0..N : n \in T
    <3> HIDE DEF T, N
    <3> QED BY <1>1, <2>8, <2>9, InductionUpTo
  <2>11. v[N] = J[N]
    BY <1>1, <1>9, <2>10
  <2> QED BY <1>7, <2>2, <2>11
<1> QED BY <1>8, <1>9

(* The prefix and the command, before any parameter.                       *)
LEMMA OneWordStarts ==
    ASSUME NEW C, NEW word \in Seq(C), word # <<>>,
           \A i \in DOMAIN word : word[i] # Space
    PROVE  Starts(word) = {1} /\ Min(Starts(word)) = 1
<1>1. Len(word) \in Nat \ {0} /\ DOMAIN word = 1..Len(word)
  BY EmptySeq, LenProperties
<1>2. 1 \in DOMAIN word
  BY <1>1
<1>3. ASSUME NEW i \in Starts(word) PROVE i = 1
  <2> SUFFICES ASSUME i # 1 PROVE FALSE
    OBVIOUS
  <2>1. i \in 1..Len(word) /\ word[i - 1] = Space
    BY <1>1, <1>3 DEF Starts
  <2>2. i - 1 \in DOMAIN word
    BY <1>1, <2>1
  <2> QED BY <2>1, <2>2
<1>4. Starts(word) = {1}
  BY <1>2, <1>3 DEF Starts
<1>5. Min({1}) = 1
  BY MinOfOne
<1> QED BY <1>4, <1>5

Associates(s, t, u) == (s \o t) \o u = s \o (t \o u)

LEMMA Association ==
    ASSUME NEW C, NEW s \in Seq(C), NEW t \in Seq(C), NEW u \in Seq(C)
    PROVE  Associates(s, t, u)
  BY ConcatAssociative DEF Associates

HeadOf(prefix, command) ==
    (IF prefix = <<>> THEN <<>> ELSE <<":">> \o prefix \o <<Space>>) \o command

LEMMA NothingRead ==
    ASSUME NEW line, Words(line) = {}, Parses(line)
    PROVE  ReadsAs(line, <<>>)
<1>1. Len(<<>>) = 0 /\ Cardinality({}) = 0
  BY FS_EmptySet
<1> QED BY <1>1 DEF ReadsAs

LEMMA HeadReads ==
    ASSUME NEW C, Space \in C, ":" \in C, NEW prefix \in Seq(C), NEW command \in Seq(C),
           \A i \in DOMAIN prefix : prefix[i] # Space, IsMiddle(command)
    PROVE  HeadOf(prefix, command) \in Seq(C) /\ ReadsAs(HeadOf(prefix, command), <<>>)
<1> DEFINE head == HeadOf(prefix, command)
<1>1. /\ command # <<>> /\ command[1] # ":"
      /\ \A i \in DOMAIN command : command[i] # Space
  BY DEF IsMiddle
<1>2. CASE prefix = <<>>
  <2>1. head = command
    <3>1. head = <<>> \o command
      BY <1>2 DEF HeadOf
    <3> QED BY <3>1, ConcatEmptySeq
  <2>2. Starts(command) = {1} /\ Min(Starts(command)) = 1
    BY <1>1, OneWordStarts
  <2>3. ~HasPrefix(command)
    BY <1>1, <2>2 DEF HasPrefix
  <2>4. CommandAt(command) = {1}
    BY <2>2, <2>3 DEF CommandAt
  <2>5. Words(command) = {} /\ Parses(command)
    BY <2>2, <2>4 DEF Words, Parses
  <2>6. ReadsAs(command, <<>>)
    BY <2>5, NothingRead
  <2> QED BY <2>1, <2>6
<1>3. CASE prefix # <<>>
  <2> DEFINE mark == <<":">>
             space == <<Space>>
             front == mark \o prefix
             tail == space \o command
             two == front \o tail
             n == Len(front)
  <2>1. /\ mark \in Seq(C) /\ Len(mark) = 1 /\ mark[1] = ":"
        /\ space \in Seq(C)
    OBVIOUS
  <2>2. Space # ":"
    BY Zenon DEF Space
  <2>3. IsTail(C, tail) /\ OneWord(tail)
    BY MiddleTail
  <2>4. head = two /\ tail \in Seq(C)
    <3>1. head = ((mark \o prefix) \o space) \o command
      BY <1>3 DEF HeadOf
    <3>2. mark \o prefix \in Seq(C)
      BY <2>1, ConcatProperties
    <3>2a. front \in Seq(C) /\ space \in Seq(C)
      BY <2>1, <3>2
    <3> HIDE DEF mark, space, front, tail, two
    <3>3. (front \o space) \o command = front \o (space \o command)
      BY <3>2a, ConcatAssociative
    <3>4. tail \in Seq(C)
      BY <2>3 DEF IsTail
    <3>5. front = mark \o prefix /\ tail = space \o command /\ two = front \o tail
      BY DEF front, tail, two
    <3> QED BY <3>1, <3>3, <3>4, <3>5
  <2> HIDE DEF mark, space, tail
  <2>5. /\ Len(prefix) \in Nat /\ front \in Seq(C) /\ n = Len(mark) + Len(prefix)
        /\ DOMAIN front = 1..(Len(mark) + Len(prefix))
        /\ \A i \in 1..Len(mark) : front[i] = mark[i]
        /\ \A i \in (Len(mark) + 1)..(Len(mark) + Len(prefix)) :
              front[i] = prefix[i - Len(mark)]
        /\ DOMAIN prefix = 1..Len(prefix)
    <3>1. DOMAIN prefix = 1..Len(prefix)
      BY LenProperties
    <3>2. /\ Len(prefix) \in Nat /\ mark \o prefix \in Seq(C)
          /\ Len(mark \o prefix) = Len(mark) + Len(prefix)
          /\ DOMAIN (mark \o prefix) = 1..(Len(mark) + Len(prefix))
          /\ \A i \in 1..Len(mark) : (mark \o prefix)[i] = mark[i]
          /\ \A i \in (Len(mark) + 1)..(Len(mark) + Len(prefix)) :
                (mark \o prefix)[i] = prefix[i - Len(mark)]
      <4>1. mark \in Seq(C)
        BY <2>1
      <4> QED BY <4>1, CharacterAt
    <3>3. front = mark \o prefix /\ n = Len(front)
      OBVIOUS
    <3> HIDE DEF front, n
    <3> QED BY <3>1, <3>2, <3>3
  <2> HIDE DEF front
  <2>6. ASSUME NEW i \in DOMAIN front PROVE front[i] # Space
    <3>1. i = 1 \/ i \in (1 + 1)..(1 + Len(prefix))
      BY <2>1, <2>5
    <3>2. CASE i = 1
      <4>1. front[1] = mark[1]
        BY <2>1, <2>5
      <4> QED BY <2>1, <2>2, <3>2, <4>1
    <3>3. CASE i \in (1 + 1)..(1 + Len(prefix))
      <4>1. front[i] = prefix[i - 1] /\ i - 1 \in 1..Len(prefix)
        BY <2>1, <2>5, <3>3
      <4> QED BY <2>5, <4>1
    <3> QED BY <3>1, <3>2, <3>3
  <2>7. front[1] = ":" /\ n \in Nat /\ n >= 1
    <3>1. 1 \in 1..Len(mark)
      BY <2>1
    <3>2. front[1] = ":"
      BY <2>1, <2>5, <3>1
    <3> QED BY <2>1, <2>5, <3>2
  <2>8. front # <<>>
    BY <2>7
  <2>9. Starts(front) = {1}
    BY <2>5, <2>6, <2>8, OneWordStarts
  <2>10. Starts(two) = {1} \cup {n + 2}
    BY <2>3, <2>5, <2>9, StartsGrow
  <2>11. two[1] = ":" /\ two \in Seq(C)
    <3>1. /\ two \in Seq(C)
          /\ \A i \in 1..Len(front) : two[i] = front[i]
      BY <2>3, <2>5, CharacterAt DEF IsTail
    <3>2. 1 \in 1..Len(front)
      BY <2>7
    <3> QED BY <2>7, <3>1, <3>2
  <2> HIDE DEF two, n
  <2>12. Min(Starts(two)) = 1
    <3>1. Starts(two) \subseteq Nat /\ 1 \in Starts(two) /\ \A k \in Starts(two) : 1 <= k
      BY <2>7, <2>10
    <3> QED BY <3>1, MinIs
  <2>13. HasPrefix(two)
    BY <2>10, <2>11, <2>12 DEF HasPrefix
  <2>14. CommandAt(two) = {n + 2}
    BY <2>7, <2>10, <2>12, <2>13 DEF CommandAt
  <2>15. Min({n + 2}) = n + 2
    <3>1. n + 2 \in Nat
      BY <2>7
    <3> QED BY <3>1, MinOfOne
  <2>16. Words(two) = {} /\ Parses(two)
    BY <2>14, <2>15 DEF Words, Parses
  <2>17. ReadsAs(two, <<>>)
    BY <2>16, NothingRead
  <2> QED BY <2>4, <2>11, <2>17
<1> QED BY <1>2, <1>3

(* The parts of a line and their order.                                    *)
PartsOf(texts, trailing) == [n \in DOMAIN texts |-> Written(texts, trailing, n)]

LEMMA PartsType ==
    ASSUME NEW C, Space \in C, ":" \in C, NEW texts \in Seq(Seq(C)), NEW trailing
    PROVE  /\ PartsOf(texts, trailing) \in Seq(Seq(C))
           /\ Len(PartsOf(texts, trailing)) = Len(texts)
<1> DEFINE K == Len(texts)
           parts == PartsOf(texts, trailing)
           D == Seq(C)
<1>1. K \in Nat /\ DOMAIN texts = 1..K
  OBVIOUS
<1>2. \A n \in 1..K : texts[n] \in D
  BY <1>1
<1>3. \A n \in 1..K : parts[n] = Written(texts, trailing, n)
  BY <1>1 DEF PartsOf
<1>4. \A n \in 1..K : parts[n] \in Seq(C)
  <2> TAKE n \in 1..K
  <2>1. <<Space>> \in Seq(C) /\ <<Space, ":">> \in Seq(C)
    OBVIOUS
  <2>2. <<Space>> \o texts[n] \in Seq(C) /\ <<Space, ":">> \o texts[n] \in Seq(C)
    BY <1>2, <2>1, ConcatProperties
  <2> QED BY <1>3, <2>2 DEF Written
<1>5. parts = [n \in 1..K |-> parts[n]]
  BY <1>1 DEF PartsOf
<1> HIDE DEF parts
<1>6. parts \in Seq(Seq(C)) /\ Len(parts) = K
  BY <1>1, <1>4, <1>5
<1> QED BY <1>6 DEF parts

Concatenated(C, s, t) ==
    s \o t \in Seq(C) /\ Len(s \o t) = Len(s) + Len(t)

LEMMA Concatenation ==
    ASSUME NEW C, NEW s \in Seq(C), NEW t \in Seq(C)
    PROVE  Concatenated(C, s, t)
BY ConcatProperties DEF Concatenated

LEMMA HeadType ==
    ASSUME NEW C, Space \in C, ":" \in C, NEW prefix \in Seq(C), NEW command \in Seq(C)
    PROVE  /\ HeadOf(prefix, command) \in Seq(C)
           /\ prefix # <<>> =>
                 Len(HeadOf(prefix, command)) = Len(prefix) + Len(command) + 2
<1> DEFINE mark == <<":">>
           space == <<Space>>
           front == mark \o prefix
           whole == front \o space
<1>1. mark \in Seq(C) /\ Len(mark) = 1 /\ space \in Seq(C) /\ Len(space) = 1
      /\ <<>> \in Seq(C) /\ Len(prefix) \in Nat /\ Len(command) \in Nat
  OBVIOUS
<1> HIDE DEF mark, space
<1>2. front \in Seq(C) /\ Len(front) = 1 + Len(prefix)
  <2>1. Concatenated(C, mark, prefix)
    BY <1>1, Concatenation
  <2> QED BY <1>1, <2>1 DEF Concatenated
<1> HIDE DEF front
<1>3. whole \in Seq(C) /\ Len(whole) = 2 + Len(prefix)
  <2>1. Concatenated(C, front, space)
    BY <1>1, <1>2, Concatenation
  <2> QED BY <1>1, <1>2, <2>1 DEF Concatenated
<1> HIDE DEF whole
<1>4. whole \o command \in Seq(C) /\ Len(whole \o command) = 2 + Len(prefix) + Len(command)
  <2>1. Concatenated(C, whole, command)
    BY <1>3, Concatenation
  <2> QED BY <1>1, <1>3, <2>1 DEF Concatenated
<1>5. <<>> \o command \in Seq(C)
  BY <1>1, ConcatProperties
<1>6. HeadOf(prefix, command) = IF prefix = <<>> THEN <<>> \o command ELSE whole \o command
  BY DEF HeadOf, whole, front, mark, space
<1> QED BY <1>1, <1>4, <1>5, <1>6

AsLong(whole, head, rest) == Len(whole) = Len(head) + Len(rest) + 2

(* A line is refused for its parameters or for its length.                 *)
LEMMA LineWritten ==
    ASSUME NEW C, Space \in C, ":" \in C, Terminator \in Seq(C),
           NEW prefix \in Seq(C), NEW command \in Seq(C),
           NEW texts \in Seq(Seq(C)), NEW trailing,
           NEW whole, whole = LineOf(prefix, command, texts, trailing),
           NEW parts, parts = PartsOf(texts, trailing)
    PROVE  /\ whole \in Seq(C) /\ FlattenSeq(parts) \in Seq(C)
           /\ AsLong(whole, HeadOf(prefix, command), FlattenSeq(parts))
           /\ serialize(prefix, command, texts, trailing) =
                 IF Unwritable(texts) \/ Len(whole) > MaxLine THEN Throws ELSE whole
           /\ whole # Throws
<1> DEFINE head == HeadOf(prefix, command)
           rest == FlattenSeq(parts)
           body == head \o rest
<1>1. parts \in Seq(Seq(C))
  BY PartsType
<1>2. PICK J \in Joined(C, parts) : rest = J[Len(parts)]
  BY <1>1, FlattenJoined
<1>3. rest \in Seq(C)
  <2>1. Len(parts) \in 0..Len(parts)
    <3> DEFINE D == Seq(C)
    <3>1. parts \in Seq(D)
      BY <1>1
    <3> HIDE DEF D
    <3> QED BY <3>1
  <2> QED BY <1>2, <2>1 DEF Joined
<1>4. head \in Seq(C)
  BY HeadType
<1>5. whole = body \o Terminator
  BY DEF LineOf, HeadOf, PartsOf
<1> HIDE DEF head, rest
<1>6. body \in Seq(C) /\ Len(body) = Len(head) + Len(rest)
  BY <1>3, <1>4, ConcatProperties
<1> HIDE DEF body
<1>7. whole \in Seq(C) /\ Len(whole) = Len(body) + Len(Terminator)
  BY <1>5, <1>6, ConcatProperties
<1>8. Len(whole) = Len(head) + Len(rest) + 2 /\ Len(whole) >= 2
  <2>1. Len(head) \in Nat /\ Len(rest) \in Nat
    BY <1>3, <1>4, LenProperties
  <2> QED BY <1>6, <1>7, <2>1, LineAssumption
<1>9. whole # Throws
  BY <1>8 DEF Throws
<1>10. serialize(prefix, command, texts, trailing) =
         IF Unwritable(texts) \/ Len(whole) > MaxLine THEN Throws ELSE whole
  BY DEF serialize
<1> QED BY <1>3, <1>7, <1>8, <1>9, <1>10 DEF head, rest, AsLong

(* What serialize() writes, parse() reads.                                 *)
THEOREM ReadBack ==
    ASSUME NEW C, Space \in C, ":" \in C, Terminator \in Seq(C),
           NEW prefix \in Seq(C), NEW command \in Seq(C),
           NEW texts \in Seq(Seq(C)), NEW trailing,
           \A i \in DOMAIN prefix : prefix[i] # Space, IsMiddle(command),
           NEW line, line = serialize(prefix, command, texts, trailing),
           line # Throws
    PROVE  params(SubSeq(line, 1, Len(line) - 2)) = texts
<1> DEFINE D == Seq(C)
           K == Len(texts)
           parts == [n \in DOMAIN texts |-> Written(texts, trailing, n)]
           head == HeadOf(prefix, command)
           Plain(n) == IsMiddle(texts[n]) /\ parts[n] = <<Space>> \o texts[n]
           first(k) == SubSeq(texts, 1, k)
<1>1. K \in Nat /\ DOMAIN texts = 1..K /\ texts \in Seq(D)
  OBVIOUS
<1>2. \A n \in 1..K : texts[n] \in D
  BY <1>1
<1>3. head \in Seq(C) /\ ReadsAs(head, <<>>)
  BY HeadReads
<1>4. line = ((head \o FlattenSeq(parts)) \o Terminator) /\ ~Unwritable(texts)
  BY DEF serialize, LineOf, HeadOf
<1>5. \A n \in 1..K : parts[n] = Written(texts, trailing, n)
  BY <1>1
<1>6. parts \in Seq(Seq(C)) /\ Len(parts) = K
  <2>1. parts = PartsOf(texts, trailing)
    BY DEF PartsOf
  <2> HIDE DEF parts
  <2> QED BY <2>1, PartsType
<1>7. \A n \in 1..K : parts[n] \in Seq(C)
  <2> HIDE DEF parts
  <2> QED BY <1>6
<1>8. ASSUME NEW n \in 1..K, n < K PROVE Plain(n)
  <2>1. n \in 1..(Len(texts) - 1) /\ n # Len(texts)
    <3> HIDE DEF K
    <3>1. n \in 1..(K - 1) /\ n # K
      BY <1>1, <1>8
    <3> QED BY <3>1 DEF K
  <2>2. IsMiddle(texts[n])
    BY <1>4, <2>1 DEF Unwritable
  <2>3. Written(texts, trailing, n) = <<Space>> \o texts[n]
    BY <2>1 DEF Written
  <2> QED BY <1>5, <2>2, <2>3
<1>9. K > 0 => Plain(K) \/ parts[K] = <<Space, ":">> \o texts[K]
  <2> HAVE K > 0
  <2>1. K \in 1..K
    BY <1>1
  <2> QED BY <1>5, <2>1 DEF Written
<1>10. PICK J \in Joined(C, parts) : FlattenSeq(parts) = J[Len(parts)]
  BY <1>6, FlattenJoined
<1> HIDE DEF parts, head
<1>11. /\ J \in [0..K -> Seq(C)] /\ J[0] = <<>>
       /\ \A n \in 1..K : J[n] = J[n - 1] \o parts[n]
  BY <1>6, <1>10 DEF Joined
<1> DEFINE T == {k \in 0..K : (\A n \in 1..k : Plain(n)) => ReadsAs(head \o J[k], first(k))}
<1>12. 0 \in T
  <2>1. head \o J[0] = head
    BY <1>3, <1>11, ConcatEmptySeq
  <2>2. first(0) = <<>>
    BY SubSeqEmpty
  <2>3. ReadsAs(head \o J[0], first(0))
    <3> HIDE DEF first
    <3> QED BY <1>3, <2>1, <2>2
  <2>4. 0 \in 0..K
    BY <1>1
  <2> HIDE DEF Plain, first, K
  <2> QED BY <2>3, <2>4
<1>13. \A k \in 0..(K - 1) : /\ k + 1 \in 1..K /\ (k + 1) - 1 = k /\ k \in 0..K /\ k + 1 \in 0..K
                             /\ first(k) \in Seq(D) /\ first(k + 1) = Append(first(k), texts[k + 1])
                             /\ head \o J[k] \in Seq(C)
                             /\ head \o J[k + 1] = (head \o J[k]) \o parts[k + 1]
  <2> TAKE k \in 0..(K - 1)
  <2>1. k + 1 \in 1..K /\ (k + 1) - 1 = k /\ k \in 0..K /\ k + 1 \in 0..K
    BY <1>1
  <2>2. first(k) \in Seq(D)
    <3>1. 1 \in Nat \ {0} /\ k \in Int /\ k <= Len(texts)
      BY <1>1
    <3> QED BY <1>1, <3>1, PartOfLine
  <2>3. first(k + 1) = Append(first(k), texts[k + 1])
    <3>1. 1 \in 1..Len(texts) /\ k + 1 \in 1..Len(texts)
      BY <1>1, <2>1
    <3>2. SubSeq(texts, 1, k + 1) = SubSeq(texts, 1, (k + 1) - 1) \o <<texts[k + 1]>>
      <4>1. k + 1 \in 1..Len(texts)
        BY <3>1
      <4> QED BY <1>1, <3>1, <4>1, SubSeqRecursiveSecond
    <3>3. first(k) \o <<texts[k + 1]>> = Append(first(k), texts[k + 1])
      <4>1. texts[k + 1] \in D
        BY <1>2, <2>1
      <4> HIDE DEF first, D
      <4> QED BY <2>2, <4>1
    <3> QED BY <2>1, <3>2, <3>3
  <2>4. J[k] \in Seq(C) /\ J[k + 1] = J[k] \o parts[k + 1] /\ parts[k + 1] \in Seq(C)
    BY <1>7, <1>11, <2>1
  <2>5. head \o J[k] \in Seq(C)
    BY <1>3, <2>4, ConcatProperties
  <2>6. head \o J[k + 1] = (head \o J[k]) \o parts[k + 1]
    <3> DEFINE now == J[k]
               next == parts[k + 1]
    <3>1. now \in Seq(C) /\ next \in Seq(C)
      BY <2>4
    <3>2. J[k + 1] = now \o next
      BY <2>4
    <3> HIDE DEF now, next
    <3>3. (head \o now) \o next = head \o (now \o next)
      <4>1. head \in Seq(C)
        BY <1>3
      <4>2. Associates(head, now, next)
        BY <3>1, <4>1, Association
      <4> QED BY <4>2 DEF Associates
    <3> QED BY <3>2, <3>3 DEF now, next
  <2> HIDE DEF first, D
  <2> QED BY <2>1, <2>2, <2>3, <2>5, <2>6
<1>14. ASSUME NEW k \in 0..(K - 1), k \in T PROVE k + 1 \in T
  <2> SUFFICES ASSUME \A n \in 1..(k + 1) : Plain(n)
               PROVE  ReadsAs(head \o J[k + 1], first(k + 1))
    BY <1>13
  <2>1. ReadsAs(head \o J[k], first(k))
    <3>1. \A n \in 1..k : n \in 1..(k + 1)
      BY <1>1
    <3> HIDE DEF Plain
    <3> QED BY <1>14, <3>1
  <2>2. k + 1 \in 1..(k + 1)
    BY <1>1
  <2>3. IsMiddle(texts[k + 1]) /\ parts[k + 1] = <<Space>> \o texts[k + 1]
    BY <2>2
  <2>4. texts[k + 1] \in Seq(C) /\ texts[k + 1] \in D
    BY <1>2, <1>13
  <2> HIDE DEF first, D
  <2>5. ReadsAs((head \o J[k]) \o (<<Space>> \o texts[k + 1]), Append(first(k), texts[k + 1]))
    BY <1>13, <2>1, <2>3, <2>4, ReadsMore
  <2> QED BY <1>13, <2>3, <2>5
<1>15. \A k \in 0..K : k \in T
  <2> HIDE DEF T, K
  <2> QED BY <1>1, <1>12, <1>14, InductionUpTo
<1> DEFINE body == head \o J[K]
<1>16. first(K) = texts
  BY SubSeqFull
<1>17. K \in 0..K /\ body \in Seq(C) /\ ((\A n \in 1..K : Plain(n)) => ReadsAs(body, texts))
  <2>1. K \in 0..K
    BY <1>1
  <2>2. J[K] \in Seq(C)
    BY <1>11, <2>1
  <2>3. body \in Seq(C)
    BY <1>3, <2>2, ConcatProperties
  <2>4. (\A n \in 1..K : Plain(n)) => ReadsAs(head \o J[K], first(K))
    <3> HIDE DEF Plain, first
    <3> QED BY <1>15, <2>1
  <2> QED BY <1>16, <2>1, <2>3, <2>4
<1>18. params(body) = texts
  <2>1. CASE \A n \in 1..K : Plain(n)
    <3> HIDE DEF Plain, body, D
    <3>1. ReadsAs(body, texts) /\ body \in Seq(C)
      BY <1>17, <2>1
    <3> QED BY <1>1, <3>1, ReadsParams
  <2>2. CASE ~ \A n \in 1..K : Plain(n)
    <3>1. PICK n \in 1..K : ~Plain(n)
      BY <2>2
    <3>2. n = K /\ K > 0
      <4> HIDE DEF Plain, K
      <4>1. ~ (n < K)
        BY <1>8, <3>1
      <4> QED BY <1>1, <4>1
    <3> DEFINE k == K - 1
    <3>3. k \in 0..(K - 1) /\ k + 1 = K /\ \A m \in 1..k : m \in 1..K /\ m < K
      BY <1>1, <3>2
    <3>4. parts[K] = <<Space, ":">> \o texts[K]
      BY <1>9, <3>1, <3>2
    <3>5. \A m \in 1..k : Plain(m)
      BY <1>8, <3>3
    <3>6. ReadsAs(head \o J[k], first(k))
      <4> HIDE DEF Plain, first, k
      <4> QED BY <1>13, <1>15, <3>3, <3>5
    <3>7. texts[K] \in Seq(C) /\ texts[K] \in D
      BY <1>2, <3>1, <3>2
    <3> HIDE DEF k, first, D
    <3>8. first(k) \in Seq(D) /\ head \o J[k] \in Seq(C)
      BY <1>13, <3>3
    <3>9. params((head \o J[k]) \o (<<Space, ":">> \o texts[K])) = Append(first(k), texts[K])
      <4> DEFINE front == head \o J[k]
                 before == first(k)
                 last == texts[K]
      <4>1. /\ front \in Seq(C) /\ before \in Seq(D) /\ ReadsAs(front, before)
            /\ last \in Seq(C) /\ last \in D
        BY <3>6, <3>7, <3>8
      <4> HIDE DEF front, before, last
      <4>2. Space \in C /\ ":" \in C
        OBVIOUS
      <4>3. AddsLast(front, before, last)
        BY <4>1, <4>2, ReadsLast
      <4> QED BY <4>3 DEF AddsLast, front, before, last
    <3>10. head \o J[K] = (head \o J[k]) \o parts[K] /\ first(K) = Append(first(k), texts[K])
      BY <1>13, <3>3
    <3> QED BY <1>16, <3>4, <3>9, <3>10
  <2> QED BY <2>1, <2>2
<1>19. line = body \o Terminator
  BY <1>4, <1>6, <1>10
<1> HIDE DEF body
<1>20. Len(line) - 2 = Len(body) /\ Len(body) \in Nat
  <2>1. Len(line) = Len(body) + Len(Terminator) /\ Len(body) \in Nat
    BY <1>17, <1>19, ConcatProperties
  <2> QED BY <2>1, LineAssumption
<1>21. SubSeq(line, 1, Len(line) - 2) = body
  <2>1. SubSeq(body \o Terminator, 1, Len(body)) = SubSeq(body, 1, Len(body))
    <3>1. 1 \in Nat \ {0} /\ Len(body) \in Int /\ Len(body) <= Len(body)
      BY <1>20
    <3> QED BY <1>17, <3>1, SubSeqKept
  <2>2. SubSeq(body, 1, Len(body)) = body
    BY <1>17, SubSeqFull
  <2> QED BY <1>19, <1>20, <2>1, <2>2
<1> QED BY <1>18, <1>21
=============================================================================
