------------------------------ MODULE DataLemmas ------------------------------
(* Induction without operators: the least number of a set, induction as    *)
(* membership in a set, the last of a finite set, and what a recursive     *)
(* definition over the numbers computes.  Also the ranking of a finite set *)
(* by counting who is ahead.  The other proof modules use them.            *)
EXTENDS Integers, Sequences, FiniteSets, SequenceTheorems, FiniteSetTheorems,
        WellFoundedInduction, TLAPS

\* Every set of numbers has a least one: of the sets of what is below one of
\* them, which are finite, one is minimal.
LEMMA LeastNumber ==
  ASSUME NEW T \in SUBSET Nat, T # {}
  PROVE  \E x \in T : \A y \in T : x <= y
<1> DEFINE below(x) == {n \in Nat : n < x}
           U == {below(x) : x \in T}
<1>1. U \subseteq FiniteSubsetsOf(Nat) /\ U # {}
  <2>1. ASSUME NEW x \in T PROVE IsFiniteSet(below(x))
    <3>1. below(x) = 0..(x - 1) /\ x - 1 \in Int
      OBVIOUS
    <3> HIDE DEF below
    <3>2. QED
      BY <3>1, FS_Interval
  <2>2. QED
    BY <2>1 DEF FiniteSubsetsOf
<1>2. PICK u \in U : \A v \in U : <<v, u>> \notin StrictSubsetOrdering(Nat)
  BY <1>1, WFMin, FS_StrictSubsetOrderingWellFounded
<1>3. PICK x \in T : u = below(x)
  BY <1>2
<1>4. ASSUME NEW y \in T, y < x PROVE FALSE
  <2>1. /\ below(y) \subseteq below(x) /\ below(y) # below(x)
        /\ below(y) \in SUBSET Nat /\ below(x) \in SUBSET Nat
    <3>1. y \in below(x) /\ y \notin below(y)
      BY <1>4
    <3>2. \A z \in Nat : z < y => z < x
      BY <1>4
    <3>3. QED
      BY <3>1, <3>2
  <2>2. <<below(y), below(x)>> \notin StrictSubsetOrdering(Nat)
    BY <1>2, <1>3
  <2> HIDE DEF below
  <2>3. QED
    BY <2>1, <2>2 DEF StrictSubsetOrdering
<1>5. QED
  BY <1>4

LEMMA Induction ==
  ASSUME NEW S, 0 \in S, \A n \in Nat : n \in S => n + 1 \in S
  PROVE  Nat \subseteq S
<1> DEFINE T == Nat \ S
<1>1. SUFFICES ASSUME T # {} PROVE FALSE
  OBVIOUS
<1>2. PICK x \in T : \A y \in T : x <= y
  BY <1>1, LeastNumber
<1>3. x # 0 /\ x - 1 \in Nat /\ x - 1 \notin T
  BY <1>2
<1>4. QED
  BY <1>2, <1>3

LEMMA SequenceInduction ==
  ASSUME NEW A, NEW S, <<>> \in S,
         \A s \in Seq(A), e \in A : s \in S => Append(s, e) \in S
  PROVE  Seq(A) \subseteq S
<1> DEFINE T == {n \in Nat : \A s \in Seq(A) : Len(s) = n => s \in S}
<1>1. 0 \in T
  <2>1. \A s \in Seq(A) : Len(s) = 0 => s = <<>>
    OBVIOUS
  <2>2. QED
    BY <2>1
<1>2. ASSUME NEW n \in Nat, n \in T PROVE n + 1 \in T
  <2>1. SUFFICES ASSUME NEW s \in Seq(A), Len(s) = n + 1 PROVE s \in S
    OBVIOUS
  <2> DEFINE front == SubSeq(s, 1, n)
  <2>2. /\ front \in Seq(A) /\ Len(front) = n
        /\ s[n + 1] \in A /\ s = Append(front, s[n + 1])
    BY <2>1
  <2> HIDE DEF front
  <2>3. front \in S
    BY <1>2, <2>2
  <2>4. QED
    BY <2>2, <2>3
<1> HIDE DEF T
<1>3. Nat \subseteq T
  BY <1>1, <1>2, Induction
<1>4. QED
  <2>1. \A s \in Seq(A) : Len(s) \in Nat
    OBVIOUS
  <2>2. QED
    BY <1>3, <2>1 DEF T

\* A finite set of numbers that is not empty has a last one.
LEMMA LastNumber ==
  ASSUME NEW S \in SUBSET Int, IsFiniteSet(S), S # {}
  PROVE  \E x \in S : \A y \in S : y <= x
<1> DEFINE Topped(V) == \E x \in V : \A y \in V : y <= x
           U == {V \in FiniteSubsetsOf(S) : V # {} /\ ~Topped(V)}
<1>1. SUFFICES ASSUME S \in U PROVE FALSE
  BY DEF FiniteSubsetsOf
<1>2. PICK V \in U : \A W \in U : <<W, V>> \notin StrictSubsetOrdering(S)
  BY <1>1, WFMin, FS_StrictSubsetOrderingWellFounded
<1>3. PICK x \in V : TRUE
  BY <1>2
<1>4. V \in SUBSET S /\ IsFiniteSet(V) /\ ~Topped(V)
  BY <1>2 DEF FiniteSubsetsOf
<1> DEFINE W == V \ {x}
<1>5. W # {} /\ ~Topped(W)
  <2>1. W # {}
    BY <1>3, <1>4
  <2>2. SUFFICES ASSUME NEW y \in W, \A z \in W : z <= y PROVE FALSE
    BY <2>1
  <2>3. x \in Int /\ y \in Int /\ V \in SUBSET Int
    BY <1>3, <1>4
  <2>4. CASE x <= y
    BY <1>4, <2>2, <2>4
  <2>5. CASE y <= x
    BY <1>3, <1>4, <2>2, <2>3, <2>5
  <2>6. QED
    BY <2>3, <2>4, <2>5
<1>6. W \in FiniteSubsetsOf(S) /\ W \in SUBSET S /\ W \subseteq V /\ W # V
  <2>1. IsFiniteSet(W)
    BY <1>4, FS_Subset
  <2>2. QED
    BY <1>3, <1>4, <2>1 DEF FiniteSubsetsOf
<1>7. W \in U /\ V \in SUBSET S
  BY <1>4, <1>5, <1>6
<1>8. <<W, V>> \notin StrictSubsetOrdering(S)
  BY <1>2, <1>7
<1> HIDE DEF W
<1>9. QED
  BY <1>6, <1>7, <1>8 DEF StrictSubsetOrdering

-----------------------------------------------------------------------------
(* Recursive definitions over 0..n.                                        *)

\* f starts at `start' and goes on by the rules.
Recurs(f, n, T, start, rule) ==
  /\ f \in [0..n -> T] /\ f[0] = start
  /\ \A k \in 1..n : f[k] = rule[k][f[k - 1]]

LEMMA Recursion ==
  ASSUME NEW n \in Nat, NEW T, NEW start \in T, NEW rule \in [1..n -> [T -> T]]
  PROVE  \E f : Recurs(f, n, T, start, rule)
<1> DEFINE S == {m \in Nat : m <= n => \E f : Recurs(f, m, T, start, rule)}
<1>1. 0 \in S
  <2> DEFINE f == [k \in 0..0 |-> start]
  <2>1. Recurs(f, 0, T, start, rule)
    BY DEF Recurs
  <2>2. QED
    BY <2>1
<1>2. ASSUME NEW m \in Nat, m \in S PROVE m + 1 \in S
  <2>1. SUFFICES ASSUME m + 1 <= n PROVE \E f : Recurs(f, m + 1, T, start, rule)
    OBVIOUS
  <2>2. PICK f : Recurs(f, m, T, start, rule)
    BY <1>2, <2>1
  <2> DEFINE g == [k \in 0..(m + 1) |-> IF k <= m THEN f[k] ELSE rule[k][f[m]]]
  <2>3. /\ f \in [0..m -> T] /\ f[0] = start
        /\ \A k \in 1..m : f[k] = rule[k][f[k - 1]]
    BY <2>2 DEF Recurs
  <2>4. rule[m + 1] \in [T -> T] /\ f[m] \in T /\ rule[m + 1][f[m]] \in T
    BY <2>1, <2>3
  <2>5. g \in [0..(m + 1) -> T] /\ g[0] = start
    BY <2>3, <2>4
  <2>6. ASSUME NEW k \in 1..(m + 1) PROVE g[k] = rule[k][g[k - 1]]
    <3>1. CASE k <= m
      BY <2>3, <3>1
    <3>2. CASE k = m + 1
      BY <3>2
    <3>3. QED
      BY <3>1, <3>2
  <2>7. QED
    BY <2>5, <2>6 DEF Recurs
<1>3. QED
  <2> HIDE DEF S
  <2>1. n \in S
    BY <1>1, <1>2, Induction
  <2>2. QED
    BY <2>1 DEF S

\* Two of them agree as far as their rules do.
LEMMA SameRecursion ==
  ASSUME NEW n \in Nat, NEW m \in Nat, m <= n, NEW T, NEW start,
         NEW rule, NEW other, \A k \in 1..m : rule[k] = other[k],
         NEW f, Recurs(f, n, T, start, rule), NEW g, Recurs(g, m, T, start, other)
  PROVE  \A k \in 0..m : g[k] = f[k]
<1> DEFINE S == {k \in Nat : k <= m => f[k] = g[k]}
<1>1. 0 \in S
  BY DEF Recurs
<1>2. ASSUME NEW k \in Nat, k \in S PROVE k + 1 \in S
  BY <1>2 DEF Recurs
<1> HIDE DEF S
<1>3. Nat \subseteq S
  BY <1>1, <1>2, Induction
<1>4. QED
  BY <1>3 DEF S

-----------------------------------------------------------------------------
(* Ranking.                                                                *)

\* Counting who is ahead gives each element a place of its own.
Total(S, ahead) ==
  /\ ahead \in [S -> SUBSET S]
  /\ \A i \in S : i \notin ahead[i]
  /\ \A i, j \in S : j \in ahead[i] => ahead[j] \subseteq ahead[i]
  /\ \A i, j \in S : i # j => i \in ahead[j] \/ j \in ahead[i]

Placed(S, ahead) ==
  /\ \A i \in S : 1 + Cardinality(ahead[i]) \in 1..Cardinality(S)
  /\ \A p \in 1..Cardinality(S) : \E i \in S : 1 + Cardinality(ahead[i]) = p
  /\ \A i, j \in S : 1 + Cardinality(ahead[i]) < 1 + Cardinality(ahead[j]) => i \in ahead[j]
  /\ \A i, j \in S : 1 + Cardinality(ahead[i]) = 1 + Cardinality(ahead[j]) => i = j

LEMMA Places ==
  ASSUME NEW S, IsFiniteSet(S), NEW ahead, Total(S, ahead)
  PROVE  Placed(S, ahead)
<1> DEFINE place == [i \in S |-> 1 + Cardinality(ahead[i])]
           n == Cardinality(S)
<1>1. n \in Nat
  BY FS_CardinalityType
<1>2. ASSUME NEW i \in S
      PROVE  IsFiniteSet(ahead[i]) /\ Cardinality(ahead[i]) \in Nat /\ Cardinality(ahead[i]) < n
  <2>1. ahead[i] \in SUBSET S /\ i \notin ahead[i]
    BY DEF Total
  <2>2. /\ IsFiniteSet(ahead[i]) /\ Cardinality(ahead[i]) <= n
        /\ (n = Cardinality(ahead[i]) => S = ahead[i])
    BY <2>1, FS_Subset
  <2>3. Cardinality(ahead[i]) \in Nat
    BY <2>2, FS_CardinalityType
  <2>4. QED
    BY <1>1, <2>1, <2>2, <2>3
<1>3. ASSUME NEW i \in S, NEW j \in S, i \in ahead[j]
      PROVE  Cardinality(ahead[i]) < Cardinality(ahead[j])
  <2>1. ahead[i] \in SUBSET ahead[j] /\ i \notin ahead[i]
    BY <1>3 DEF Total
  <2>2. /\ Cardinality(ahead[i]) <= Cardinality(ahead[j])
        /\ (Cardinality(ahead[j]) = Cardinality(ahead[i]) => ahead[j] = ahead[i])
    BY <1>2, <2>1, FS_Subset
  <2>3. QED
    BY <1>2, <1>3, <2>1, <2>2
<1>4. ASSUME NEW i \in S, NEW j \in S
      PROVE  /\ Cardinality(ahead[i]) = Cardinality(ahead[j]) => i = j
             /\ Cardinality(ahead[i]) < Cardinality(ahead[j]) => i \in ahead[j]
  <2>1. i = j \/ i \in ahead[j] \/ j \in ahead[i]
    BY DEF Total
  <2>2. /\ i \in ahead[j] => Cardinality(ahead[i]) < Cardinality(ahead[j])
        /\ j \in ahead[i] => Cardinality(ahead[j]) < Cardinality(ahead[i])
    BY <1>3
  <2>3. Cardinality(ahead[i]) \in Nat /\ Cardinality(ahead[j]) \in Nat
    BY <1>2
  <2>4. QED
    BY <2>1, <2>2, <2>3
<1>5. place \in Injection(S, 1..n)
  <2>1. \A i \in S : place[i] = 1 + Cardinality(ahead[i]) /\ place[i] \in 1..n
    BY <1>1, <1>2
  <2>2. place \in [S -> 1..n]
    BY <2>1
  <2>3. ASSUME NEW i \in S, NEW j \in S, place[i] = place[j] PROVE i = j
    BY <1>2, <1>4, <2>1, <2>3
  <2> HIDE DEF place, n
  <2>4. QED
    BY <2>2, <2>3 DEF Injection, IsInjective
<1>6. IsFiniteSet(1..n) /\ Cardinality(1..n) = n
  BY <1>1, FS_Interval
<1>7. place \in Surjection(S, 1..n)
  <2> HIDE DEF place
  <2>1. QED
    BY <1>5, <1>6, FS_Injection
<1>8. \A p \in 1..n : \E i \in S : place[i] = p
  BY <1>7 DEF Surjection
<1>9. \A i \in S : 1 + Cardinality(ahead[i]) \in 1..n
  BY <1>1, <1>2
<1>10. \A i, j \in S : 1 + Cardinality(ahead[i]) < 1 + Cardinality(ahead[j]) => i \in ahead[j]
  BY <1>2, <1>4
<1>11. \A i, j \in S : 1 + Cardinality(ahead[i]) = 1 + Cardinality(ahead[j]) => i = j
  BY <1>2, <1>4
<1>12. QED
  BY <1>8, <1>9, <1>10, <1>11 DEF Placed

\* An image has no more elements than what it is the image of.
LEMMA ImageSmall ==
  ASSUME NEW I, IsFiniteSet(I), NEW f
  PROVE  LET T == {f[x] : x \in I} IN IsFiniteSet(T) /\ Cardinality(T) <= Cardinality(I)
<1> DEFINE T == {f[x] : x \in I}
           g == [x \in I |-> f[x]]
<1>1. g \in Surjection(I, T)
  BY DEF Surjection
<1>2. QED
  BY <1>1, FS_Surjection

\* A recursive function is one of these once it is known to stay in T.
LEMMA Recurses ==
  ASSUME NEW n \in Nat, NEW T, NEW start \in T, NEW rule \in [1..n -> [T -> T]],
         NEW g, g = [k \in 0..n |-> g[k]], g[0] = start,
         \A k \in 1..n : g[k - 1] \in T => g[k] = rule[k][g[k - 1]]
  PROVE  Recurs(g, n, T, start, rule)
<1> DEFINE S == {k \in Nat : k <= n => g[k] \in T}
<1>1. 0 \in S
  OBVIOUS
<1>2. ASSUME NEW k \in Nat, k \in S PROVE k + 1 \in S
  <2>1. SUFFICES ASSUME k + 1 <= n PROVE g[k + 1] \in T
    OBVIOUS
  <2>2. k + 1 \in 1..n /\ (k + 1) - 1 = k /\ g[k] \in T
    BY <1>2, <2>1
  <2>3. g[k + 1] = rule[k + 1][g[(k + 1) - 1]]
    BY <2>2
  <2>4. QED
    BY <2>2, <2>3
<1> HIDE DEF S
<1>3. Nat \subseteq S
  BY <1>1, <1>2, Induction
<1>4. \A k \in 0..n : g[k] \in T
  BY <1>3 DEF S
<1>5. \A k \in 1..n : g[k] = rule[k][g[k - 1]]
  <2>1. \A k \in 1..n : k - 1 \in 0..n
    OBVIOUS
  <2>2. QED
    BY <1>4, <2>1
<1>6. g \in [0..n -> T]
  BY <1>4
<1>7. QED
  BY <1>5, <1>6 DEF Recurs

-----------------------------------------------------------------------------
(* One sequence after another.                                             *)

Of(T, a) == a \in Seq(T)
Joined(T, a, b, c) ==
  /\ Of(T, c) /\ Len(c) = Len(a) + Len(b) /\ DOMAIN c = 1..(Len(a) + Len(b))
  /\ \A i \in 1..Len(a) : c[i] = a[i]
  /\ \A i \in 1..Len(b) : c[Len(a) + i] = b[i]

LEMMA JoinIs ==
  ASSUME NEW T, NEW a, NEW b, Of(T, a), Of(T, b)
  PROVE  Joined(T, a, b, a \o b)
BY DEF Of, Joined

LEMMA FrontOfBoth ==
  ASSUME NEW T, NEW a, NEW b, Of(T, a), Of(T, b), a # <<>>
  PROVE  SubSeq(a \o b, 1, Len(a)) = a
<1>1. a \in Seq(T) /\ b \in Seq(T) /\ 1 \in 1..Len(a) /\ Len(a) \in 1..Len(a)
  BY DEF Of
<1>2. SubSeq(a \o b, 1, Len(a)) = SubSeq(a, 1, Len(a))
  BY Zenon, <1>1, SubSeqOfConcat1
<1>3. SubSeq(a, 1, Len(a)) = a
  BY Zenon, <1>1, SubSeqFull
<1>4. QED
  BY <1>2, <1>3
=============================================================================
