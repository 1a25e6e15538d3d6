------------------------------ MODULE StoresProofs ------------------------------
(* Theorems about what outlasts a snapshot and what a start reads:         *)
(* RecordNames, HistoryStore, SchemaGrowth, ErrorLog, Startup and          *)
(* ConnSettings.                                                           *)
EXTENDS RecordNames, HistoryStore, SchemaGrowth, ErrorLog, Startup, ConnSettings,
        DataLemmas

-----------------------------------------------------------------------------
(* What a reader finds in a history file.                                  *)

Keeps(f, s) ==
  f = [i \in 0..Len(s) |->
         IF i = 0 THEN <<>>
         ELSE IF s[i] # Garbage THEN Append(f[i - 1], s[i]) ELSE f[i - 1]]

Kept(p) == [t \in Seq(Nat) |-> IF p # Garbage THEN Append(t, p) ELSE t]
Keeping(s) == [k \in 1..Len(s) |-> Kept(s[k])]

LEMMA KeptIs ==
  ASSUME NEW p \in Nat
  PROVE  /\ Kept(p) \in [Seq(Nat) -> Seq(Nat)]
         /\ \A t \in Seq(Nat) : Kept(p)[t] = IF p # Garbage THEN Append(t, p) ELSE t
BY DEF Kept

LEMMA KeepingIs ==
  ASSUME NEW s \in Seq(Nat)
  PROVE  /\ Len(s) \in Nat /\ <<>> \in Seq(Nat) /\ \A k \in 1..Len(s) : s[k] \in Nat
         /\ \A k \in 1..Len(s) : Keeping(s)[k] = Kept(s[k])
         /\ Keeping(s) \in [1..Len(s) -> [Seq(Nat) -> Seq(Nat)]]
<1>1. Len(s) \in Nat /\ <<>> \in Seq(Nat) /\ \A k \in 1..Len(s) : s[k] \in Nat
  OBVIOUS
<1>2. \A k \in 1..Len(s) : Kept(s[k]) \in [Seq(Nat) -> Seq(Nat)]
  BY <1>1, KeptIs
<1>3. QED
  BY <1>1, <1>2 DEF Keeping

LEMMA KeepsIs ==
  ASSUME NEW s \in Seq(Nat), NEW f, Keeps(f, s)
  PROVE  /\ DOMAIN f = 0..Len(s) /\ f[0] = <<>>
         /\ \A k \in 1..Len(s) : f[k] = IF s[k] # Garbage THEN Append(f[k - 1], s[k]) ELSE f[k - 1]
<1> DEFINE e(i) == IF i = 0 THEN <<>>
                   ELSE IF s[i] # Garbage THEN Append(f[i - 1], s[i]) ELSE f[i - 1]
<1>1. f = [i \in 0..Len(s) |-> e(i)]
  BY DEF Keeps
<1>2. Len(s) \in Nat
  OBVIOUS
<1>3. e(0) = <<>>
  OBVIOUS
<1>4. ASSUME NEW k \in 1..Len(s)
      PROVE  e(k) = IF s[k] # Garbage THEN Append(f[k - 1], s[k]) ELSE f[k - 1]
  <2>1. k # 0
    BY <1>2
  <2>2. QED
    BY <2>1
<1> HIDE DEF e
<1>5. DOMAIN f = 0..Len(s) /\ \A k \in 0..Len(s) : f[k] = e(k)
  BY <1>1
<1>6. f[0] = <<>>
  BY <1>2, <1>3, <1>5
<1>7. ASSUME NEW k \in 1..Len(s)
      PROVE  f[k] = IF s[k] # Garbage THEN Append(f[k - 1], s[k]) ELSE f[k - 1]
  <2>1. k \in 0..Len(s)
    BY <1>2
  <2>2. QED
    BY <1>4, <1>5, <2>1
<1>8. QED
  BY <1>5, <1>6, <1>7

LEMMA ReadableIs ==
  ASSUME NEW s \in Seq(Nat)
  PROVE  \E f : Recurs(f, Len(s), Seq(Nat), <<>>, Keeping(s)) /\ Readable(s) = f[Len(s)]
<1> DEFINE n == Len(s)
           all == CHOOSE f : Keeps(f, s)
<1>1. PICK f : Recurs(f, n, Seq(Nat), <<>>, Keeping(s))
  BY KeepingIs, Recursion
<1>2. /\ n \in Nat /\ f \in [0..n -> Seq(Nat)] /\ f[0] = <<>>
      /\ \A k \in 1..n : f[k] = IF s[k] # Garbage THEN Append(f[k - 1], s[k]) ELSE f[k - 1]
  <2>1. ASSUME NEW k \in 1..n
        PROVE  f[k] = IF s[k] # Garbage THEN Append(f[k - 1], s[k]) ELSE f[k - 1]
    <3>1. f[k] = Kept(s[k])[f[k - 1]] /\ f[k - 1] \in Seq(Nat) /\ s[k] \in Nat
      BY <1>1, KeepingIs DEF Recurs
    <3>2. QED
      BY <3>1, KeptIs
  <2>2. QED
    BY <1>1, <2>1, KeepingIs DEF Recurs
<1>3. ASSUME NEW g, Keeps(g, s) PROVE g[n] = f[n]
  <2> DEFINE S == {k \in Nat : k <= n => g[k] = f[k]}
  <2>1. 0 \in S
    BY <1>2, <1>3, KeepsIs
  <2>2. ASSUME NEW k \in Nat, k \in S PROVE k + 1 \in S
    <3>1. SUFFICES ASSUME k + 1 <= n PROVE g[k + 1] = f[k + 1]
      OBVIOUS
    <3>2. k + 1 \in 1..n /\ (k + 1) - 1 = k /\ g[k] = f[k]
      BY <1>2, <2>2, <3>1
    <3>3. g[k + 1] = IF s[k + 1] # Garbage THEN Append(g[k], s[k + 1]) ELSE g[k]
      <4>1. g[k + 1] = IF s[k + 1] # Garbage THEN Append(g[k + 1 - 1], s[k + 1]) ELSE g[k + 1 - 1]
        BY <1>3, <3>2, KeepsIs
      <4>2. QED
        BY <3>2, <4>1
    <3>4. f[k + 1] = IF s[k + 1] # Garbage THEN Append(f[k], s[k + 1]) ELSE f[k]
      BY <1>2, <3>2
    <3>5. QED
      BY <3>2, <3>3, <3>4
  <2> HIDE DEF S
  <2>3. Nat \subseteq S
    BY <2>1, <2>2, Induction
  <2>4. QED
    BY <1>2, <2>3 DEF S
<1>4. Keeps(f, s)
  <2> DEFINE e(i) == IF i = 0 THEN <<>>
                     ELSE IF s[i] # Garbage THEN Append(f[i - 1], s[i]) ELSE f[i - 1]
  <2>1. ASSUME NEW i \in 0..n PROVE f[i] = e(i)
    <3>1. CASE i = 0
      BY <1>2, <3>1
    <3>2. CASE i # 0
      <4>1. i \in 1..n
        BY <1>2, <3>2
      <4>2. QED
        BY <1>2, <3>2, <4>1
    <3>3. QED
      BY <3>1, <3>2
  <2> HIDE DEF e
  <2>2. f = [i \in 0..n |-> e(i)]
    BY <1>2, <2>1
  <2>3. QED
    BY <2>2 DEF Keeps, e
<1>5. Keeps(all, s)
  BY <1>4
<1>6. Readable(s) = all[n]
  BY DEF Readable, Keeps
<1>7. QED
  BY <1>1, <1>3, <1>5, <1>6

LEMMA ReadableEmpty == Readable(<<>>) = <<>>
<1>1. <<>> \in Seq(Nat) /\ Len(<<>>) = 0
  OBVIOUS
<1>2. QED
  BY <1>1, ReadableIs DEF Recurs

LEMMA ReadableAppend ==
  ASSUME NEW s \in Seq(Nat), NEW p \in Nat
  PROVE  /\ Readable(s) \in Seq(Nat)
         /\ Readable(Append(s, p)) = IF p # Garbage THEN Append(Readable(s), p) ELSE Readable(s)
<1> DEFINE t == Append(s, p)
           n == Len(s)
<1>1. /\ t \in Seq(Nat) /\ Len(t) = n + 1 /\ n \in Nat /\ t[n + 1] = p
      /\ \A k \in 1..n : t[k] = s[k]
  OBVIOUS
<1>2. PICK f : Recurs(f, n, Seq(Nat), <<>>, Keeping(s)) /\ Readable(s) = f[n]
  BY ReadableIs
<1> HIDE DEF t
<1>3. PICK g : Recurs(g, n + 1, Seq(Nat), <<>>, Keeping(t)) /\ Readable(t) = g[n + 1]
  BY <1>1, ReadableIs
<1>4. \A k \in 1..n : Keeping(s)[k] = Keeping(t)[k]
  BY <1>1, KeepingIs
<1>5. g[n] = f[n]
  <2>1. n + 1 \in Nat /\ n <= n + 1 /\ \A k \in 1..n : Keeping(t)[k] = Keeping(s)[k]
    BY <1>1, <1>4
  <2> HIDE DEF n
  <2>2. \A k \in 0..n : g[k] = f[k]
    BY <1>1, <1>2, <1>3, <2>1, SameRecursion
  <2>3. QED
    BY <1>1, <2>2
<1>6. f[n] \in Seq(Nat) /\ g[n + 1] = Kept(p)[g[n]]
  <2>1. n + 1 \in 1..(n + 1) /\ (n + 1) - 1 = n /\ n \in 0..n
    BY <1>1
  <2>2. Keeping(t)[n + 1] = Kept(p)
    BY <1>1, <2>1, KeepingIs
  <2>3. QED
    BY <1>2, <1>3, <2>1, <2>2 DEF Recurs
<1>7. QED
  BY <1>2, <1>3, <1>5, <1>6, KeptIs DEF t

\* A line glued to the one before it takes both away.
LEMMA ReadableGlued ==
  ASSUME NEW s \in Seq(Nat), s # <<>>
  PROVE  LET glued == [s EXCEPT ![Len(s)] = Garbage]
             all == Readable(s)
         IN  /\ glued \in Seq(Nat) /\ Len(glued) = Len(s) /\ glued[Len(s)] = Garbage
             /\ \A k \in 1..(Len(s) - 1) : glued[k] = s[k]
             /\ s[Len(s)] = Garbage => Readable(glued) = all
             /\ s[Len(s)] # Garbage =>
                  all # <<>> /\ Readable(glued) = SubSeq(all, 1, Len(all) - 1)
<1> DEFINE n == Len(s)
           glued == [s EXCEPT ![n] = Garbage]
           front == SubSeq(s, 1, n - 1)
           all == Readable(s)
<1>1. /\ n \in Nat \ {0} /\ front \in Seq(Nat) /\ s[n] \in Nat /\ Garbage \in Nat
      /\ s = Append(front, s[n])
  BY DEF Garbage
<1>2. /\ glued \in Seq(Nat) /\ Len(glued) = n /\ glued[n] = Garbage
      /\ \A k \in 1..(n - 1) : glued[k] = s[k]
  <2>1. n \in 1..Len(s)
    BY <1>1
  <2>2. glued \in Seq(Nat) /\ Len(glued) = n
    BY <1>1, <2>1, ExceptSeq
  <2>3. DOMAIN s = 1..n /\ glued[n] = Garbage
    BY <1>1, <2>1
  <2>4. ASSUME NEW k \in 1..(n - 1) PROVE glued[k] = s[k]
    <3>1. k \in 1..n /\ k # n
      <4> HIDE DEF n, front
      <4>1. QED
        BY <1>1
    <3>2. QED
      BY <2>3, <3>1
  <2>5. QED
    BY <2>2, <2>3, <2>4
<1>3. glued = Append(front, Garbage)
  <2>1. /\ Append(front, Garbage) \in Seq(Nat) /\ Len(Append(front, Garbage)) = n
        /\ Append(front, Garbage)[n] = Garbage
        /\ \A k \in 1..(n - 1) : Append(front, Garbage)[k] = s[k]
    <3>1. Len(front) = n - 1 /\ \A k \in 1..(n - 1) : front[k] = s[k]
      BY <1>1
    <3> HIDE DEF front, n
    <3>2. QED
      BY <1>1, <3>1
  <2> HIDE DEF glued, front
  <2>2. \A k \in 1..n : glued[k] = Append(front, Garbage)[k]
    <3>1. \A k \in 1..n : k = n \/ k \in 1..(n - 1)
      BY <1>1
    <3>2. QED
      BY <1>2, <2>1, <3>1
  <2>3. QED
    BY <1>1, <1>2, <2>1, <2>2, SeqEqual
<1> HIDE DEF glued, front
<1>4. /\ Readable(front) \in Seq(Nat) /\ Readable(glued) = Readable(front)
      /\ all = IF s[n] # Garbage THEN Append(Readable(front), s[n]) ELSE Readable(front)
  BY <1>1, <1>3, ReadableAppend
<1>5. \A t \in Seq(Nat), p \in Nat :
        Append(t, p) # <<>> /\ SubSeq(Append(t, p), 1, Len(Append(t, p)) - 1) = t
  OBVIOUS
<1> HIDE DEF n, all
<1>6. QED
  BY <1>1, <1>2, <1>4, <1>5 DEF n, all, glued

Members(s) == {s[i] : i \in DOMAIN s}
Rising(s) == \A i, j \in DOMAIN s : i < j => s[i] < s[j]

LEMMA MembersAre ==
  ASSUME NEW s \in Seq(Nat)
  PROVE  /\ Members(s) \subseteq Nat
         /\ \A p \in Nat : Members(Append(s, p)) = Members(s) \cup {p}
<1>1. Members(s) \subseteq Nat
  BY DEF Members
<1>2. ASSUME NEW p \in Nat PROVE Members(Append(s, p)) = Members(s) \cup {p}
  <2> DEFINE t == Append(s, p)
  <2>1. /\ DOMAIN s = 1..Len(s) /\ Len(s) \in Nat /\ DOMAIN t = 1..(Len(s) + 1)
        /\ t[Len(s) + 1] = p /\ \A k \in 1..Len(s) : t[k] = s[k]
    OBVIOUS
  <2> HIDE DEF t
  <2>2. Members(t) \subseteq Members(s) \cup {p}
    BY <2>1 DEF Members
  <2>3. Members(s) \cup {p} \subseteq Members(t)
    BY <2>1 DEF Members
  <2>4. QED
    BY <2>2, <2>3 DEF t
<1>3. QED
  BY <1>1, <1>2

LEMMA ReadableMembers ==
  \A s \in Seq(Nat) : Members(Readable(s)) = Members(s) \ {Garbage}
<1> DEFINE S == {s \in Seq(Nat) : Members(Readable(s)) = Members(s) \ {Garbage}}
<1>1. <<>> \in S
  BY ReadableEmpty DEF Members
<1>2. ASSUME NEW s \in Seq(Nat), NEW p \in Nat, s \in S PROVE Append(s, p) \in S
  <2>1. /\ Readable(s) \in Seq(Nat) /\ Members(Readable(s)) = Members(s) \ {Garbage}
        /\ Members(Append(s, p)) = Members(s) \cup {p} /\ Append(s, p) \in Seq(Nat)
    BY <1>2, ReadableAppend, MembersAre
  <2>2. CASE p = Garbage
    BY <2>1, <2>2, ReadableAppend
  <2>3. CASE p # Garbage
    <3>1. Members(Readable(Append(s, p))) = Members(Readable(s)) \cup {p}
      BY <2>1, <2>3, ReadableAppend, MembersAre
    <3>2. QED
      BY <2>1, <2>3, <3>1
  <2>4. QED
    BY <2>2, <2>3
<1> HIDE DEF S
<1>3. Seq(Nat) \subseteq S
  BY <1>1, <1>2, SequenceInduction
<1>4. QED
  BY <1>3 DEF S

LEMMA ReadableWhole ==
  \A s \in Seq(Nat) : Garbage \notin Members(s) => Readable(s) = s
<1> DEFINE S == {s \in Seq(Nat) : Garbage \notin Members(s) => Readable(s) = s}
<1>1. <<>> \in S
  BY ReadableEmpty
<1>2. ASSUME NEW s \in Seq(Nat), NEW p \in Nat, s \in S PROVE Append(s, p) \in S
  <2>1. Members(Append(s, p)) = Members(s) \cup {p} /\ Append(s, p) \in Seq(Nat)
    BY MembersAre
  <2>2. QED
    BY <1>2, <2>1, ReadableAppend
<1> HIDE DEF S
<1>3. Seq(Nat) \subseteq S
  BY <1>1, <1>2, SequenceInduction
<1>4. QED
  BY <1>3 DEF S

-----------------------------------------------------------------------------
(* The ring.                                                               *)

\* Whatever a reader finds is in the ring, or older than Cap points that are.
Covers(r, s) == \A p \in Members(s) \ Members(r) : Len(r) = Cap /\ \A q \in Members(r) : p < q

\* The ring of a process that has recorded n points.
Ring(r, n) == /\ r \in Seq(Nat) /\ Len(r) <= Cap
              /\ Rising(r) /\ Members(r) \subseteq 1..n

LEMMA RingIs ==
  ASSUME NEW n \in Nat, NEW r, Ring(r, n)
  PROVE  /\ Cap \in Nat \ {0} /\ r \in Seq(Nat) /\ Len(r) \in Nat /\ DOMAIN r = 1..Len(r)
         /\ \A i \in 1..Len(r) : r[i] \in Members(r) /\ r[i] \in 1..n
         /\ \A i, j \in 1..Len(r) : i < j => r[i] < r[j]
<1>1. Cap \in Nat \ {0} /\ r \in Seq(Nat)
  BY StoreBounds DEF Ring
<1>2. Len(r) \in Nat /\ DOMAIN r = 1..Len(r)
  BY <1>1
<1>3. \A i \in 1..Len(r) : r[i] \in Members(r)
  BY <1>2 DEF Members
<1>4. \A i \in 1..Len(r) : r[i] \in 1..n
  BY <1>3 DEF Ring
<1>5. \A i, j \in 1..Len(r) : i < j => r[i] < r[j]
  BY <1>2 DEF Ring, Rising
<1>6. QED
  BY <1>1, <1>2, <1>3, <1>4, <1>5

\* Rising numbers, a ring full of them above p, end at least that far from p.
LEMMA FullReaches ==
  ASSUME NEW n \in Nat, NEW r, Ring(r, n), Len(r) = Cap,
         NEW p \in Nat, \A q \in Members(r) : p < q
  PROVE  p <= n - Cap
<1> DEFINE S == {i \in Nat : i + 1 <= Cap => p + i + 1 <= r[i + 1]}
<1>1. /\ Cap \in Nat \ {0} /\ DOMAIN r = 1..Cap
      /\ \A i \in 1..Cap : r[i] \in Members(r) /\ r[i] \in 1..n
      /\ \A i, j \in 1..Cap : i < j => r[i] < r[j]
  BY RingIs
<1>2. 0 \in S
  <2>1. 1 \in 1..Cap
    BY <1>1
  <2>2. QED
    BY <1>1, <2>1
<1>3. ASSUME NEW i \in Nat, i \in S PROVE i + 1 \in S
  <2>1. SUFFICES ASSUME i + 2 <= Cap PROVE p + i + 2 <= r[i + 2]
    OBVIOUS
  <2>2. i + 1 \in 1..Cap /\ i + 2 \in 1..Cap /\ i + 1 < i + 2
    BY <1>1, <2>1
  <2>3. r[i + 1] < r[i + 2] /\ r[i + 1] \in Nat /\ r[i + 2] \in Nat
    BY <1>1, <2>2
  <2>4. QED
    BY <1>3, <2>1, <2>3
<1> HIDE DEF S
<1>4. Nat \subseteq S
  BY <1>2, <1>3, Induction
<1>5. Cap - 1 \in S /\ Cap \in 1..Cap
  BY <1>1, <1>4
<1>6. p + Cap <= r[Cap] /\ r[Cap] \in 1..n
  BY <1>1, <1>5 DEF S
<1>7. QED
  BY <1>1, <1>6

Pushed(r, t, n) ==
  /\ Ring(t, n + 1) /\ n + 1 \in Members(t) /\ Members(t) \subseteq Members(r) \cup {n + 1}
  /\ Len(r) = Cap => Len(t) = Cap
  /\ \A q \in Members(r) \ Members(t) : Len(t) = Cap /\ \A x \in Members(t) : q < x

LEMMA PushPointIs ==
  ASSUME NEW n \in Nat, NEW r, Ring(r, n)
  PROVE  Pushed(r, PushPoint(r, n + 1), n)
<1> DEFINE rest == IF Len(r) = Cap THEN Tail(r) ELSE r
           t == Append(rest, n + 1)
<1>1. /\ Cap \in Nat \ {0} /\ r \in Seq(Nat) /\ Len(r) \in Nat /\ DOMAIN r = 1..Len(r)
      /\ n + 1 \in Nat /\ Len(r) <= Cap /\ Rising(r) /\ Members(r) \subseteq 1..n
      /\ \A i, j \in 1..Len(r) : i < j => r[i] < r[j]
  BY RingIs DEF Ring
<1>2. /\ rest \in Seq(Nat) /\ Len(rest) < Cap /\ Rising(rest) /\ Members(rest) \subseteq Members(r)
      /\ Len(r) = Cap => Len(rest) = Cap - 1
      /\ \A q \in Members(r) \ Members(rest) :
           Len(rest) = Cap - 1 /\ \A x \in Members(rest) : q < x
  <2>1. CASE Len(r) # Cap
    <3>1. rest = r
      BY <2>1
    <3> HIDE DEF rest
    <3>2. /\ r \in Seq(Nat) /\ Len(r) < Cap /\ Rising(r) /\ Members(r) \subseteq 1..n
      <4>1. \A a, b \in Nat : a <= b /\ a # b => a < b
        OBVIOUS
      <4>2. Len(r) < Cap
        BY <1>1, <2>1, <4>1
      <4>3. QED
        BY <1>1, <4>2
    <3>3. Members(r) \ Members(rest) = {}
      BY <3>1
    <3>4. QED
      BY <3>1, <3>2, <3>3
  <2>2. CASE Len(r) = Cap
    <3>1. /\ rest \in Seq(Nat) /\ Len(rest) = Cap - 1 /\ DOMAIN rest = 1..(Cap - 1)
          /\ \A i \in 1..(Cap - 1) : rest[i] = r[i + 1]
      <4>1. r # <<>> /\ rest = Tail(r)
        BY <1>1, <2>2
      <4>2. QED
        BY <1>1, <2>2, <4>1, HeadTailProperties
    <3> HIDE DEF rest
    <3>2. \A i \in 1..(Cap - 1) : i + 1 \in 1..Cap
      BY <1>1
    <3>3. Rising(rest)
      <4>1. ASSUME NEW i \in 1..(Cap - 1), NEW j \in 1..(Cap - 1), i < j PROVE r[i + 1] < r[j + 1]
        <5>1. i + 1 < j + 1
          BY <1>1, <4>1
        <5>2. QED
          BY <1>1, <2>2, <3>2, <5>1
      <4>2. QED
        BY <3>1, <4>1 DEF Rising
    <3>4. Members(rest) \subseteq Members(r)
      BY <1>1, <2>2, <3>1, <3>2 DEF Members
    <3>5. ASSUME NEW q \in Members(r) \ Members(rest), NEW x \in Members(rest) PROVE q < x
      <4>1. PICK i \in 1..Cap : q = r[i]
        BY <1>1, <2>2 DEF Members
      <4>2. i = 1
        <5>1. SUFFICES ASSUME i # 1 PROVE FALSE
          OBVIOUS
        <5>2. i - 1 \in 1..(Cap - 1) /\ (i - 1) + 1 = i
          BY <1>1, <5>1
        <5>3. QED
          BY <3>1, <3>5, <4>1, <5>2 DEF Members
      <4>3. PICK j \in 1..(Cap - 1) : x = r[j + 1]
        BY <3>1 DEF Members
      <4>4. QED
        BY <1>1, <2>2, <3>2, <4>1, <4>2, <4>3 DEF Ring, Rising
    <3>6. QED
      BY <1>1, <3>1, <3>3, <3>4, <3>5
  <2>3. QED
    BY <2>1, <2>2
<1> HIDE DEF rest
<1>3. Len(rest) \in Nat /\ DOMAIN rest = 1..Len(rest) /\ Members(t) = Members(rest) \cup {n + 1}
  <2>1. rest \in Seq(Nat) /\ n + 1 \in Nat
    BY <1>1, <1>2
  <2>2. Members(t) = Members(rest) \cup {n + 1}
    BY <2>1, MembersAre
  <2>3. QED
    BY <2>1, <2>2
<1>4. /\ t \in Seq(Nat) /\ Len(t) = Len(rest) + 1 /\ DOMAIN t = 1..(Len(rest) + 1)
      /\ t[Len(rest) + 1] = n + 1 /\ \A i \in 1..Len(rest) : t[i] = rest[i]
  <2>1. rest \in Seq(Nat) /\ n + 1 \in Nat
    BY <1>1, <1>2
  <2>2. t \in Seq(Nat) /\ Len(t) = Len(rest) + 1
    BY <2>1, AppendProperties
  <2>3. t[Len(rest) + 1] = n + 1 /\ \A i \in 1..Len(rest) : t[i] = rest[i]
    BY <2>1, AppendProperties
  <2> HIDE DEF t
  <2>4. QED
    BY <2>2, <2>3
<1> HIDE DEF t
<1>5. ASSUME NEW i \in DOMAIN t, NEW j \in DOMAIN t, i < j PROVE t[i] < t[j]
  <2>1. i \in 1..Len(rest)
    BY <1>3, <1>4, <1>5
  <2>2. t[i] = rest[i] /\ rest[i] \in 1..n
    <3>1. rest[i] \in Members(rest)
      BY <1>3, <2>1 DEF Members
    <3>2. QED
      BY <1>1, <1>2, <1>4, <2>1, <3>1
  <2>3. CASE j \in 1..Len(rest)
    BY <1>2, <1>3, <1>4, <1>5, <2>1, <2>3 DEF Rising
  <2>4. CASE j = Len(rest) + 1
    BY <1>4, <2>2, <2>4
  <2>5. QED
    BY <1>3, <1>4, <2>3, <2>4
<1>6. Len(t) <= Cap /\ (Len(r) = Cap => Len(t) = Cap) /\ (Len(rest) = Cap - 1 => Len(t) = Cap)
  <2>1. Len(rest) \in Nat /\ Cap \in Nat /\ Len(t) = Len(rest) + 1 /\ Len(rest) < Cap
    BY <1>1, <1>2, <1>3, <1>4
  <2>2. Len(r) = Cap => Len(rest) = Cap - 1
    BY <1>2
  <2>3. QED
    BY <2>1, <2>2
<1>7. Members(t) \subseteq 1..(n + 1) /\ Members(t) \subseteq Members(r) \cup {n + 1} /\ n + 1 \in Members(t)
  <2>1. Members(rest) \subseteq Members(r) /\ Members(r) \subseteq 1..n
    BY <1>1, <1>2
  <2>2. QED
    BY <1>3, <2>1
<1>8. Ring(t, n + 1)
  <2>1. Rising(t)
    BY <1>5 DEF Rising
  <2>2. QED
    BY <1>4, <1>6, <1>7, <2>1 DEF Ring
<1>9. ASSUME NEW q \in Members(r) \ Members(t)
      PROVE  Len(t) = Cap /\ \A x \in Members(t) : q < x
  <2>1. q \in Members(r) \ Members(rest) /\ q \in 1..n
    BY <1>1, <1>3, <1>9
  <2>2. Len(rest) = Cap - 1 /\ \A x \in Members(rest) : q < x
    BY <1>2, <2>1
  <2>3. QED
    BY <1>3, <1>6, <2>1, <2>2
<1>10. PushPoint(r, n + 1) = t
  BY DEF PushPoint, t, rest
<1>11. QED
  BY <1>6, <1>7, <1>8, <1>9, <1>10 DEF Pushed

LEMMA Rest ==
  ASSUME NEW a \in Nat, NEW c \in Nat, c <= a
  PROVE  a - c \in Nat /\ (a - c) + c = a /\ (a > c => a - c # 0)
         /\ \A i \in 1..c : (a - c) + 1 + i - 1 = i + (a - c)
OBVIOUS

\* What is left of s without its first d.
Past(s, d, n) ==
  LET t == SubSeq(s, d + 1, Len(s))
  IN  /\ t \in Seq(Nat) /\ Len(t) = n /\ DOMAIN t = 1..n
      /\ \A i \in 1..n : t[i] = s[i + d]

LEMMA PastIs ==
  ASSUME NEW s \in Seq(Nat), NEW n \in Nat, n <= Len(s)
  PROVE  Past(s, Len(s) - n, n)
<1> DEFINE t == SubSeq(s, Len(s) - n + 1, Len(s))
<1>1. Len(s) \in Nat
  OBVIOUS
<1>2. t \in Seq(Nat)
  BY <1>1
<1>3. Len(t) = n
  BY <1>1
<1>4. DOMAIN t = 1..n
  BY <1>2, <1>3
<1>5. \A i \in 1..n : t[i] = s[i + (Len(s) - n)]
  <2>1. \A i \in 1..n : t[i] = s[(Len(s) - n) + 1 + i - 1]
    <3>1. Len(s) - n + 1 \in 1..(Len(s) + 1)
      BY <1>1
    <3>2. \A i \in 1..Len(t) : t[i] = s[(Len(s) - n) + 1 + i - 1]
      BY <1>1, <3>1, SubSeqProperties
    <3>3. QED
      BY <1>3, <3>2
  <2> HIDE DEF t
  <2>2. QED
    BY <1>1, <2>1, Rest
<1>6. QED
  BY <1>2, <1>3, <1>4, <1>5 DEF Past

LEMMA NewestIs ==
  ASSUME NEW n \in Nat, NEW s \in Seq(Nat), Rising(s), Members(s) \subseteq 1..n
  PROVE  Ring(Newest(s, Cap), n) /\ Covers(Newest(s, Cap), s)
<1> DEFINE t == Newest(s, Cap)
           d == Len(s) - Cap
<1>1. Cap \in Nat \ {0} /\ Len(s) \in Nat /\ DOMAIN s = 1..Len(s)
  BY StoreBounds
<1>2. CASE Len(s) <= Cap
  <2>1. t = s
    BY <1>2 DEF Newest
  <2>2. QED
    BY <1>2, <2>1 DEF Ring, Covers
<1>3. CASE Len(s) > Cap
  <2>1. /\ t \in Seq(Nat) /\ Len(t) = Cap /\ DOMAIN t = 1..Cap
        /\ \A i \in 1..Cap : t[i] = s[i + d]
    <3>1. t = SubSeq(s, d + 1, Len(s))
      BY <1>1, <1>3 DEF Newest
    <3>2. Past(s, d, Cap)
      BY <1>1, <1>3, PastIs
    <3> HIDE DEF t, d
    <3>3. QED
      BY <3>1, <3>2 DEF Past
  <2>2. d \in Nat \ {0} /\ d + Cap = Len(s)
    <3>1. Len(s) \in Nat /\ Cap \in Nat /\ Cap <= Len(s) /\ Len(s) > Cap
      BY <1>1, <1>3
    <3>2. QED
      BY <3>1, Rest
  <2> HIDE DEF t, d
  <2>3. \A i \in 1..Cap : i + d \in 1..Len(s)
    BY <1>1, <2>2
  <2>4. Rising(t)
    <3>1. ASSUME NEW i \in 1..Cap, NEW j \in 1..Cap, i < j PROVE s[i + d] < s[j + d]
      <4>1. i + d < j + d
        BY <1>1, <2>2, <3>1
      <4>2. QED
        BY <1>1, <2>3, <4>1 DEF Rising
    <3>2. QED
      BY <2>1, <3>1 DEF Rising
  <2>5. Members(t) \subseteq Members(s)
    BY <1>1, <2>1, <2>3 DEF Members
  <2>6. ASSUME NEW p \in Members(s) \ Members(t), NEW q \in Members(t) PROVE p < q
    <3>1. PICK i \in 1..Len(s) : p = s[i]
      BY <1>1 DEF Members
    <3>2. PICK j \in 1..Cap : q = s[j + d]
      BY <2>1 DEF Members
    <3>3. i <= d
      <4>1. SUFFICES ASSUME i > d PROVE FALSE
        BY <2>2
      <4>2. i - d \in 1..Cap /\ (i - d) + d = i
        BY <1>1, <2>2, <4>1
      <4>3. QED
        BY <2>1, <2>6, <3>1, <4>2 DEF Members
    <3>4. i < j + d
      BY <1>1, <2>2, <3>3
    <3>5. QED
      BY <1>1, <2>3, <3>1, <3>2, <3>4 DEF Rising
  <2>7. QED
    BY <1>1, <2>1, <2>4, <2>5, <2>6 DEF Ring, Covers, t
<1>4. QED
  BY <1>1, <1>2, <1>3

-----------------------------------------------------------------------------
(* The file.                                                               *)

Tip(s) == s[Len(s)]
Fewer(l, m) == l # <<>> /\ m = SubSeq(l, 1, Len(l) - 1)

\* The file f that a line p leads to.
Put(f, p) ==
  /\ f \in Seq(Nat) /\ f # <<>> /\ Members(f) \subseteq Members(file) \cup {p, Garbage}
  /\ ~open => /\ Tip(f) = p /\ Members(f) = Members(file) \cup {p}
              /\ p # Garbage => Readable(f) = Append(Readable(file), p)
              /\ p = Garbage => Readable(f) = Readable(file)
  /\ open => /\ Tip(f) = Garbage
             /\ Members(file) \subseteq Members(f) \cup {Tip(file)}
             /\ Tip(file) = Garbage => Members(file) \subseteq Members(f)
             /\ Readable(f) = Readable(file) \/ Fewer(Readable(file), Readable(f))

LEMMA PutLineIs ==
  ASSUME file \in Seq(Nat), open \in BOOLEAN, open => file # <<>>, NEW p \in Nat
  PROVE  Put(PutLine(p), p)
<1>1. CASE ~open
  <2> DEFINE f == Append(file, p)
  <2>1. PutLine(p) = f
    BY <1>1 DEF PutLine
  <2>2. f \in Seq(Nat) /\ f # <<>> /\ f[Len(f)] = p
    OBVIOUS
  <2> HIDE DEF f
  <2>3. /\ Members(f) = Members(file) \cup {p}
        /\ Readable(f) = IF p # Garbage THEN Append(Readable(file), p) ELSE Readable(file)
    BY MembersAre, ReadableAppend DEF f
  <2>4. QED
    BY <1>1, <2>1, <2>2, <2>3 DEF Put, Tip
<1>2. CASE open
  <2> DEFINE n == Len(file)
             f == [file EXCEPT ![n] = Garbage]
  <2>1. PutLine(p) = f
    BY <1>2 DEF PutLine
  <2>2. n \in Nat \ {0} /\ DOMAIN file = 1..n
    BY <1>2
  <2>3. /\ f \in Seq(Nat) /\ Len(f) = n /\ f[n] = Garbage
        /\ \A k \in 1..(n - 1) : f[k] = file[k]
        /\ Readable(f) = Readable(file) \/ Fewer(Readable(file), Readable(f))
    BY <1>2, ReadableGlued DEF Fewer
  <2> HIDE DEF f
  <2>4. DOMAIN f = 1..n /\ f # <<>> /\ n \in 1..n
    BY <2>2, <2>3
  <2> HIDE DEF n
  <2>5. \A k \in 1..n : k = n \/ k \in 1..(n - 1)
    BY <2>2
  <2>6. Members(f) \subseteq Members(file) \cup {Garbage}
    BY <2>2, <2>3, <2>4, <2>5 DEF Members
  <2>7. Members(file) \subseteq Members(f) \cup {file[n]}
    BY <2>2, <2>3, <2>4, <2>5 DEF Members
  <2>8. Garbage \in Members(f)
    BY <2>3, <2>4 DEF Members
  <2>9. Tip(f) = Garbage /\ Tip(file) = file[n]
    BY <2>3 DEF Tip, n
  <2>10. QED
    BY <1>2, <2>1, <2>3, <2>4, <2>6, <2>7, <2>8, <2>9 DEF Put
<1>3. QED
  BY <1>1, <1>2

Ordered(s, n) == s \in Seq(Nat) /\ Rising(Readable(s)) /\ Members(s) \subseteq 0..n

StoreInv ==
  /\ open \in BOOLEAN /\ step \in {"down", "run", "compact"}
  /\ recorded \in Nat /\ faults \in Nat
  /\ Ordered(file, recorded) /\ (open => file # <<>>)
  /\ Ring(ring, recorded)
  /\ step # "down" => Covers(ring, Readable(file))

LEMMA OrderedReads ==
  ASSUME NEW n \in Nat, NEW s, Ordered(s, n)
  PROVE  /\ Readable(s) \in Seq(Nat) /\ Rising(Readable(s))
         /\ Members(Readable(s)) \subseteq 1..n /\ Members(Readable(s)) = Members(s) \ {Garbage}
<1>1. s \in Seq(Nat) /\ Readable(s) \in Seq(Nat) /\ Rising(Readable(s))
      /\ Members(Readable(s)) = Members(s) \ {Garbage}
  BY ReadableAppend, ReadableMembers DEF Ordered
<1>2. QED
  BY <1>1 DEF Ordered, Garbage

LEMMA FewerRises ==
  ASSUME NEW l \in Seq(Nat), Rising(l), NEW m, Fewer(l, m)
  PROVE  Rising(m)
<1>1. Len(l) - 1 \in Nat /\ DOMAIN l = 1..Len(l) /\ Len(l) \in Nat
  BY DEF Fewer
<1>2. DOMAIN m = 1..(Len(l) - 1) /\ \A k \in 1..(Len(l) - 1) : m[k] = l[k]
  BY <1>1 DEF Fewer
<1>3. \A k \in 1..(Len(l) - 1) : k \in DOMAIN l
  BY <1>1
<1>4. QED
  BY <1>2, <1>3 DEF Rising

\* A reader of what was l finds m after a step.
LogStep(l, m) ==
  \/ m = l
  \/ /\ m \in Seq(Nat) /\ Len(m) = Len(l) + 1 /\ Rising(m)
     /\ \A i \in DOMAIN l : m[i] = l[i]
  \/ Fewer(l, m)
  \/ /\ m \in Seq(Nat) /\ Len(m) <= Cap /\ Rising(m)
     /\ \A p \in Members(l) \ Members(m) : Len(m) = Cap /\ \A q \in Members(m) : p < q

LEMMA AppendRises ==
  ASSUME NEW l \in Seq(Nat), Rising(l), NEW n \in Nat, Members(l) \subseteq 1..n
  PROVE  Rising(Append(l, n + 1)) /\ LogStep(l, Append(l, n + 1))
<1> DEFINE m == Append(l, n + 1)
<1>1. /\ m \in Seq(Nat) /\ Len(m) = Len(l) + 1 /\ Len(l) \in Nat
      /\ DOMAIN l = 1..Len(l) /\ DOMAIN m = 1..(Len(l) + 1) /\ m[Len(l) + 1] = n + 1
      /\ \A i \in 1..Len(l) : m[i] = l[i]
  OBVIOUS
<1> HIDE DEF m
<1>2. ASSUME NEW i \in DOMAIN m, NEW j \in DOMAIN m, i < j PROVE m[i] < m[j]
  <2>1. i \in 1..Len(l) /\ m[i] = l[i] /\ l[i] \in 1..n
    BY <1>1, <1>2 DEF Members
  <2>2. CASE j \in 1..Len(l)
    BY <1>1, <1>2, <2>1, <2>2 DEF Rising
  <2>3. CASE j = Len(l) + 1
    BY <1>1, <2>1, <2>3
  <2>4. QED
    BY <1>1, <2>2, <2>3
<1>3. Rising(m)
  BY <1>2 DEF Rising
<1>4. LogStep(l, m)
  BY <1>1, <1>3 DEF LogStep
<1>5. QED
  BY <1>3, <1>4 DEF m

\* What a point recorded does to the file, whatever its fate.
LEMMA LinePut ==
  ASSUME StoreInv, NEW p, p = Garbage \/ p = recorded + 1, NEW f, Put(f, p)
  PROVE  /\ Ordered(f, recorded + 1) /\ f # <<>>
         /\ LogStep(Readable(file), Readable(f))
         /\ Members(Readable(f)) \subseteq Members(Readable(file)) \cup {recorded + 1}
<1>1. /\ recorded \in Nat /\ file \in Seq(Nat) /\ f \in Seq(Nat) /\ f # <<>> /\ open \in BOOLEAN
      /\ Members(f) \subseteq Members(file) \cup {p, Garbage} /\ Members(file) \subseteq 0..recorded
      /\ Readable(file) \in Seq(Nat) /\ Rising(Readable(file))
      /\ Members(Readable(file)) \subseteq 1..recorded
      /\ Members(Readable(file)) = Members(file) \ {Garbage}
  BY OrderedReads DEF StoreInv, Put, Ordered
<1>2. Members(Readable(f)) = Members(f) \ {Garbage}
  BY <1>1, ReadableMembers
<1>3. Members(Readable(f)) \subseteq Members(Readable(file)) \cup {recorded + 1}
  BY <1>1, <1>2
<1>4. Members(f) \subseteq 0..(recorded + 1)
  BY <1>1 DEF Garbage
<1>5. CASE Readable(f) = Readable(file)
  BY <1>1, <1>3, <1>4, <1>5 DEF Ordered, LogStep
<1>6. CASE Fewer(Readable(file), Readable(f))
  BY <1>1, <1>3, <1>4, <1>6, FewerRises DEF Ordered, LogStep
<1>7. CASE p = recorded + 1 /\ Readable(f) = Append(Readable(file), p)
  BY <1>1, <1>3, <1>4, <1>7, AppendRises DEF Ordered
<1>8. QED
  BY <1>1, <1>5, <1>6, <1>7 DEF Put

LEMMA RecordKeeps ==
  ASSUME StoreInv, NEW fate \in {"whole", "unterminated", "torn", "refused"}, RecordPoint(fate)
  PROVE  StoreInv' /\ LogStep(Readable(file), Readable(file'))
<1>1. /\ step = "run" /\ recorded' = recorded + 1 /\ ring' = PushPoint(ring, recorded + 1)
      /\ step' \in {"run", "compact"} /\ recorded \in Nat /\ open \in BOOLEAN
      /\ file \in Seq(Nat) /\ (open => file # <<>>)
  BY DEF RecordPoint, StoreInv, Ordered
<1>2. open' \in BOOLEAN /\ faults' \in Nat
  <2>1. faults \in Nat /\ open \in BOOLEAN
    BY DEF StoreInv
  <2>2. /\ faults' = IF fate = "whole" THEN faults ELSE faults + 1
        /\ fate = "whole" => open' = FALSE
        /\ fate \in {"unterminated", "torn"} => open' = TRUE
        /\ fate = "refused" => open' = open
    BY DEF RecordPoint
  <2>3. faults' \in Nat
    BY <2>1, <2>2
  <2>4. open' \in BOOLEAN
    BY <2>1, <2>2
  <2>5. QED
    BY <2>3, <2>4
<1>3. Pushed(ring, ring', recorded)
  BY <1>1, PushPointIs DEF StoreInv
<1>4. /\ Ordered(file', recorded + 1) /\ (open' => file' # <<>>)
      /\ LogStep(Readable(file), Readable(file'))
      /\ Members(Readable(file')) \subseteq Members(Readable(file)) \cup {recorded + 1}
  <2>1. CASE fate = "refused"
    <3>1. file' = file /\ open' = open
      BY <2>1 DEF RecordPoint
    <3>2. QED
      BY <1>1, <3>1 DEF StoreInv, Ordered, LogStep
  <2>2. CASE fate # "refused"
    <3>1. PICK p : (p = Garbage \/ p = recorded + 1) /\ file' = PutLine(p)
      BY <1>1, <2>2 DEF RecordPoint
    <3>2. p \in Nat
      BY <1>1, <3>1 DEF Garbage
    <3>3. Put(file', p)
      BY <1>1, <3>1, <3>2, PutLineIs
    <3>4. QED
      BY <3>1, <3>3, LinePut
  <2>3. QED
    BY <2>1, <2>2
<1>5. Covers(ring', Readable(file'))
  <2>1. ASSUME NEW q \in Members(Readable(file')) \ Members(ring')
        PROVE  Len(ring') = Cap /\ \A x \in Members(ring') : q < x
    <3>1. q \in Members(Readable(file)) /\ q # recorded + 1 /\ q \in 1..recorded
      <4>1. q \in Members(Readable(file)) /\ q # recorded + 1
        BY <1>3, <1>4, <2>1 DEF Pushed
      <4>2. QED
        BY <1>1, <4>1, OrderedReads DEF StoreInv
    <3>2. CASE q \in Members(ring)
      BY <1>3, <2>1, <3>2 DEF Pushed
    <3>3. CASE q \notin Members(ring)
      <4>1. Len(ring) = Cap /\ \A x \in Members(ring) : q < x
        BY <1>1, <3>1, <3>3 DEF StoreInv, Covers
      <4>2. QED
        BY <1>1, <1>3, <3>1, <4>1 DEF Pushed
    <3>4. QED
      BY <3>2, <3>3
  <2>2. QED
    BY <2>1 DEF Covers
<1>6. QED
  BY <1>1, <1>2, <1>3, <1>4, <1>5 DEF StoreInv, Pushed

LEMMA OtherStoreSteps ==
  ASSUME StoreInv,
         \/ StartProcess
         \/ \E works \in BOOLEAN : Compact(works)
         \/ EndProcess
         \/ UNCHANGED storeVars
  PROVE  StoreInv' /\ LogStep(Readable(file), Readable(file'))
<1> USE DEF StoreInv
<1>1. LogStep(Readable(file), Readable(file))
  BY DEF LogStep
<1>2. CASE StartProcess
  <2>1. /\ step' = "run" /\ ring' = Newest(Readable(file), Cap)
        /\ UNCHANGED <<file, open, recorded, faults>>
    BY <1>2 DEF StartProcess, Loaded
  <2>2. Ring(ring', recorded) /\ Covers(ring', Readable(file))
    BY <2>1, OrderedReads, NewestIs
  <2>3. QED
    BY <1>1, <2>1, <2>2
<1>3. ASSUME NEW works \in BOOLEAN, Compact(works) PROVE StoreInv' /\ LogStep(Readable(file), Readable(file'))
  <2>1. step = "compact" /\ step' = "run" /\ UNCHANGED <<ring, recorded, faults>>
    BY <1>3 DEF Compact
  <2>2. CASE ~works
    <3>1. UNCHANGED <<file, open>>
      BY <1>3, <2>2 DEF Compact
    <3>2. QED
      BY <1>1, <2>1, <3>1
  <2>3. CASE works
    <3>1. file' = ring /\ open' = FALSE
      BY <1>3, <2>3 DEF Compact
    <3>2. /\ ring \in Seq(Nat) /\ Len(ring) <= Cap /\ Rising(ring)
          /\ Members(ring) \subseteq 1..recorded
          /\ Covers(ring, Readable(file))
      BY <2>1 DEF Ring
    <3>3. Readable(ring) = ring
      BY <3>2, ReadableWhole DEF Garbage
    <3>4. Ordered(file', recorded)
      <4>1. Members(ring) \subseteq 0..recorded
        BY <3>2
      <4>2. QED
        BY <3>1, <3>2, <3>3, <4>1 DEF Ordered
    <3>5. LogStep(Readable(file), Readable(file'))
      BY <3>1, <3>2, <3>3 DEF LogStep, Covers
    <3>6. Covers(ring', Readable(file'))
      BY <2>1, <3>1, <3>3 DEF Covers
    <3>7. QED
      BY <2>1, <3>1, <3>4, <3>5, <3>6
  <2>4. QED
    BY <2>2, <2>3
<1>4. CASE EndProcess
  <2>1. step' = "down" /\ ring' = <<>> /\ UNCHANGED <<file, open, recorded, faults>>
    BY <1>4 DEF EndProcess
  <2>2. Ring(<<>>, recorded)
    BY StoreBounds DEF Ring, Rising, Members
  <2>3. QED
    BY <1>1, <2>1, <2>2
<1>5. CASE UNCHANGED storeVars
  BY <1>1, <1>5 DEF storeVars
<1>6. QED
  BY <1>2, <1>3, <1>4, <1>5

LEMMA StoreSteps ==
  StoreInv /\ [StoreNext]_storeVars => StoreInv' /\ LogStep(Readable(file), Readable(file'))
BY RecordKeeps, OtherStoreSteps DEF StoreNext

LEMMA StoreStart == StoreInit => StoreInv
<1> SUFFICES ASSUME StoreInit PROVE StoreInv
  OBVIOUS
<1>1. file = <<>> /\ ring = <<>> /\ open = FALSE /\ step = "down" /\ recorded = 0 /\ faults = 0
  BY DEF StoreInit
<1>2. Ordered(<<>>, 0)
  BY ReadableEmpty DEF Ordered, Rising, Members
<1>3. Ring(<<>>, 0)
  BY StoreBounds DEF Ring, Rising, Members
<1>4. QED
  BY <1>1, <1>2, <1>3 DEF StoreInv

-----------------------------------------------------------------------------
(* What faults may cost.                                                   *)

Fresh(n) == {p \in 1..n : p > n - Cap}
Missing(s, n) == Fresh(n) \ Members(s)

\* What the line left open will cost when the next one is glued to it, the new
\* one included: paid for by the fault that left it open.
Owed(f, o) == IF ~o THEN 0 ELSE IF Tip(f) = Garbage THEN 1 ELSE 2

LossInv ==
  /\ Cardinality(Missing(file, recorded)) + Owed(file, open) <= 2 * faults
  /\ step # "down" => Cardinality(Missing(ring, recorded)) <= 2 * faults

LEMMA MissingFinite ==
  ASSUME NEW n \in Nat, NEW s
  PROVE  IsFiniteSet(Missing(s, n)) /\ Cardinality(Missing(s, n)) \in Nat
<1>1. IsFiniteSet(1..n)
  BY FS_Interval
<1>2. Missing(s, n) \subseteq 1..n
  BY DEF Missing, Fresh
<1>3. QED
  BY <1>1, <1>2, FS_Subset, FS_CardinalityType

LEMMA NoMore ==
  ASSUME NEW A, IsFiniteSet(A), NEW B, B \subseteq A
  PROVE  Cardinality(B) <= Cardinality(A)
BY FS_Subset

LEMMA OneMore ==
  ASSUME NEW A, IsFiniteSet(A), NEW x
  PROVE  /\ IsFiniteSet(A \cup {x}) /\ Cardinality(A) \in Nat
         /\ Cardinality(A \cup {x}) \in Nat /\ Cardinality(A \cup {x}) <= Cardinality(A) + 1
<1>1. IsFiniteSet(A \cup {x}) /\ Cardinality(A) \in Nat
      /\ (Cardinality(A \cup {x}) = Cardinality(A) \/ Cardinality(A \cup {x}) = Cardinality(A) + 1)
  BY FS_AddElement, FS_CardinalityType
<1>2. QED
  BY <1>1

\* Of s no more is missing than of t, a new point and another apart.
LEMMA MissingBounds ==
  ASSUME NEW n \in Nat, NEW m \in {n, n + 1}, NEW s, NEW t, NEW x
  PROVE  /\ Missing(s, m) \subseteq Missing(t, n) =>
              Cardinality(Missing(s, m)) <= Cardinality(Missing(t, n))
         /\ Missing(s, m) \subseteq Missing(t, n) \cup {n + 1} =>
              Cardinality(Missing(s, m)) <= Cardinality(Missing(t, n)) + 1
         /\ Missing(s, m) \subseteq Missing(t, n) \cup {n + 1} \cup {x} =>
              Cardinality(Missing(s, m)) <= Cardinality(Missing(t, n)) + 2
<1> DEFINE B == Missing(s, m)
           A == Missing(t, n)
           A1 == A \cup {n + 1}
           A2 == A1 \cup {x}
<1>1. IsFiniteSet(A) /\ Cardinality(A) \in Nat
  BY MissingFinite
<1>2. IsFiniteSet(B) /\ Cardinality(B) \in Nat
  BY MissingFinite
<1> HIDE DEF A, B
<1>3. IsFiniteSet(A1) /\ Cardinality(A1) \in Nat /\ Cardinality(A1) <= Cardinality(A) + 1
  BY <1>1, OneMore
<1> HIDE DEF A1
<1>4. IsFiniteSet(A2) /\ Cardinality(A2) \in Nat /\ Cardinality(A2) <= Cardinality(A1) + 1
  BY <1>3, OneMore
<1> HIDE DEF A2
<1>5. /\ B \subseteq A => Cardinality(B) <= Cardinality(A)
      /\ B \subseteq A1 => Cardinality(B) <= Cardinality(A1)
      /\ B \subseteq A2 => Cardinality(B) <= Cardinality(A2)
  BY <1>1, <1>3, <1>4, NoMore
<1>6. /\ B \subseteq A => Cardinality(B) <= Cardinality(A)
      /\ B \subseteq A1 => Cardinality(B) <= Cardinality(A) + 1
      /\ B \subseteq A2 => Cardinality(B) <= Cardinality(A) + 2
  BY <1>1, <1>2, <1>3, <1>4, <1>5
<1>7. QED
  BY <1>6 DEF A, B, A1, A2

LEMMA FileLoss ==
  ASSUME StoreInv, LossInv,
         NEW fate \in {"whole", "unterminated", "torn", "refused"}, RecordPoint(fate)
  PROVE  Cardinality(Missing(file', recorded')) + Owed(file', open') <= 2 * faults'
<1> DEFINE n == recorded
           lost == Cardinality(Missing(file, n))
           lost1 == Cardinality(Missing(file', n + 1))
<1>1. /\ n \in Nat /\ faults \in Nat /\ open \in BOOLEAN /\ recorded' = n + 1
      /\ file \in Seq(Nat) /\ (open => file # <<>>) /\ lost \in Nat /\ lost1 \in Nat
      /\ lost + Owed(file, open) <= 2 * faults
  <2>1. n \in Nat /\ faults \in Nat /\ open \in BOOLEAN /\ file \in Seq(Nat) /\ (open => file # <<>>)
    BY DEF StoreInv, Ordered
  <2>2. recorded' = n + 1
    BY DEF RecordPoint
  <2>3. n + 1 \in Nat
    BY <2>1
  <2>4. lost \in Nat /\ lost1 \in Nat
    BY <2>1, <2>3, MissingFinite
  <2>5. lost + Owed(file, open) <= 2 * faults
    BY DEF LossInv
  <2>6. QED
    BY <2>1, <2>2, <2>4, <2>5
<1>2. Fresh(n + 1) \subseteq Fresh(n) \cup {n + 1} /\ Garbage \notin Fresh(n)
  BY <1>1, StoreBounds DEF Fresh, Garbage
<1>3. CASE fate = "refused"
  <2>1. file' = file /\ open' = open /\ faults' = faults + 1
    BY <1>3 DEF RecordPoint
  <2>2. Missing(file', n + 1) \subseteq Missing(file, n) \cup {n + 1}
    BY <1>2, <2>1 DEF Missing
  <2>3. lost1 <= lost + 1
    BY <1>1, <2>2, MissingBounds
  <2>4. Owed(file', open') = Owed(file, open) /\ Owed(file, open) \in Nat
    BY <2>1 DEF Owed
  <2> HIDE DEF lost, lost1
  <2>5. lost1 + Owed(file', open') <= 2 * faults'
    BY <1>1, <2>1, <2>3, <2>4
  <2>6. QED
    BY <1>1, <2>5 DEF lost1
<1>4. CASE fate # "refused"
  <2>1. PICK p : /\ p = IF fate = "torn" THEN Garbage ELSE n + 1
                 /\ file' = PutLine(p)
    BY <1>1, <1>4 DEF RecordPoint
  <2>2. p \in Nat
    BY <1>1, <2>1 DEF Garbage
  <2>3. Put(file', p)
    BY <1>1, <2>1, <2>2, PutLineIs
  <2>4. /\ fate = "whole" => open' = FALSE /\ faults' = faults
        /\ fate # "whole" => open' = TRUE /\ faults' = faults + 1
    BY <1>4 DEF RecordPoint
  <2>5. CASE ~open
    <3>1. Owed(file, open) = 0 /\ Tip(file') = p /\ Members(file') = Members(file) \cup {p}
      BY <2>3, <2>5 DEF Owed, Put
    <3>2. CASE fate = "torn"
      <4>1. Missing(file', n + 1) \subseteq Missing(file, n) \cup {n + 1}
        BY <1>2, <3>1 DEF Missing
      <4>2. lost1 <= lost + 1
        BY <1>1, <4>1, MissingBounds
      <4>3. Owed(file', open') = 1 /\ faults' = faults + 1
        BY <2>1, <2>4, <3>1, <3>2 DEF Owed
      <4> HIDE DEF lost, lost1
      <4>4. lost1 + Owed(file', open') <= 2 * faults'
        BY <1>1, <3>1, <4>2, <4>3
      <4>5. QED
        BY <1>1, <4>4 DEF lost1
    <3>3. CASE fate # "torn"
      <4>1. Missing(file', n + 1) \subseteq Missing(file, n)
        BY <1>2, <2>1, <3>1, <3>3 DEF Missing
      <4>2. lost1 <= lost
        BY <1>1, <4>1, MissingBounds
      <4>3. \/ Owed(file', open') = 0 /\ faults' = faults
            \/ Owed(file', open') <= 2 /\ Owed(file', open') \in Nat /\ faults' = faults + 1
        BY <2>4 DEF Owed
      <4> HIDE DEF lost, lost1
      <4>4. lost1 + Owed(file', open') <= 2 * faults'
        BY <1>1, <3>1, <4>2, <4>3
      <4>5. QED
        BY <1>1, <4>4 DEF lost1
    <3>4. QED
      BY <3>2, <3>3
  <2>6. CASE open
    <3>1. /\ Tip(file') = Garbage /\ Members(file) \subseteq Members(file') \cup {Tip(file)}
          /\ Tip(file) = Garbage => Members(file) \subseteq Members(file')
      BY <2>3, <2>6 DEF Put
    <3>2. \/ Owed(file', open') = 0 /\ faults' = faults
          \/ Owed(file', open') = 1 /\ faults' = faults + 1
      BY <2>4, <3>1 DEF Owed
    <3>3. lost1 <= lost + Owed(file, open) /\ Owed(file, open) \in Nat
      <4>1. CASE Tip(file) = Garbage
        <5>1. Missing(file', n + 1) \subseteq Missing(file, n) \cup {n + 1}
          BY <1>2, <3>1, <4>1 DEF Missing
        <5>2. Owed(file, open) = 1
          BY <2>6, <4>1 DEF Owed
        <5>3. lost1 <= lost + 1
          BY <1>1, <5>1, MissingBounds
        <5> HIDE DEF lost, lost1
        <5>4. QED
          BY <5>2, <5>3
      <4>2. CASE Tip(file) # Garbage
        <5>1. Missing(file', n + 1) \subseteq Missing(file, n) \cup {n + 1} \cup {Tip(file)}
          BY <1>2, <3>1 DEF Missing
        <5>2. Owed(file, open) = 2
          BY <2>6, <4>2 DEF Owed
        <5>3. lost1 <= lost + 2
          BY <1>1, <5>1, MissingBounds
        <5> HIDE DEF lost, lost1
        <5>4. QED
          BY <5>2, <5>3
      <4>3. QED
        BY <4>1, <4>2
    <3> HIDE DEF lost, lost1
    <3>4. lost1 + Owed(file', open') <= 2 * faults'
      BY <1>1, <3>2, <3>3
    <3>5. QED
      BY <1>1, <3>4 DEF lost1
  <2>7. QED
    BY <1>1, <2>5, <2>6
<1>5. QED
  BY <1>3, <1>4

\* A full ring leaves out nothing that is new.
LEMMA OldOnly ==
  ASSUME NEW n \in Nat, NEW r, Ring(r, n), Len(r) = Cap,
         NEW q \in Fresh(n), \A x \in Members(r) : q < x
  PROVE  FALSE
<1>1. q \in Nat /\ q > n - Cap
  BY DEF Fresh
<1>2. q <= n - Cap
  BY <1>1, FullReaches
<1>3. QED
  BY <1>1, <1>2, StoreBounds

LEMMA RingLoss ==
  ASSUME StoreInv, LossInv,
         NEW fate \in {"whole", "unterminated", "torn", "refused"}, RecordPoint(fate)
  PROVE  Cardinality(Missing(ring', recorded')) <= 2 * faults'
<1> DEFINE n == recorded
<1>1. /\ n \in Nat /\ recorded' = n + 1 /\ ring' = PushPoint(ring, n + 1) /\ Ring(ring, n)
      /\ Cardinality(Missing(ring, n)) <= 2 * faults
      /\ faults \in Nat /\ faults' \in {faults, faults + 1}
  BY DEF RecordPoint, StoreInv, LossInv
<1>2. Pushed(ring, ring', n)
  BY <1>1, PushPointIs
<1>3. ASSUME NEW q \in Missing(ring', n + 1) PROVE q \in Missing(ring, n)
  <2>1. q \in Fresh(n + 1) /\ q \notin Members(ring') /\ q # n + 1
    BY <1>2, <1>3 DEF Missing, Pushed
  <2>2. q \in Fresh(n)
    BY <1>1, <2>1, StoreBounds DEF Fresh
  <2>3. q \notin Members(ring)
    <3>1. SUFFICES ASSUME q \in Members(ring) PROVE FALSE
      OBVIOUS
    <3>2. Len(ring') = Cap /\ (\A x \in Members(ring') : q < x) /\ Ring(ring', n + 1)
      BY <1>2, <2>1, <3>1 DEF Pushed
    <3>3. n + 1 \in Nat
      BY <1>1
    <3>4. QED
      BY <2>1, <3>2, <3>3, OldOnly
  <2>4. QED
    BY <2>2, <2>3 DEF Missing
<1>4. Cardinality(Missing(ring', n + 1)) <= Cardinality(Missing(ring, n))
  BY <1>1, <1>3, MissingBounds
<1>5. Cardinality(Missing(ring', n + 1)) \in Nat /\ Cardinality(Missing(ring, n)) \in Nat
  BY <1>1, MissingFinite
<1>6. QED
  BY <1>1, <1>4, <1>5

LEMMA LossSteps == StoreInv /\ LossInv /\ [StoreNext]_storeVars => LossInv'
<1> SUFFICES ASSUME StoreInv, LossInv, [StoreNext]_storeVars PROVE LossInv'
  OBVIOUS
<1>1. ASSUME NEW fate \in {"whole", "unterminated", "torn", "refused"}, RecordPoint(fate)
      PROVE  LossInv'
  BY <1>1, FileLoss, RingLoss DEF LossInv
<1>2. CASE StartProcess
  <2>1. /\ ring' = Newest(Readable(file), Cap) /\ UNCHANGED <<file, open, recorded, faults>>
        /\ recorded \in Nat /\ faults \in Nat
    BY <1>2 DEF StartProcess, Loaded, StoreInv
  <2>2. Ring(ring', recorded) /\ Covers(ring', Readable(file))
    BY <2>1, OrderedReads, NewestIs DEF StoreInv
  <2>3. ASSUME NEW q \in Missing(ring', recorded) PROVE q \in Missing(file, recorded)
    <3>1. q \in Fresh(recorded) /\ q \notin Members(ring') /\ q # Garbage
      BY <2>3, <2>1 DEF Missing, Fresh, Garbage
    <3>2. q \notin Members(Readable(file))
      <4>1. SUFFICES ASSUME q \in Members(Readable(file)) PROVE FALSE
        OBVIOUS
      <4>2. Len(ring') = Cap /\ \A x \in Members(ring') : q < x
        BY <2>2, <3>1, <4>1 DEF Covers
      <4>3. QED
        BY <2>1, <2>2, <3>1, <4>2, OldOnly
    <3>3. QED
      BY <2>1, <3>1, <3>2, OrderedReads DEF StoreInv, Missing
  <2>4. Cardinality(Missing(ring', recorded)) <= Cardinality(Missing(file, recorded))
    BY <2>1, <2>3, MissingBounds
  <2>5. /\ Cardinality(Missing(ring', recorded)) \in Nat
        /\ Cardinality(Missing(file, recorded)) \in Nat
    BY <2>1, MissingFinite
  <2>6. Owed(file, open) \in Nat
    BY DEF Owed
  <2>7. Cardinality(Missing(ring', recorded)) <= 2 * faults
    BY <2>1, <2>4, <2>5, <2>6 DEF LossInv
  <2>8. QED
    BY <2>1, <2>7 DEF LossInv
<1>3. ASSUME NEW works \in BOOLEAN, Compact(works) PROVE LossInv'
  <2>1. step = "compact" /\ UNCHANGED <<ring, recorded, faults>>
    BY <1>3 DEF Compact
  <2>2. CASE ~works
    BY <1>3, <2>1, <2>2 DEF Compact, LossInv
  <2>3. CASE works
    <3>1. file' = ring /\ open' = FALSE
      BY <1>3, <2>3 DEF Compact
    <3>2. Owed(file', open') = 0 /\ Cardinality(Missing(ring, recorded)) \in Nat
      BY <3>1, MissingFinite DEF Owed, StoreInv
    <3>3. QED
      BY <2>1, <3>1, <3>2 DEF LossInv
  <2>4. QED
    BY <2>2, <2>3
<1>4. CASE EndProcess
  BY <1>4 DEF EndProcess, LossInv
<1>5. CASE UNCHANGED storeVars
  BY <1>5 DEF storeVars, LossInv
<1>6. QED
  BY <1>1, <1>2, <1>3, <1>4, <1>5 DEF StoreNext

LEMMA LossStart == StoreInit => LossInv
<1> SUFFICES ASSUME StoreInit PROVE LossInv
  OBVIOUS
<1>1. file = <<>> /\ open = FALSE /\ step = "down" /\ recorded = 0 /\ faults = 0
  BY DEF StoreInit
<1>2. Missing(<<>>, 0) = {}
  BY DEF Missing, Fresh
<1>3. Cardinality(Missing(<<>>, 0)) = 0 /\ Owed(<<>>, FALSE) = 0
  BY <1>2, FS_EmptySet DEF Owed
<1>4. Cardinality(Missing(file, recorded)) = 0 /\ Owed(file, open) = 0
  BY <1>1, <1>3
<1>5. Cardinality(Missing(file, recorded)) + Owed(file, open) <= 2 * faults
  BY <1>1, <1>4
<1>6. QED
  BY <1>1, <1>5 DEF LossInv

(* The file keeps the promise of PointLog to its readers: points arrive in *)
(* order, only the last is ever spoilt, and a rewrite drops a point only   *)
(* for Cap newer ones (append, compact), for any ring, faults and restarts.*)
THEOREM HistoryKeepsLog == StoreSpec => Reader!LogSpec
<1>1. StoreInit => Readable(file) = <<>>
  BY ReadableEmpty DEF StoreInit
<1>2. StoreInv /\ [StoreNext]_storeVars =>
        [Reader!Arrive \/ Reader!Spoil \/ Reader!Rewrite]_(Readable(file))
  <2> SUFFICES ASSUME StoreInv, [StoreNext]_storeVars
               PROVE  [Reader!Arrive \/ Reader!Spoil \/ Reader!Rewrite]_(Readable(file))
    OBVIOUS
  <2>1. LogStep(Readable(file), Readable(file'))
    BY StoreSteps
  <2>2. QED
    BY <2>1 DEF LogStep, Fewer, Rising, Members, Reader!Arrive, Reader!Spoil, Reader!Rewrite,
                Reader!Ascending, Reader!Elements
<1>3. StoreInv /\ [StoreNext]_storeVars => StoreInv'
  BY StoreSteps
<1>4. QED
  BY <1>1, <1>2, <1>3, StoreStart, PTL DEF StoreSpec, Reader!LogSpec

(* And faults cost at most two points each, in the file as in the ring: a  *)
(* line left open owes what the next one will take (record_history, load). *)
THEOREM HistoryKeptThroughFaults == StoreSpec => KeepsPointLog
<1>1. StoreInv /\ LossInv => LossBounded
  <2> SUFFICES ASSUME StoreInv, LossInv PROVE LossBounded
    OBVIOUS
  <2>1. Newcomers = Fresh(recorded)
    BY DEF Newcomers, Fresh
  <2>2. Cardinality(Missing(file, recorded)) <= 2 * faults
    <3>1. Cardinality(Missing(file, recorded)) \in Nat /\ Owed(file, open) \in Nat /\ faults \in Nat
      BY MissingFinite DEF StoreInv, Owed
    <3>2. QED
      BY <3>1 DEF LossInv
  <2>3. QED
    BY <2>1, <2>2 DEF LossBounded, LossInv, Missing, Members
<1>2. QED
  BY <1>1, HistoryKeepsLog, StoreStart, StoreSteps, LossStart, LossSteps, PTL DEF StoreSpec, KeepsPointLog

-----------------------------------------------------------------------------
(* Schema growth.                                                          *)

Samples == [at : Nat, size : Nat]
Reads == [at : Nat, size : Nat, tracked : BOOLEAN]

-----------------------------------------------------------------------------
(* One ring next to what was read of its table.                            *)

\* The ring holds the last samples, all of them tracked, and reaches back to
\* where it is full, where reading began or where the table was not tracked.
AlignedBy(kept, read, k, n) ==
  /\ k \in 1..RingCap /\ k <= n
  /\ \A i \in 1..k : kept[i].at = read[n - k + i].at /\ kept[i].size = read[n - k + i].size
  /\ k = RingCap \/ k = n \/ ~read[n - k].tracked
Aligned(kept, read) == AlignedBy(kept, read, Len(kept), Len(read))

Timely(read, t) ==
  /\ read # <<>>
  /\ \A i \in 1..Len(read) : read[i].at <= t
  /\ \A i, j \in 1..Len(read) : i <= j => read[i].at <= read[j].at

LEMMA PushIs ==
  ASSUME NEW kept \in Seq(Samples), Len(kept) <= RingCap, NEW x \in Samples
  PROVE  /\ Push(kept, x) \in Seq(Samples)
         /\ Len(Push(kept, x)) = IF Len(kept) = RingCap THEN RingCap ELSE Len(kept) + 1
         /\ Push(kept, x)[Len(Push(kept, x))] = x
         /\ \A i \in 1..(Len(Push(kept, x)) - 1) :
              Push(kept, x)[i] = kept[IF Len(kept) = RingCap THEN i + 1 ELSE i]
<1>1. RingCap \in Nat \ {0} /\ Len(kept) \in Nat
  BY GrowthBounds
<1>2. CASE Len(kept) = RingCap
  <2> DEFINE s == Tail(kept)
  <2>1. kept # <<>>
    BY <1>1, <1>2
  <2>2. s \in Seq(Samples) /\ Len(s) = RingCap - 1 /\ \A i \in 1..(RingCap - 1) : s[i] = kept[i + 1]
    BY <1>1, <1>2, <2>1, HeadTailProperties
  <2> HIDE DEF s
  <2>3. /\ Append(s, x) \in Seq(Samples) /\ Len(Append(s, x)) = RingCap
        /\ Append(s, x)[RingCap] = x
        /\ \A i \in 1..(RingCap - 1) : Append(s, x)[i] = s[i]
    BY <1>1, <2>2, AppendProperties
  <2>4. Push(kept, x) = Append(s, x)
    BY <1>2 DEF Push, s
  <2>5. QED
    BY <1>2, <2>2, <2>3, <2>4
<1>3. CASE Len(kept) # RingCap
  <2>1. Push(kept, x) = Append(kept, x)
    BY <1>3 DEF Push
  <2>2. /\ Append(kept, x) \in Seq(Samples) /\ Len(Append(kept, x)) = Len(kept) + 1
        /\ Append(kept, x)[Len(kept) + 1] = x
        /\ \A i \in 1..Len(kept) : Append(kept, x)[i] = kept[i]
    BY <1>1, AppendProperties
  <2>3. QED
    BY <1>1, <1>3, <2>1, <2>2
<1>4. QED
  BY <1>2, <1>3

\* A ring that is aligned stays so when the table is read again and tracked.
LEMMA PushAligned ==
  ASSUME NEW kept \in Seq(Samples), NEW read \in Seq(Reads), Aligned(kept, read),
         NEW x \in Samples, NEW y \in Reads, y.at = x.at, y.size = x.size
  PROVE  Aligned(Push(kept, x), Append(read, y))
<1> DEFINE r == Push(kept, x)
           s == Append(read, y)
           k == Len(kept)
           n == Len(read)
           m == Len(r)
<1>1. /\ RingCap \in Nat \ {0} /\ k \in 1..RingCap /\ n \in Nat /\ k <= n
      /\ \A i \in 1..k : kept[i].at = read[n - k + i].at /\ kept[i].size = read[n - k + i].size
      /\ k = RingCap \/ k = n \/ ~read[n - k].tracked
  BY GrowthBounds DEF Aligned, AlignedBy
<1>2. /\ m = (IF k = RingCap THEN RingCap ELSE k + 1) /\ r[m] = x
      /\ \A i \in 1..(m - 1) : r[i] = kept[IF k = RingCap THEN i + 1 ELSE i]
  BY <1>1, PushIs
<1>3. Len(s) = n + 1 /\ s[n + 1] = y /\ \A i \in 1..n : s[i] = read[i]
  BY AppendProperties
<1> HIDE DEF r, s, k, n, m
<1>4. m \in 1..RingCap /\ m <= n + 1
  BY <1>1, <1>2
<1>5. ASSUME NEW i \in 1..m
      PROVE  r[i].at = s[(n + 1) - m + i].at /\ r[i].size = s[(n + 1) - m + i].size
  <2>1. CASE i = m
    BY <1>1, <1>2, <1>3, <1>4, <2>1
  <2>2. CASE i # m
    <3> DEFINE j == IF k = RingCap THEN i + 1 ELSE i
    <3>1. i \in 1..(m - 1) /\ j \in 1..k /\ (n + 1) - m + i = n - k + j /\ n - k + j \in 1..n
      BY <1>1, <1>2, <2>2
    <3>2. r[i] = kept[j]
      BY <1>2, <3>1
    <3> HIDE DEF j
    <3>3. kept[j].at = read[n - k + j].at /\ kept[j].size = read[n - k + j].size
      BY <1>1, <3>1
    <3>4. QED
      BY <1>3, <3>1, <3>2, <3>3
  <2>3. QED
    BY <2>1, <2>2
<1>6. m = RingCap \/ m = n + 1 \/ ~s[(n + 1) - m].tracked
  <2>1. CASE k = n \/ k = RingCap
    BY <1>1, <1>2, <2>1
  <2>2. CASE k # n /\ k # RingCap
    <3>1. (n + 1) - m = n - k /\ n - k \in 1..n
      BY <1>1, <1>2, <2>2
    <3>2. QED
      BY <1>1, <1>3, <2>2, <3>1
  <2>3. QED
    BY <2>1, <2>2
<1>7. AlignedBy(r, s, m, n + 1)
  BY <1>4, <1>5, <1>6 DEF AlignedBy
<1>8. Len(s) = n + 1 /\ Len(r) = m
  BY <1>3 DEF m
<1>9. Aligned(r, s)
  BY <1>7, <1>8 DEF Aligned
<1>10. QED
  BY <1>9 DEF r, s

LEMMA ReadTimes ==
  ASSUME NEW read \in Seq(Reads)
  PROVE  \A i \in 1..Len(read) : read[i].at \in Nat
<1> SUFFICES ASSUME NEW i \in 1..Len(read) PROVE read[i].at \in Nat
  OBVIOUS
<1>1. read[i] \in Reads
  BY ElementOfSeq
<1>2. QED
  BY <1>1 DEF Reads

LEMMA AppendTimely ==
  ASSUME NEW read \in Seq(Reads), NEW t \in Nat, read = <<>> \/ Timely(read, t),
         NEW y \in Reads, y.at = t
  PROVE  Timely(Append(read, y), t)
<1> DEFINE s == Append(read, y)
           n == Len(read)
<1>1. n \in Nat /\ Len(s) = n + 1 /\ s[n + 1] = y /\ \A i \in 1..n : s[i] = read[i]
  BY AppendProperties
<1>2. /\ \A i \in 1..n : read[i].at <= t /\ read[i].at \in Nat
      /\ \A i, j \in 1..n : i <= j => read[i].at <= read[j].at
  <2>1. CASE read = <<>>
    <3>1. n = 0
      BY <2>1
    <3> HIDE DEF n
    <3>2. QED
      BY <3>1
  <2>2. CASE Timely(read, t)
    BY <2>2, ReadTimes DEF Timely
  <2>3. QED
    BY <2>1, <2>2
<1> HIDE DEF s, n
<1>3. \A i \in 1..(n + 1) : i = n + 1 \/ i \in 1..n
  BY <1>1
<1>4. \A i \in 1..(n + 1) : s[i].at <= t
  BY <1>1, <1>2, <1>3
<1>5. ASSUME NEW i \in 1..(n + 1), NEW j \in 1..(n + 1), i <= j PROVE s[i].at <= s[j].at
  <2>1. CASE j = n + 1
    BY <1>1, <1>4, <2>1
  <2>2. CASE j # n + 1
    <3>1. i \in 1..n /\ j \in 1..n
      BY <1>1, <1>5, <2>2
    <3>2. QED
      BY <1>1, <1>2, <1>5, <3>1
  <2>3. QED
    BY <2>1, <2>2
<1>6. s # <<>>
  BY <1>1
<1>7. QED
  BY <1>1, <1>4, <1>5, <1>6 DEF Timely, s

-----------------------------------------------------------------------------
(* The growth a ring shows.                                                *)

\* growth: against the first sample m within the lookback.
GrowthFrom(kept, m) ==
  /\ m \in 1..Len(kept) /\ kept[m].at >= clock - Lookback
  /\ \A j \in 1..Len(kept) : kept[j].at >= clock - Lookback => m <= j
  /\ GrowthOf(kept) = IF Len(kept) < 2 \/ kept[m].at = kept[Len(kept)].at THEN None
                      ELSE Rounded(kept[Len(kept)].size - kept[m].size)

LEMMA GrowthIs ==
  ASSUME NEW kept \in Seq(Samples), kept # <<>>, clock \in Nat, kept[Len(kept)].at = clock
  PROVE  \E m \in 1..Len(kept) : GrowthFrom(kept, m)
<1> DEFINE n == Len(kept)
           recent == {i \in DOMAIN kept : kept[i].at >= clock - Lookback}
           first == CHOOSE i \in recent : \A j \in recent : i <= j
<1>1. n \in Nat \ {0} /\ DOMAIN kept = 1..n /\ Lookback \in Nat
  BY EmptySeq, LenProperties, GrowthBounds
<1>2. n \in recent /\ recent \subseteq Nat
  BY <1>1
<1>3. \E i \in recent : \A j \in recent : i <= j
  <2> HIDE DEF recent
  <2>1. QED
    BY <1>2, LeastNumber
<1>4. first \in recent /\ \A j \in recent : first <= j
  BY <1>3
<1>5. GrowthOf(kept) = IF n < 2 \/ kept[first].at = kept[n].at THEN None
                       ELSE Rounded(kept[n].size - kept[first].size)
  <2>1. recent # {}
    BY <1>2
  <2>2. QED
    BY <2>1 DEF GrowthOf, Rounded
<1>6. GrowthFrom(kept, first)
  BY <1>1, <1>4, <1>5 DEF GrowthFrom
<1>7. QED
  BY <1>1, <1>4, <1>6

\* What GrowthHonest says of one row.
HonestRow(growth, read) ==
  LET last == Len(read)
      recent == {i \in 1..(last - 1) : read[i].at >= read[last].at - Lookback}
      steady == \A i \in recent \cup {last} : read[i].tracked
  IN  /\ growth # None => \E i \in recent : growth = Rounded(read[last].size - read[i].size)
      /\ steady /\ recent # {} /\ Cardinality(recent) < RingCap =>
           \E i \in recent :
             /\ \A j \in recent : i <= j
             /\ growth = Rounded(read[last].size - read[i].size)

LEMMA RingIsHonest ==
  ASSUME NEW kept \in Seq(Samples), NEW read \in Seq(Reads), clock \in Nat,
         Timely(read, clock), Aligned(kept, read), read[Len(read)].at = clock,
         \A i \in 1..(Len(kept) - 1) : kept[i].at < clock
  PROVE  HonestRow(GrowthOf(kept), read)
<1> DEFINE k == Len(kept)
           n == Len(read)
           recent == {i \in 1..(n - 1) : read[i].at >= read[n].at - Lookback}
           steady == \A i \in recent \cup {n} : read[i].tracked
           g == GrowthOf(kept)
<1>1. /\ k \in Nat /\ n \in Nat /\ 1 <= k /\ k <= n /\ k <= RingCap
      /\ \A i \in 1..k : kept[i].at = read[n - k + i].at /\ kept[i].size = read[n - k + i].size
      /\ k = RingCap \/ k = n \/ ~read[n - k].tracked
      /\ Lookback \in Nat /\ RingCap \in Nat
  BY GrowthBounds DEF Aligned, AlignedBy
<1>2. /\ \A i \in 1..n : read[i].at \in Nat
      /\ \A i, j \in 1..n : i <= j => read[i].at <= read[j].at
  BY ReadTimes DEF Timely
<1>3. kept[k].at = clock /\ kept # <<>>
  <2>1. n - k + k = n
    BY <1>1
  <2>2. kept[k].at = read[n - k + k].at
    BY <1>1
  <2>3. QED
    BY <1>1, <2>1, <2>2
<1>4. PICK m \in 1..k : GrowthFrom(kept, m)
  BY <1>3, GrowthIs
<1>5. /\ kept[m].at >= clock - Lookback
      /\ \A j \in 1..k : kept[j].at >= clock - Lookback => m <= j
      /\ g = IF k < 2 \/ kept[m].at = clock THEN None ELSE Rounded(kept[k].size - kept[m].size)
  BY <1>3, <1>4 DEF GrowthFrom
<1> DEFINE f == n - k + m
<1>6. f \in 1..n /\ kept[m].at = read[f].at /\ kept[m].size = read[f].size /\ kept[k].size = read[n].size
  <2>1. n - k + k = n
    BY <1>1
  <2>2. kept[k].size = read[n - k + k].size
    BY <1>1
  <2>3. kept[m].at = read[f].at /\ kept[m].size = read[f].size
    BY <1>1
  <2> HIDE DEF k, n, g
  <2>4. f \in 1..n
    BY <1>1
  <2>5. QED
    BY <2>1, <2>2, <2>3, <2>4
<1> HIDE DEF k, n, g
<1>7. m < k => f \in recent /\ g = Rounded(read[n].size - read[f].size)
  <2>1. SUFFICES ASSUME m < k
                 PROVE  f \in recent /\ g = Rounded(read[n].size - read[f].size)
    OBVIOUS
  <2>2. kept[m].at < clock
    BY <1>1, <2>1 DEF k
  <2>3. f \in 1..(n - 1)
    BY <1>1, <1>6, <2>1
  <2>4. k >= 2 /\ kept[m].at # clock
    BY <1>1, <1>2, <1>6, <2>1, <2>2
  <2>5. g = Rounded(kept[k].size - kept[m].size)
    BY <1>1, <1>5, <2>4
  <2>6. QED
    BY <1>5, <1>6, <2>3, <2>5 DEF n
<1>8. m = k => g = None
  BY <1>3, <1>5 DEF k
<1>9. g # None => \E i \in recent : g = Rounded(read[n].size - read[i].size)
  <2>1. m = k \/ m < k
    BY <1>1
  <2>2. QED
    BY <1>7, <1>8, <2>1
<1>10. ASSUME steady, recent # {}, Cardinality(recent) < RingCap
       PROVE  \E i \in recent : (\A j \in recent : i <= j) /\ g = Rounded(read[n].size - read[i].size)
  <2>1. recent \subseteq Nat
    BY <1>1
  <2>2. PICK i \in recent : \A j \in recent : i <= j
    BY <1>10, <2>1, LeastNumber
  <2>3. i \in 1..(n - 1) /\ read[i].at >= clock - Lookback
    BY DEF n
  <2>4. i..(n - 1) \subseteq recent
    <3>1. SUFFICES ASSUME NEW j \in i..(n - 1) PROVE j \in recent
      OBVIOUS
    <3>2. j \in 1..(n - 1) /\ i \in 1..n /\ j \in 1..n /\ i <= j
      BY <1>1, <2>3
    <3>3. read[i].at <= read[j].at /\ read[i].at \in Nat /\ read[j].at \in Nat
      BY <1>2, <3>2
    <3>4. read[j].at >= clock - Lookback
      BY <1>1, <2>3, <3>3
    <3>5. QED
      BY <3>2, <3>4 DEF n
  <2>5. recent = i..(n - 1)
    BY <1>1, <2>2, <2>3, <2>4
  <2>6. Cardinality(recent) = n - i
    <3>1. i \in Int /\ n - 1 \in Int
      BY <1>1, <2>3
    <3>2. Cardinality(i..(n - 1)) = IF i > n - 1 THEN 0 ELSE n - 1 - i + 1
      BY <3>1, FS_Interval
    <3> HIDE DEF recent
    <3>3. QED
      BY <1>1, <2>3, <2>5, <3>2
  <2>7. n - i < RingCap
    BY <1>10, <2>6
  <2>8. i > n - k
    <3>1. CASE k = RingCap
      BY <1>1, <2>3, <2>7, <3>1
    <3>2. CASE k = n
      BY <1>1, <2>3, <3>2
    <3>3. CASE ~read[n - k].tracked
      <4>1. n - k \notin recent
        BY <1>10, <3>3
      <4>2. n - k \notin i..(n - 1)
        BY <2>4, <4>1
      <4>3. QED
        BY <1>1, <2>3, <4>2
    <3>4. QED
      BY <1>1, <3>1, <3>2, <3>3
  <2>9. PICK j \in 1..k : n - k + j = i
    <3>1. i \in Nat /\ n \in Nat /\ k \in Nat /\ i <= n - 1 /\ i > n - k
      BY <1>1, <2>3, <2>8
    <3> HIDE DEF recent
    <3>2. i - n + k \in 1..k /\ n - k + (i - n + k) = i
      BY <3>1
    <3>3. QED
      BY <3>2
  <2>10. kept[j].at = read[i].at
    BY <1>1, <2>9
  <2>11. m <= j
    BY <1>5, <2>3, <2>10
  <2>12. m < k
    BY <1>1, <2>3, <2>9, <2>11
  <2>13. f = i
    BY <1>1, <1>7, <2>2, <2>9, <2>11, <2>12
  <2>14. QED
    BY <1>7, <2>2, <2>12, <2>13
<1>11. QED
  BY <1>9, <1>10 DEF HonestRow, n, g

\* The difference shown is a number, or nothing.
LEMMA GrowthTyped ==
  ASSUME NEW kept \in Seq(Samples), kept # <<>>, clock \in Nat, kept[Len(kept)].at = clock
  PROVE  GrowthOf(kept) \in Int \cup {None}
<1>1. PICK m \in 1..Len(kept) : GrowthFrom(kept, m)
  BY GrowthIs
<1>2. Len(kept) \in 1..Len(kept)
  BY EmptySeq
<1>3. kept[m] \in Samples /\ kept[Len(kept)] \in Samples
  BY <1>2, ElementOfSeq
<1>4. kept[Len(kept)].size - kept[m].size \in Int
  BY <1>3 DEF Samples
<1>5. QED
  BY <1>1, <1>4 DEF GrowthFrom, Rounded

-----------------------------------------------------------------------------
(* The tracker over collections.                                           *)

CatalogTyped == DOMAIN catalog \subseteq Oids /\ \A o \in DOMAIN catalog : catalog[o] \in Nat

TrackerInv ==
  /\ clock \in Nat
  /\ DOMAIN rings \subseteq DOMAIN sizes /\ DOMAIN sizes \subseteq Oids
  /\ \A o \in DOMAIN sizes :
       /\ sizes[o] \in Seq(Reads) /\ Timely(sizes[o], clock)
       /\ sizes[o][Len(sizes[o])].tracked <=> o \in DOMAIN rings
  /\ \A o \in DOMAIN rings : rings[o] \in Seq(Samples) /\ Aligned(rings[o], sizes[o])
  /\ rows = None => DOMAIN rings = {}
  /\ GrowthHonest /\ RingsBounded

LEMMA PagesAre ==
  ASSUME NEW page \in Pages
  PROVE  page \in Seq(DOMAIN catalog)
<1>1. ASSUME NEW S, NEW s \in Largest(S, RowLimit) PROVE s \in Seq(S)
  <2>1. PICK k \in 0..RowLimit : s \in [1..k -> S]
    BY <1>1 DEF Largest
  <2>2. k \in Nat
    BY <2>1, GrowthBounds
  <2>3. QED
    BY <2>1, <2>2, SeqDef
<1>2. PICK t \in PagesOfTables, p \in PagesOfParents : page = t \o p
  BY DEF Pages
<1>3. t \in Seq(DOMAIN catalog) /\ p \in Seq(DOMAIN catalog)
  BY <1>1, <1>2, SeqMonotonic DEF PagesOfTables, PagesOfParents
<1>4. QED
  BY <1>2, <1>3, ConcatProperties

LEMMA TrackedAre ==
  ASSUME NEW page \in Seq(DOMAIN catalog)
  PROVE  /\ Tracked(page) \subseteq {page[i] : i \in DOMAIN page}
         /\ {page[i] : i \in DOMAIN page} \subseteq DOMAIN catalog
         /\ Cardinality(Tracked(page)) <= TableCap
<1> DEFINE I == {i \in DOMAIN page : i <= TableCap}
<1>1. TableCap \in Nat
  BY GrowthBounds DEF TableCap
<1>2. I \subseteq 1..TableCap
  BY LenProperties
<1>3. IsFiniteSet(1..TableCap) /\ Cardinality(1..TableCap) = TableCap
  BY <1>1, FS_Interval
<1>4. IsFiniteSet(I) /\ Cardinality(I) <= TableCap /\ Cardinality(I) \in Nat
  BY <1>2, <1>3, FS_Subset, FS_CardinalityType
<1>5. Tracked(page) = {page[i] : i \in I}
  BY DEF Tracked
<1> HIDE DEF I
<1>6. IsFiniteSet(Tracked(page)) /\ Cardinality(Tracked(page)) <= Cardinality(I)
  BY <1>4, <1>5, ImageSmall
<1>7. Cardinality(Tracked(page)) \in Nat
  BY <1>6, FS_CardinalityType
<1>8. Cardinality(Tracked(page)) <= TableCap
  BY <1>1, <1>4, <1>6, <1>7
<1>9. {page[i] : i \in DOMAIN page} \subseteq DOMAIN catalog
  BY LenProperties
<1>10. QED
  BY <1>8, <1>9 DEF Tracked

ReadBefore(o) == IF o \in DOMAIN sizes THEN sizes[o] ELSE <<>>
RingBefore(o) == IF o \in DOMAIN rings THEN rings[o] ELSE <<>>
SampleNow(o) == [at |-> clock, size |-> catalog[o]]

\* A table that is read, and tracked or not.
LEMMA ReadOne ==
  ASSUME CatalogTyped, TrackerInv, NEW o \in DOMAIN catalog,
         NEW y \in Reads, y.at = clock, y.size = catalog[o]
  PROVE  /\ Append(ReadBefore(o), y) \in Seq(Reads)
         /\ Timely(Append(ReadBefore(o), y), clock)
         /\ Append(ReadBefore(o), y)[Len(Append(ReadBefore(o), y))] = y
         /\ ~y.tracked => HonestRow(None, Append(ReadBefore(o), y))
<1> DEFINE read == ReadBefore(o)
           s == Append(read, y)
<1>1. read \in Seq(Reads) /\ (read = <<>> \/ Timely(read, clock)) /\ clock \in Nat
  BY EmptySeq DEF ReadBefore, TrackerInv
<1> HIDE DEF read
<1>2. s \in Seq(Reads) /\ s[Len(s)] = y
  BY <1>1, AppendProperties
<1>3. Timely(s, clock)
  BY <1>1, AppendTimely
<1> HIDE DEF s
<1>4. ~y.tracked => HonestRow(None, s)
  BY <1>2 DEF HonestRow
<1>5. QED
  BY <1>2, <1>3, <1>4 DEF s, read

LEMMA TrackOne ==
  ASSUME CatalogTyped, TrackerInv,
         rows = None \/ \A o \in DOMAIN rings : rings[o][Len(rings[o])].at < clock,
         NEW o \in DOMAIN catalog, NEW y \in Reads, y.at = clock, y.size = catalog[o], y.tracked
  PROVE  /\ Push(RingBefore(o), SampleNow(o)) \in Seq(Samples)
         /\ Aligned(Push(RingBefore(o), SampleNow(o)), Append(ReadBefore(o), y))
         /\ Len(Push(RingBefore(o), SampleNow(o))) \in 1..RingCap
         /\ GrowthOf(Push(RingBefore(o), SampleNow(o))) \in Int \cup {None}
         /\ HonestRow(GrowthOf(Push(RingBefore(o), SampleNow(o))), Append(ReadBefore(o), y))
<1> DEFINE read == ReadBefore(o)
           kept == RingBefore(o)
           x == SampleNow(o)
           s == Append(read, y)
           r == Push(kept, x)
<1>1. x \in Samples /\ x.at = clock /\ x.size = catalog[o] /\ clock \in Nat
  BY DEF SampleNow, Samples, CatalogTyped, TrackerInv
<1>2. s \in Seq(Reads) /\ Timely(s, clock) /\ s[Len(s)] = y
  BY ReadOne
<1>3. RingCap \in Nat \ {0}
  BY GrowthBounds
<1>4. kept \in Seq(Samples) /\ Len(kept) <= RingCap
  <2>1. CASE o \in DOMAIN rings
    BY <1>3, <2>1 DEF RingBefore, TrackerInv, Aligned, AlignedBy
  <2>2. CASE o \notin DOMAIN rings
    <3>1. kept = <<>>
      BY <2>2 DEF RingBefore
    <3> HIDE DEF kept
    <3>2. QED
      BY <1>3, <3>1, EmptySeq
  <2>3. QED
    BY <2>1, <2>2
<1> HIDE DEF x
<1>5. /\ r \in Seq(Samples) /\ r[Len(r)] = x
      /\ Len(r) = IF Len(kept) = RingCap THEN RingCap ELSE Len(kept) + 1
      /\ \A i \in 1..(Len(r) - 1) : r[i] = kept[IF Len(kept) = RingCap THEN i + 1 ELSE i]
  BY <1>1, <1>4, PushIs
<1>6. Len(kept) \in Nat
  BY <1>4
<1>7. ASSUME o \in DOMAIN rings
      PROVE  Aligned(r, s) /\ \A i \in 1..(Len(r) - 1) : r[i].at < clock
  <2>1. /\ kept = rings[o] /\ read = sizes[o] /\ o \in DOMAIN sizes
        /\ read \in Seq(Reads) /\ Timely(read, clock) /\ Aligned(kept, read)
    BY <1>7 DEF RingBefore, ReadBefore, TrackerInv
  <2>2. kept[Len(kept)].at < clock
    BY <1>7, <2>1 DEF TrackerInv
  <2> HIDE DEF kept, read
  <2>3. Aligned(r, s)
    BY <1>1, <1>4, <2>1, PushAligned
  <2>4. \A i \in 1..Len(kept) : kept[i].at < clock
    <3> SUFFICES ASSUME NEW i \in 1..Len(kept) PROVE kept[i].at < clock
      OBVIOUS
    <3> DEFINE k == Len(kept)
               n == Len(read)
    <3>1. /\ k \in Nat /\ n \in Nat /\ k <= n
          /\ kept[i].at = read[n - k + i].at /\ kept[k].at = read[n - k + k].at
      <4>1. k \in Nat /\ n \in Nat /\ i \in 1..k /\ AlignedBy(kept, read, k, n)
        BY <1>6, <2>1, LenProperties DEF Aligned
      <4> HIDE DEF k, n
      <4>2. k \in 1..k
        BY <4>1
      <4>3. QED
        BY <4>1, <4>2 DEF AlignedBy
    <3>2. kept[k].at < clock
      BY <2>2
    <3> HIDE DEF k, n
    <3>3. n - k + i \in 1..n /\ n - k + k \in 1..n /\ n - k + i <= n - k + k
      BY <3>1 DEF k
    <3>4. /\ read[n - k + i].at <= read[n - k + k].at
          /\ read[n - k + i].at \in Nat /\ read[n - k + k].at \in Nat
      BY <2>1, <3>3, ReadTimes DEF Timely, n
    <3>5. QED
      BY <1>1, <3>1, <3>2, <3>4
  <2>5. \A i \in 1..(Len(r) - 1) : r[i].at < clock
    <3> SUFFICES ASSUME NEW i \in 1..(Len(r) - 1) PROVE r[i].at < clock
      OBVIOUS
    <3> DEFINE j == IF Len(kept) = RingCap THEN i + 1 ELSE i
    <3>1. r[i] = kept[j]
      BY <1>5
    <3> HIDE DEF r
    <3>2. j \in 1..Len(kept)
      BY <1>3, <1>5, <1>6
    <3>3. QED
      BY <2>4, <3>1, <3>2
  <2>6. QED
    BY <2>3, <2>5
<1>8. ASSUME o \notin DOMAIN rings
      PROVE  Aligned(r, s) /\ \A i \in 1..(Len(r) - 1) : r[i].at < clock
  <2>1. kept = <<>>
    BY <1>8 DEF RingBefore
  <2>2. Len(kept) = 0
    BY <2>1
  <2> HIDE DEF kept
  <2>3. Len(r) = 1
    BY <1>3, <1>5, <2>2
  <2>4. r[1].at = clock /\ r[1].size = catalog[o]
    BY <1>1, <1>5, <2>3
  <2>5. AlignedBy(r, s, 1, Len(s))
    <3>1. /\ read \in Seq(Reads)
          /\ read = <<>> \/ ~read[Len(read)].tracked
      BY <1>8, EmptySeq DEF ReadBefore, TrackerInv
    <3> HIDE DEF read
    <3>2. Len(read) \in Nat /\ Len(s) = Len(read) + 1 /\ \A i \in 1..Len(read) : s[i] = read[i]
      BY <3>1, AppendProperties
    <3>3. CASE read = <<>>
      <4>1. Len(read) = 0
        BY <3>3
      <4> HIDE DEF s, r
      <4>2. Len(s) = 1 /\ s[1] = y
        BY <1>2, <3>2, <4>1
      <4>3. QED
        BY <1>3, <2>4, <4>2 DEF AlignedBy
    <3>4. CASE read # <<>>
      <4>1. Len(read) \in 1..Len(read)
        BY <3>1, <3>4, EmptySeq
      <4>2. ~s[Len(read)].tracked
        BY <3>1, <3>2, <3>4, <4>1
      <4> HIDE DEF s, r
      <4>3. Len(s) - 1 = Len(read) /\ Len(s) - 1 + 1 = Len(s) /\ 1 <= Len(s)
        BY <3>2
      <4>4. QED
        BY <1>2, <1>3, <2>4, <4>2, <4>3 DEF AlignedBy
    <3>5. QED
      BY <3>3, <3>4
  <2>6. Aligned(r, s)
    BY <2>3, <2>5 DEF Aligned
  <2>7. \A i \in 1..(Len(r) - 1) : r[i].at < clock
    BY <2>3
  <2>8. QED
    BY <2>6, <2>7
<1>9. Aligned(r, s) /\ \A i \in 1..(Len(r) - 1) : r[i].at < clock
  BY <1>7, <1>8
<1>10. r # <<>> /\ r[Len(r)].at = clock /\ Len(r) \in 1..RingCap
  <2>1. Len(r) \in 1..RingCap
    BY <1>3, <1>4, <1>5, <1>6
  <2>2. QED
    BY <1>1, <1>5, <2>1
<1> HIDE DEF r, s
<1>11. HonestRow(GrowthOf(r), s)
  BY <1>1, <1>2, <1>5, <1>9, RingIsHonest
<1>12. GrowthOf(r) \in Int \cup {None}
  BY <1>1, <1>5, <1>10, GrowthTyped
<1>13. QED
  BY <1>5, <1>9, <1>10, <1>11, <1>12 DEF r, s, kept, read, x

\* What a collection leaves: every live table read, those tracked with a ring.
LEMMA CollectedIs ==
  ASSUME NEW page \in Seq(DOMAIN catalog), CatalogTyped, TrackerInv,
         rings' = Updated(page), rows' = Rendered(page, Updated(page)),
         sizes' = [o \in DOMAIN catalog |->
                     Append(IF o \in DOMAIN sizes THEN sizes[o] ELSE <<>>,
                            [at |-> clock, size |-> catalog[o], tracked |-> o \in Tracked(page)])]
  PROVE  /\ DOMAIN sizes' = DOMAIN catalog /\ DOMAIN rings' = Tracked(page)
         /\ \A o \in Tracked(page) : rings'[o] = Push(RingBefore(o), SampleNow(o))
         /\ \A o \in DOMAIN catalog : \E y \in Reads :
              /\ y.at = clock /\ y.size = catalog[o] /\ (y.tracked <=> o \in Tracked(page))
              /\ sizes'[o] = Append(ReadBefore(o), y)
         /\ DOMAIN rows' = {page[i] : i \in DOMAIN page}
         /\ \A o \in DOMAIN rows' :
              rows'[o] = [size |-> catalog[o],
                          growth |-> IF o \in Tracked(page) THEN GrowthOf(rings'[o]) ELSE None]
         /\ rows' = [o \in DOMAIN rows' |-> rows'[o]]
<1>1. DOMAIN rings' = Tracked(page)
      /\ \A o \in Tracked(page) : rings'[o] = Push(RingBefore(o), SampleNow(o))
  BY DEF Updated, RingBefore, SampleNow
<1>2. DOMAIN sizes' = DOMAIN catalog
  OBVIOUS
<1>3. ASSUME NEW o \in DOMAIN catalog
      PROVE  \E y \in Reads :
               /\ y.at = clock /\ y.size = catalog[o] /\ (y.tracked <=> o \in Tracked(page))
               /\ sizes'[o] = Append(ReadBefore(o), y)
  <2> DEFINE y == [at |-> clock, size |-> catalog[o], tracked |-> o \in Tracked(page)]
  <2>1. sizes'[o] = Append(ReadBefore(o), y)
    BY DEF ReadBefore
  <2>2. clock \in Nat /\ catalog[o] \in Nat
    BY DEF CatalogTyped, TrackerInv
  <2>3. y \in Reads /\ y.at = clock /\ y.size = catalog[o] /\ (y.tracked <=> o \in Tracked(page))
    <3>1. CASE o \in Tracked(page)
      <4>1. y = [at |-> clock, size |-> catalog[o], tracked |-> TRUE]
        BY <3>1, Zenon
      <4>2. QED
        BY <2>2, <3>1, <4>1 DEF Reads
    <3>2. CASE o \notin Tracked(page)
      <4>1. (o \in Tracked(page)) = FALSE
        BY <3>2
      <4>2. y = [at |-> clock, size |-> catalog[o], tracked |-> FALSE]
        BY <4>1, Zenon
      <4>3. QED
        BY <2>2, <3>2, <4>2 DEF Reads
    <3>3. QED
      BY <3>1, <3>2
  <2> HIDE DEF y
  <2>4. QED
    BY <2>1, <2>3
<1>4. /\ DOMAIN rows' = {page[i] : i \in DOMAIN page}
      /\ \A o \in DOMAIN rows' :
           rows'[o] = [size |-> catalog[o],
                       growth |-> IF o \in Tracked(page) THEN GrowthOf(rings'[o]) ELSE None]
      /\ rows' = [o \in DOMAIN rows' |-> rows'[o]]
  BY <1>1 DEF Rendered
<1>5. QED
  BY <1>1, <1>2, <1>3, <1>4

LEMMA CollectKeeps == CatalogTyped /\ TrackerInv /\ CollectSizes => TrackerInv'
<1> SUFFICES ASSUME CatalogTyped, TrackerInv, CollectSizes PROVE TrackerInv'
  OBVIOUS
<1>1. PICK page \in Pages :
        /\ rings' = Updated(page) /\ rows' = Rendered(page, Updated(page))
        /\ sizes' = [o \in DOMAIN catalog |->
                       Append(IF o \in DOMAIN sizes THEN sizes[o] ELSE <<>>,
                              [at |-> clock, size |-> catalog[o], tracked |-> o \in Tracked(page)])]
  BY DEF CollectSizes
<1> DEFINE T == Tracked(page)
           P == {page[i] : i \in DOMAIN page}
<1>2. page \in Seq(DOMAIN catalog)
  BY PagesAre
<1>3. T \subseteq P /\ P \subseteq DOMAIN catalog /\ Cardinality(T) <= TableCap
  BY <1>2, TrackedAre
<1>4. /\ DOMAIN sizes' = DOMAIN catalog /\ DOMAIN rings' = T
      /\ \A o \in T : rings'[o] = Push(RingBefore(o), SampleNow(o))
      /\ \A o \in DOMAIN catalog : \E y \in Reads :
           /\ y.at = clock /\ y.size = catalog[o] /\ (y.tracked <=> o \in T)
           /\ sizes'[o] = Append(ReadBefore(o), y)
      /\ DOMAIN rows' = P
      /\ \A o \in P : rows'[o] = [size |-> catalog[o],
                                  growth |-> IF o \in T THEN GrowthOf(rings'[o]) ELSE None]
      /\ rows' = [o \in P |-> rows'[o]]
  BY <1>1, <1>2, CollectedIs
<1>5. /\ rows = None \/ \A o \in DOMAIN rings : rings[o][Len(rings[o])].at < clock
      /\ clock' = clock /\ clock \in Nat /\ DOMAIN catalog \subseteq Oids
  BY DEF CollectSizes, CatalogTyped, TrackerInv
<1> HIDE DEF T, P
<1>6. ASSUME NEW o \in DOMAIN catalog
      PROVE  /\ sizes'[o] \in Seq(Reads) /\ Timely(sizes'[o], clock)
             /\ sizes'[o][Len(sizes'[o])].tracked <=> o \in T
             /\ o \notin T => HonestRow(None, sizes'[o])
             /\ o \in T =>
                  /\ rings'[o] \in Seq(Samples) /\ Aligned(rings'[o], sizes'[o])
                  /\ Len(rings'[o]) \in 1..RingCap
                  /\ GrowthOf(rings'[o]) \in Int \cup {None}
                  /\ HonestRow(GrowthOf(rings'[o]), sizes'[o])
  <2>1. PICK y \in Reads :
          /\ y.at = clock /\ y.size = catalog[o] /\ (y.tracked <=> o \in T)
          /\ sizes'[o] = Append(ReadBefore(o), y)
    BY <1>4, <1>6
  <2>2. /\ sizes'[o] \in Seq(Reads) /\ Timely(sizes'[o], clock)
        /\ sizes'[o][Len(sizes'[o])] = y
        /\ ~y.tracked => HonestRow(None, sizes'[o])
    BY <2>1, ReadOne
  <2>3. ASSUME o \in T
        PROVE  /\ rings'[o] \in Seq(Samples) /\ Aligned(rings'[o], sizes'[o])
               /\ Len(rings'[o]) \in 1..RingCap
               /\ GrowthOf(rings'[o]) \in Int \cup {None}
               /\ HonestRow(GrowthOf(rings'[o]), sizes'[o])
    <3>1. rings'[o] = Push(RingBefore(o), SampleNow(o)) /\ y.tracked
      BY <1>4, <2>1, <2>3
    <3>2. QED
      BY <1>5, <2>1, <3>1, TrackOne
  <2>4. QED
    BY <2>1, <2>2, <2>3
<1>7. ASSUME NEW o \in P
      PROVE  /\ rows'[o] \in [size : Nat, growth : Int \cup {None}]
             /\ HonestRow(rows'[o].growth, sizes'[o])
  <2>1. o \in DOMAIN catalog /\ catalog[o] \in Nat
    BY <1>3 DEF CatalogTyped
  <2>2. rows'[o] = [size |-> catalog[o], growth |-> IF o \in T THEN GrowthOf(rings'[o]) ELSE None]
    BY <1>4
  <2>3. /\ o \notin T => HonestRow(None, sizes'[o])
        /\ o \in T => GrowthOf(rings'[o]) \in Int \cup {None}
                      /\ HonestRow(GrowthOf(rings'[o]), sizes'[o])
    BY <1>6, <2>1
  <2>4. QED
    BY <2>1, <2>2, <2>3
<1>8. rows' # None
  <2>1. P \in SUBSET Oids
    BY <1>3, <1>5
  <2>2. rows' \in [P -> [size : Nat, growth : Int \cup {None}]]
    BY <1>4, <1>7
  <2>3. QED
    BY <2>1, <2>2, NoRows
<1>9. GrowthHonest'
  BY <1>4, <1>7 DEF GrowthHonest, HonestRow
<1>10. RingsBounded'
  <2>1. \A o \in T : Len(rings'[o]) \in 1..RingCap
    BY <1>3, <1>6
  <2>2. QED
    BY <1>3, <1>4, <2>1 DEF RingsBounded, TableCap
<1>11. \A o \in DOMAIN sizes' :
         /\ sizes'[o] \in Seq(Reads) /\ Timely(sizes'[o], clock')
         /\ sizes'[o][Len(sizes'[o])].tracked <=> o \in DOMAIN rings'
  BY <1>4, <1>5, <1>6
<1>12. \A o \in DOMAIN rings' : rings'[o] \in Seq(Samples) /\ Aligned(rings'[o], sizes'[o])
  BY <1>3, <1>4, <1>6
<1>13. /\ clock' \in Nat /\ DOMAIN rings' \subseteq DOMAIN sizes' /\ DOMAIN sizes' \subseteq Oids
       /\ (rows' = None => DOMAIN rings' = {})
  BY <1>3, <1>4, <1>5, <1>8
<1>14. QED
  BY <1>9, <1>10, <1>11, <1>12, <1>13 DEF TrackerInv

LEMMA FreshTracker ==
  ASSUME clock' \in Nat, rings' = [o \in {} |-> <<>>], rows' = None, sizes' = [o \in {} |-> <<>>]
  PROVE  TrackerInv'
<1>1. DOMAIN rings' = {} /\ DOMAIN sizes' = {}
  OBVIOUS
<1>2. Cardinality({}) = 0 /\ TableCap \in Nat
  BY FS_EmptySet, GrowthBounds DEF TableCap
<1>3. GrowthHonest' /\ RingsBounded'
  BY <1>1, <1>2 DEF GrowthHonest, RingsBounded, TableCap
<1>4. QED
  BY <1>1, <1>3 DEF TrackerInv

LEMMA GrowthSteps ==
  CatalogTyped /\ TrackerInv /\ [GrowthNext]_growthVars => CatalogTyped' /\ TrackerInv'
<1> SUFFICES ASSUME CatalogTyped, TrackerInv, [GrowthNext]_growthVars
             PROVE  CatalogTyped' /\ TrackerInv'
  OBVIOUS
<1>1. ASSUME UNCHANGED <<clock, rings, rows, sizes>> PROVE TrackerInv'
  BY <1>1 DEF TrackerInv, GrowthHonest, RingsBounded
<1>2. \A s \in TableSizes : s \in Nat
  BY GrowthBounds
<1>3. ASSUME NEW o \in Oids, NEW s \in TableSizes, TableGrows(o, s)
      PROVE  CatalogTyped' /\ TrackerInv'
  BY <1>1, <1>2, <1>3 DEF TableGrows, CatalogTyped
<1>4. ASSUME NEW o \in Oids, NEW s \in TableSizes, TableCreated(o, s)
      PROVE  CatalogTyped' /\ TrackerInv'
  BY <1>1, <1>2, <1>4 DEF TableCreated, CatalogTyped
<1>5. ASSUME NEW o \in Oids, TableDropped(o) PROVE CatalogTyped' /\ TrackerInv'
  BY <1>1, <1>5 DEF TableDropped, CatalogTyped
<1>6. CASE GrowthTick
  <2>1. clock' = clock + 1 /\ clock \in Nat /\ UNCHANGED <<catalog, rings, rows, sizes>>
    BY <1>6 DEF GrowthTick, TrackerInv
  <2>2. ASSUME NEW o \in DOMAIN sizes PROVE Timely(sizes[o], clock + 1)
    <3>1. sizes[o] \in Seq(Reads) /\ Timely(sizes[o], clock)
      BY DEF TrackerInv
    <3>2. \A i \in 1..Len(sizes[o]) : sizes[o][i].at <= clock + 1
      BY <2>1, <3>1, ReadTimes DEF Timely
    <3>3. QED
      BY <3>1, <3>2 DEF Timely
  <2>3. GrowthHonest' /\ RingsBounded'
    BY <2>1 DEF TrackerInv, GrowthHonest, RingsBounded
  <2>4. CatalogTyped'
    BY <2>1 DEF CatalogTyped
  <2>5. QED
    BY <2>1, <2>2, <2>3, <2>4 DEF TrackerInv
<1>7. CASE CollectSizes
  BY <1>7, CollectKeeps DEF CollectSizes, CatalogTyped
<1>8. CASE DatabaseSwitched
  <2>1. clock' = clock /\ clock \in Nat
    BY <1>8 DEF DatabaseSwitched, TrackerInv
  <2>2. CatalogTyped'
    BY <1>2, <1>8 DEF DatabaseSwitched, CatalogTyped
  <2>3. TrackerInv'
    BY <1>8, <2>1, FreshTracker DEF DatabaseSwitched
  <2>4. QED
    BY <2>2, <2>3
<1>9. CASE UNCHANGED growthVars
  BY <1>1, <1>9 DEF growthVars, CatalogTyped
<1>10. QED
  BY <1>3, <1>4, <1>5, <1>6, <1>7, <1>8, <1>9 DEF GrowthNext

LEMMA GrowthStart == GrowthInit => CatalogTyped /\ TrackerInv
<1> SUFFICES ASSUME GrowthInit PROVE CatalogTyped /\ TrackerInv
  OBVIOUS
<1>1. CatalogTyped
  BY GrowthBounds DEF GrowthInit, CatalogTyped
<1>2. DOMAIN rings = {} /\ DOMAIN sizes = {} /\ clock = 0 /\ rows = None
  BY DEF GrowthInit
<1>3. Cardinality({}) = 0 /\ TableCap \in Nat
  BY FS_EmptySet, GrowthBounds DEF TableCap
<1>4. GrowthHonest /\ RingsBounded
  BY <1>2, <1>3 DEF GrowthHonest, RingsBounded
<1>5. QED
  BY <1>1, <1>2, <1>4 DEF TrackerInv

(* The growth shown for a table is honest and the rings are bounded, for any*)
(* tables, sizes, caps and lookback (SchemaGrowthTracker): by induction with *)
(* the fact that a ring is the last part of what was read of its table.     *)
THEOREM GrowthAlwaysSound == GrowthSpec => []GrowthSound
<1>1. TrackerInv => GrowthSound
  BY DEF TrackerInv, GrowthSound
<1>2. QED
  BY <1>1, GrowthStart, GrowthSteps, PTL DEF GrowthSpec

-----------------------------------------------------------------------------
(* The error log.                                                          *)

-----------------------------------------------------------------------------
(* What the log tells of a subsystem.                                      *)

LogLines == [who : Reporters, msg : Messages, at : Nat, repeated : Nat]

Tally(l, w) ==
  [t \in Nat |-> IF l.who # w THEN t ELSE IF l.repeated = 0 THEN 1 ELSE t + l.repeated]
Tallies(log, w) == [k \in 1..Len(log) |-> Tally(log[k], w)]

LEMMA TallyIs ==
  ASSUME NEW l \in LogLines, NEW w
  PROVE  /\ Tally(l, w) \in [Nat -> Nat]
         /\ \A t \in Nat : Tally(l, w)[t] =
              IF l.who # w THEN t ELSE IF l.repeated = 0 THEN 1 ELSE t + l.repeated
BY DEF Tally, LogLines

LEMMA TalliesAre ==
  ASSUME NEW log \in Seq(LogLines), NEW w
  PROVE  /\ Tallies(log, w) \in [1..Len(log) -> [Nat -> Nat]]
         /\ \A k \in 1..Len(log) : Tallies(log, w)[k] = Tally(log[k], w) /\ log[k] \in LogLines
<1>1. \A k \in 1..Len(log) : log[k] \in LogLines
  BY ElementOfSeq
<1>2. QED
  BY <1>1, TallyIs DEF Tallies

LEMMA ToldIs ==
  ASSUME NEW log \in Seq(LogLines), NEW w
  PROVE  \E f : Recurs(f, Len(log), Nat, 0, Tallies(log, w)) /\ Told(log, w) = f[Len(log)]
<1> DEFINE n == Len(log)
           Tells(f) == f = [i \in 0..n |->
                              IF i = 0 THEN 0
                              ELSE IF log[i].who # w THEN f[i - 1]
                              ELSE IF log[i].repeated = 0 THEN 1 ELSE f[i - 1] + log[i].repeated]
           rule == Tallies(log, w)
<1>1. n \in Nat
  OBVIOUS
<1>2. ASSUME NEW g, g = [k \in 0..n |-> g[k]], g[0] = 0,
             \A k \in 1..n : g[k - 1] \in Nat =>
               g[k] = IF log[k].who # w THEN g[k - 1]
                      ELSE IF log[k].repeated = 0 THEN 1 ELSE g[k - 1] + log[k].repeated
      PROVE  Recurs(g, n, Nat, 0, rule)
  <2>1. \A k \in 1..n : g[k - 1] \in Nat => g[k] = rule[k][g[k - 1]]
    <3> SUFFICES ASSUME NEW k \in 1..n, g[k - 1] \in Nat PROVE g[k] = rule[k][g[k - 1]]
      OBVIOUS
    <3>1. rule[k] = Tally(log[k], w) /\ log[k] \in LogLines
      BY TalliesAre
    <3>2. Tally(log[k], w)[g[k - 1]] = IF log[k].who # w THEN g[k - 1]
                                       ELSE IF log[k].repeated = 0 THEN 1
                                       ELSE g[k - 1] + log[k].repeated
      <4> DEFINE t == g[k - 1]
                 l == log[k]
      <4>1. t \in Nat /\ l \in LogLines
        BY <3>1
      <4> HIDE DEF t, l
      <4>2. Tally(l, w)[t] = IF l.who # w THEN t ELSE IF l.repeated = 0 THEN 1 ELSE t + l.repeated
        BY <4>1, TallyIs
      <4>3. QED
        BY <4>2 DEF t, l
    <3> HIDE DEF rule, n
    <3>3. QED
      BY <1>2, <3>1, <3>2
  <2>2. rule \in [1..n -> [Nat -> Nat]]
    BY TalliesAre
  <2> HIDE DEF n, rule
  <2>3. QED
    BY <1>1, <1>2, <2>1, <2>2, Recurses
<1>3. ASSUME NEW g, Tells(g) PROVE Recurs(g, n, Nat, 0, rule)
  <2> DEFINE e(i) == IF i = 0 THEN 0
                     ELSE IF log[i].who # w THEN g[i - 1]
                     ELSE IF log[i].repeated = 0 THEN 1 ELSE g[i - 1] + log[i].repeated
  <2>1. g = [i \in 0..n |-> e(i)]
    BY <1>3
  <2>2. e(0) = 0 /\ \A k \in 1..n : e(k) = IF log[k].who # w THEN g[k - 1]
                                           ELSE IF log[k].repeated = 0 THEN 1
                                           ELSE g[k - 1] + log[k].repeated
    BY <1>1
  <2> HIDE DEF e
  <2>3. g = [i \in 0..n |-> g[i]] /\ g[0] = e(0) /\ \A k \in 1..n : g[k] = e(k)
    BY <1>1, <2>1
  <2> HIDE DEF n, rule
  <2>4. QED
    BY <1>2, <2>2, <2>3
<1>4. PICK f : Recurs(f, n, Nat, 0, rule)
  <2>1. rule \in [1..n -> [Nat -> Nat]]
    BY TalliesAre
  <2> HIDE DEF n, rule
  <2>2. QED
    BY <1>1, <2>1, Recursion
<1>5. Tells(f)
  <2> DEFINE e(i) == IF i = 0 THEN 0
                     ELSE IF log[i].who # w THEN f[i - 1]
                     ELSE IF log[i].repeated = 0 THEN 1 ELSE f[i - 1] + log[i].repeated
  <2>1. ASSUME NEW i \in 0..n PROVE f[i] = e(i)
    <3>1. CASE i = 0
      BY <1>4, <3>1 DEF Recurs
    <3>2. CASE i # 0
      <4>1. i \in 1..n /\ i - 1 \in 0..n
        BY <1>1, <3>2
      <4>2. f[i] = Tally(log[i], w)[f[i - 1]] /\ f[i - 1] \in Nat /\ log[i] \in LogLines
        BY <1>4, <4>1, TalliesAre DEF Recurs
      <4>3. Tally(log[i], w)[f[i - 1]] = IF log[i].who # w THEN f[i - 1]
                                         ELSE IF log[i].repeated = 0 THEN 1
                                         ELSE f[i - 1] + log[i].repeated
        <5> DEFINE t == f[i - 1]
                   l == log[i]
        <5>1. t \in Nat /\ l \in LogLines
          BY <4>2
        <5> HIDE DEF t, l
        <5>2. Tally(l, w)[t] = IF l.who # w THEN t ELSE IF l.repeated = 0 THEN 1 ELSE t + l.repeated
          BY <5>1, TallyIs
        <5>3. QED
          BY <5>2 DEF t, l
      <4>4. QED
        BY <3>2, <4>2, <4>3
    <3>3. QED
      BY <3>1, <3>2
  <2> HIDE DEF e
  <2>2. f = [i \in 0..n |-> e(i)]
    BY <1>4, <2>1 DEF Recurs
  <2>3. QED
    BY <2>2 DEF e
<1> DEFINE told == CHOOSE g : Tells(g)
<1>6. Tells(told)
  BY <1>5
<1>7. Told(log, w) = told[n]
  BY DEF Told
<1> HIDE DEF told, Tells
<1>8. QED
  BY <1>3, <1>6, <1>7

LEMMA ToldAppend ==
  ASSUME NEW log \in Seq(LogLines), NEW l \in LogLines, NEW w
  PROVE  /\ Told(log, w) \in Nat
         /\ Told(Append(log, l), w) =
              IF l.who # w THEN Told(log, w)
              ELSE IF l.repeated = 0 THEN 1 ELSE Told(log, w) + l.repeated
<1> DEFINE s == Append(log, l)
           n == Len(log)
<1>1. /\ s \in Seq(LogLines) /\ Len(s) = n + 1 /\ s[n + 1] = l /\ n \in Nat
      /\ \A k \in 1..n : s[k] = log[k]
  BY AppendProperties
<1>2. PICK f : Recurs(f, n, Nat, 0, Tallies(log, w)) /\ Told(log, w) = f[n]
  BY ToldIs
<1> HIDE DEF s
<1>3. PICK g : Recurs(g, n + 1, Nat, 0, Tallies(s, w)) /\ Told(s, w) = g[n + 1]
  BY <1>1, ToldIs
<1>4. \A k \in 1..n : Tallies(s, w)[k] = Tallies(log, w)[k]
  <2> SUFFICES ASSUME NEW k \in 1..n PROVE Tallies(s, w)[k] = Tallies(log, w)[k]
    OBVIOUS
  <2>1. k \in 1..Len(s) /\ k \in 1..Len(log)
    BY <1>1
  <2>2. Tallies(s, w)[k] = Tally(s[k], w) /\ Tallies(log, w)[k] = Tally(log[k], w)
    BY <1>1, <2>1, TalliesAre
  <2>3. QED
    BY <1>1, <2>2
<1> HIDE DEF n
<1>5. n + 1 \in Nat /\ n <= n + 1 /\ n \in 0..n /\ n + 1 \in 1..(n + 1) /\ (n + 1) - 1 = n
  BY <1>1
<1>6. f[n] = g[n] /\ f[n] \in Nat
  <2>1. \A k \in 0..n : f[k] = g[k]
    <3> DEFINE m == n + 1
    <3>1. /\ m \in Nat /\ n \in Nat /\ n <= m
          /\ Recurs(g, m, Nat, 0, Tallies(s, w)) /\ Recurs(f, n, Nat, 0, Tallies(log, w))
      BY <1>1, <1>2, <1>3, <1>5
    <3> HIDE DEF m
    <3>2. QED
      BY <1>4, <3>1, SameRecursion
  <2>2. QED
    BY <1>2, <1>5, <2>1 DEF Recurs
<1>7. g[n + 1] = Tallies(s, w)[n + 1][g[n]]
  <2>1. g[n + 1] = Tallies(s, w)[n + 1][g[(n + 1) - 1]]
    BY <1>3, <1>5 DEF Recurs
  <2>2. QED
    BY <1>5, <2>1
<1>8. Tallies(s, w)[n + 1] = Tally(l, w)
  BY <1>1, <1>5, TalliesAre
<1>9. Tally(l, w)[f[n]] = IF l.who # w THEN f[n] ELSE IF l.repeated = 0 THEN 1 ELSE f[n] + l.repeated
  BY <1>6, TallyIs
<1>10. QED
  BY <1>2, <1>3, <1>6, <1>7, <1>8, <1>9 DEF s

\* Another's line leaves a subsystem's last spell as it is; its own goes on with
\* it or begins one.
LEMMA SpellAppend ==
  ASSUME NEW log \in Seq(LogLines), NEW l \in LogLines, NEW w
  PROVE  LastSpell(Append(log, l), w) =
           IF l.who # w THEN LastSpell(log, w)
           ELSE IF l.repeated = 0 THEN {Len(log) + 1}
           ELSE LastSpell(log, w) \cup {Len(log) + 1}
<1> DEFINE s == Append(log, l)
           n == Len(log)
<1>1. /\ s \in Seq(LogLines) /\ Len(s) = n + 1 /\ s[n + 1] = l /\ n \in Nat
      /\ \A k \in 1..n : s[k] = log[k]
  BY AppendProperties
<1>2. DOMAIN log = 1..n /\ DOMAIN s = 1..(n + 1)
  BY <1>1, LenProperties
<1> HIDE DEF s, n
<1>3. /\ DOMAIN s = DOMAIN log \cup {n + 1} /\ n + 1 \notin DOMAIN log
      /\ \A k \in DOMAIN log : n + 1 > k /\ ~(k > n + 1) /\ k \in Nat
      /\ ~(n + 1 > n + 1)
  BY <1>1, <1>2
<1>4. Own(s, w) = IF l.who = w THEN Own(log, w) \cup {n + 1} ELSE Own(log, w)
  BY <1>1, <1>2, <1>3 DEF Own
<1>5. Own(log, w) \subseteq DOMAIN log /\ \A k \in Own(log, w) : s[k] = log[k]
  BY <1>1, <1>2 DEF Own
<1> HIDE DEF Own
<1>6. CASE l.who # w
  BY <1>4, <1>5, <1>6 DEF LastSpell, s
<1>7. CASE l.who = w /\ l.repeated = 0
  <2>1. LastSpell(s, w) = {n + 1}
    BY <1>1, <1>3, <1>4, <1>5, <1>7 DEF LastSpell
  <2>2. QED
    BY <1>7, <2>1 DEF s, n
<1>8. CASE l.who = w /\ l.repeated # 0
  <2>1. LastSpell(s, w) = LastSpell(log, w) \cup {n + 1}
    BY <1>1, <1>3, <1>4, <1>5, <1>8 DEF LastSpell
  <2>2. QED
    BY <1>8, <2>1 DEF s, n
<1>9. QED
  BY <1>6, <1>7, <1>8

-----------------------------------------------------------------------------
(* The throttle.                                                           *)

Entries == [last_message : Messages, last_logged_at : Nat, repeat_count : Nat]

\* What the throttle remembers of a subsystem goes with its last spell.
Accounted(log, entry, times, w) ==
  /\ \A i \in LastSpell(log, w) :
       log[i].msg = entry.last_message /\ log[i].at <= entry.last_logged_at
  /\ times = Told(log, w) + entry.repeat_count
  /\ \A i, j \in LastSpell(log, w) : j < i => log[i].at - log[j].at >= DedupInterval

LogInv ==
  /\ seconds \in Nat /\ lines \in Seq(LogLines)
  /\ throttler = [w \in Reporters |-> throttler[w]] /\ spell \in [Reporters -> Nat]
  /\ \A w \in Reporters : \/ throttler[w] = None
                          \/ throttler[w] \in Entries /\ Accounted(lines, throttler[w], spell[w], w)

\* Nothing changes for a subsystem when another's line is written.
LEMMA OthersAccounted ==
  ASSUME NEW log \in Seq(LogLines), NEW l \in LogLines, NEW w, l.who # w,
         NEW entry, NEW times, Accounted(log, entry, times, w)
  PROVE  Accounted(Append(log, l), entry, times, w)
<1> DEFINE s == Append(log, l)
<1>1. LastSpell(s, w) = LastSpell(log, w) /\ Told(s, w) = Told(log, w)
  BY SpellAppend, ToldAppend
<1>2. \A i \in LastSpell(log, w) : s[i] = log[i]
  <2>1. LastSpell(log, w) \subseteq 1..Len(log)
    BY LenProperties DEF LastSpell, Own
  <2>2. QED
    BY <2>1, AppendProperties
<1> HIDE DEF s
<1>3. Accounted(s, entry, times, w)
  BY <1>1, <1>2 DEF Accounted
<1>4. QED
  BY <1>3 DEF s

\* A first line begins a spell of one.
LEMMA FirstAccounted ==
  ASSUME NEW log \in Seq(LogLines), NEW l \in LogLines, NEW w, l.who = w, l.repeated = 0,
         NEW entry \in Entries, entry.last_message = l.msg, entry.last_logged_at = l.at,
         entry.repeat_count = 0
  PROVE  Accounted(Append(log, l), entry, 1, w)
<1> DEFINE s == Append(log, l)
           n == Len(log)
<1>1. LastSpell(s, w) = {n + 1} /\ Told(s, w) = 1 /\ s[n + 1] = l /\ l.at \in Nat /\ n \in Nat
  <2>1. s[n + 1] = l /\ n \in Nat
    BY AppendProperties
  <2>2. l.at \in Nat
    BY DEF LogLines
  <2>3. LastSpell(s, w) = {n + 1}
    BY SpellAppend
  <2>4. Told(s, w) = 1
    BY ToldAppend
  <2>5. QED
    BY <2>1, <2>2, <2>3, <2>4
<1> HIDE DEF s, n
<1>2. Accounted(s, entry, 1, w)
  BY <1>1 DEF Accounted
<1>3. QED
  BY <1>2 DEF s

\* One that counts repeats goes on with the spell, an interval later.
LEMMA RepeatAccounted ==
  ASSUME NEW log \in Seq(LogLines), NEW l \in LogLines, NEW w, l.who = w,
         NEW old \in Entries, NEW times \in Nat, Accounted(log, old, times, w),
         l.repeated = old.repeat_count + 1, l.msg = old.last_message,
         l.at - old.last_logged_at >= DedupInterval,
         NEW entry \in Entries, entry.last_message = l.msg, entry.last_logged_at = l.at,
         entry.repeat_count = 0
  PROVE  Accounted(Append(log, l), entry, times + 1, w)
<1> DEFINE s == Append(log, l)
           n == Len(log)
           old_at == old.last_logged_at
           old_spell == LastSpell(log, w)
<1>1. /\ n \in Nat /\ s[n + 1] = l /\ \A k \in 1..n : s[k] = log[k] /\ log[k].at \in Nat
      /\ l.at \in Nat /\ old_at \in Nat /\ DedupInterval \in Nat /\ l.at - old_at >= DedupInterval
  <2>1. \A k \in 1..n : log[k] \in LogLines
    BY ElementOfSeq
  <2>2. QED
    BY <2>1, AppendProperties, LogBounds DEF LogLines, Entries
<1>2. l.repeated # 0 /\ l.repeated = old.repeat_count + 1 /\ old.repeat_count \in Nat
  BY DEF Entries
<1>3. /\ LastSpell(s, w) = old_spell \cup {n + 1} /\ old_spell \subseteq 1..n
      /\ Told(log, w) \in Nat /\ Told(s, w) = Told(log, w) + l.repeated
  <2>1. old_spell \subseteq 1..n
    BY LenProperties DEF LastSpell, Own
  <2>2. QED
    BY <1>2, <2>1, SpellAppend, ToldAppend
<1>4. /\ \A i \in old_spell : log[i].msg = old.last_message /\ log[i].at <= old_at
      /\ times = Told(log, w) + old.repeat_count
      /\ \A i, j \in old_spell : j < i => log[i].at - log[j].at >= DedupInterval
  BY DEF Accounted
<1> HIDE DEF s, n, old_spell, old_at
<1>5. \A i \in LastSpell(s, w) : i = n + 1 \/ (i \in old_spell /\ i \in 1..n /\ s[i] = log[i])
  BY <1>1, <1>3
<1>6. \A i \in LastSpell(s, w) : s[i].msg = entry.last_message /\ s[i].at <= entry.last_logged_at
  <2> SUFFICES ASSUME NEW i \in LastSpell(s, w)
               PROVE  s[i].msg = entry.last_message /\ s[i].at <= entry.last_logged_at
    OBVIOUS
  <2>1. CASE i = n + 1
    BY <1>1, <2>1
  <2>2. CASE i \in old_spell /\ i \in 1..n /\ s[i] = log[i]
    BY <1>1, <1>4, <2>2
  <2>3. QED
    BY <1>5, <2>1, <2>2
<1>7. times + 1 = Told(s, w) + entry.repeat_count
  BY <1>2, <1>3, <1>4
<1>8. \A i, j \in LastSpell(s, w) : j < i => s[i].at - s[j].at >= DedupInterval
  <2> SUFFICES ASSUME NEW i \in LastSpell(s, w), NEW j \in LastSpell(s, w), j < i
               PROVE  s[i].at - s[j].at >= DedupInterval
    OBVIOUS
  <2>1. j \in old_spell /\ j \in 1..n /\ s[j] = log[j]
    BY <1>1, <1>5
  <2>2. CASE i = n + 1
    <3>1. log[j].at <= old_at /\ log[j].at \in Nat /\ s[i] = l
      BY <1>1, <1>4, <2>1, <2>2
    <3>2. l.at - log[j].at >= DedupInterval
      BY <1>1, <3>1
    <3>3. QED
      BY <2>1, <3>1, <3>2
  <2>3. CASE i # n + 1
    BY <1>4, <1>5, <2>1, <2>3
  <2>4. QED
    BY <2>2, <2>3
<1>9. Accounted(s, entry, times + 1, w)
  BY <1>6, <1>7, <1>8 DEF Accounted
<1>10. QED
  BY <1>9 DEF s

\* What one subsystem's error does to what is known of all.
LEMMA OneChanges ==
  ASSUME LogInv, NEW w \in Reporters, NEW entry \in Entries, NEW log \in Seq(LogLines),
         seconds' = seconds, lines' = log,
         throttler' = [throttler EXCEPT ![w] = entry], spell' = [spell EXCEPT ![w] = @ + 1],
         Accounted(log, entry, spell[w] + 1, w),
         \A v \in Reporters \ {w} : throttler[v] = None \/ Accounted(log, throttler[v], spell[v], v)
  PROVE  LogInv'
<1>1. /\ \A v \in Reporters : throttler'[v] = IF v = w THEN entry ELSE throttler[v]
      /\ throttler' = [v \in Reporters |-> throttler'[v]]
      /\ \A v \in Reporters : spell'[v] = IF v = w THEN spell[w] + 1 ELSE spell[v]
      /\ spell' \in [Reporters -> Nat]
  <2>1. throttler = [v \in Reporters |-> throttler[v]] /\ spell \in [Reporters -> Nat]
    BY DEF LogInv
  <2>2. /\ \A v \in Reporters : throttler'[v] = IF v = w THEN entry ELSE throttler[v]
        /\ throttler' = [v \in Reporters |-> throttler'[v]]
    BY <2>1
  <2>3. /\ \A v \in Reporters : spell'[v] = IF v = w THEN spell[w] + 1 ELSE spell[v]
        /\ spell' \in [Reporters -> Nat]
    BY <2>1
  <2>4. QED
    BY <2>2, <2>3
<1>2. \A v \in Reporters : \/ throttler'[v] = None
                           \/ throttler'[v] \in Entries /\ Accounted(lines', throttler'[v], spell'[v], v)
  BY <1>1 DEF LogInv
<1>3. QED
  BY <1>1, <1>2 DEF LogInv

LEMMA LogSteps == LogInv /\ [LogNext]_logVars => LogInv'
<1> SUFFICES ASSUME LogInv, [LogNext]_logVars PROVE LogInv'
  OBVIOUS
<1>1. CASE PassSecond
  BY <1>1 DEF PassSecond, LogInv
<1>2. ASSUME NEW w \in Reporters, NEW msg \in Messages, LogError(w, msg) PROVE LogInv'
  <2>1. seconds' = seconds /\ seconds \in Nat /\ lines \in Seq(LogLines) /\ spell[w] \in Nat
    BY <1>2 DEF LogError, LogInv
  <2>2. ASSUME NEW l \in LogLines, l.who = w
        PROVE  /\ Append(lines, l) \in Seq(LogLines)
               /\ \A v \in Reporters \ {w} :
                    throttler[v] = None \/ Accounted(Append(lines, l), throttler[v], spell[v], v)
    BY <2>1, <2>2, AppendProperties, OthersAccounted DEF LogInv
  <2>3. CASE LogChanged(w, msg)
    <3> DEFINE entry == Entry(msg, seconds, 0)
               l == LogLine(w, msg, 0)
    <3>1. /\ throttler' = [throttler EXCEPT ![w] = entry] /\ lines' = Append(lines, l)
          /\ spell' = [spell EXCEPT ![w] = 1]
      BY <2>3 DEF LogChanged
    <3>2. /\ entry \in Entries /\ entry.last_message = l.msg /\ entry.last_logged_at = l.at
          /\ entry.repeat_count = 0 /\ l \in LogLines /\ l.who = w /\ l.repeated = 0
      BY <2>1 DEF Entry, Entries, LogLine, LogLines
    <3> HIDE DEF entry, l
    <3>3. Accounted(Append(lines, l), entry, 1, w)
      BY <2>1, <3>2, FirstAccounted
    <3>4. /\ \A v \in Reporters : throttler'[v] = IF v = w THEN entry ELSE throttler[v]
          /\ throttler' = [v \in Reporters |-> throttler'[v]]
          /\ \A v \in Reporters : spell'[v] = IF v = w THEN 1 ELSE spell[v]
          /\ spell' \in [Reporters -> Nat]
      BY <3>1 DEF LogInv
    <3>5. \A v \in Reporters :
            \/ throttler'[v] = None
            \/ throttler'[v] \in Entries /\ Accounted(lines', throttler'[v], spell'[v], v)
      BY <2>2, <3>1, <3>2, <3>3, <3>4 DEF LogInv
    <3>6. QED
      BY <2>1, <2>2, <3>1, <3>2, <3>4, <3>5 DEF LogInv
  <2>4. CASE LogSuppressed(w, msg)
    <3> DEFINE old == throttler[w]
               entry == [old EXCEPT !.repeat_count = @ + 1]
    <3>1. /\ throttler' = [throttler EXCEPT ![w] = entry] /\ lines' = lines
          /\ spell' = [spell EXCEPT ![w] = @ + 1] /\ old # None
      BY <2>4 DEF LogSuppressed, SameMessage
    <3>2. old \in Entries /\ Accounted(lines, old, spell[w], w)
      BY <3>1 DEF LogInv
    <3> HIDE DEF old
    <3>3. /\ entry \in Entries /\ entry.last_message = old.last_message
          /\ entry.last_logged_at = old.last_logged_at
          /\ entry.repeat_count = old.repeat_count + 1 /\ old.repeat_count \in Nat
      BY <3>2 DEF Entries
    <3> HIDE DEF entry
    <3>4. Accounted(lines, entry, spell[w] + 1, w)
      <4>1. Told(lines, w) \in Nat
        <5>1. \E l \in LogLines : TRUE
          <6>1. LogLine(w, msg, 0) \in LogLines
            BY <2>1 DEF LogLine, LogLines
          <6>2. QED
            BY <6>1
        <5>2. QED
          BY <2>1, <5>1, ToldAppend
      <4>2. spell[w] + 1 = Told(lines, w) + entry.repeat_count
        BY <2>1, <3>2, <3>3, <4>1 DEF Accounted
      <4>3. QED
        BY <3>2, <3>3, <4>2 DEF Accounted
    <3>5. QED
      BY <2>1, <3>1, <3>3, <3>4, OneChanges DEF LogInv
  <2>5. CASE LogRepeated(w, msg)
    <3> DEFINE old == throttler[w]
               entry == Entry(msg, seconds, 0)
               l == LogLine(w, msg, old.repeat_count + 1)
    <3>1. /\ throttler' = [throttler EXCEPT ![w] = entry] /\ lines' = Append(lines, l)
          /\ spell' = [spell EXCEPT ![w] = @ + 1] /\ old # None /\ old.last_message = msg
          /\ seconds - old.last_logged_at >= DedupInterval
      BY <2>5 DEF LogRepeated, SameMessage
    <3>2. old \in Entries /\ Accounted(lines, old, spell[w], w)
      BY <3>1 DEF LogInv
    <3> HIDE DEF old
    <3>3. /\ entry \in Entries /\ entry.last_message = l.msg /\ entry.last_logged_at = l.at
          /\ entry.repeat_count = 0 /\ l \in LogLines /\ l.who = w
          /\ l.repeated = old.repeat_count + 1 /\ l.msg = msg /\ l.at = seconds
      <4>1. old.repeat_count + 1 \in Nat
        BY <3>2 DEF Entries
      <4>2. QED
        BY <2>1, <4>1 DEF Entry, Entries, LogLine, LogLines
    <3> HIDE DEF entry, l
    <3>4. Accounted(Append(lines, l), entry, spell[w] + 1, w)
      BY <2>1, <3>1, <3>2, <3>3, RepeatAccounted
    <3>5. QED
      BY <2>1, <2>2, <3>1, <3>3, <3>4, OneChanges
  <2>6. QED
    BY <1>2, <2>3, <2>4, <2>5 DEF LogError
<1>3. CASE RestartLogger
  BY <1>3 DEF RestartLogger, LogInv
<1>4. CASE UNCHANGED logVars
  BY <1>4 DEF logVars, LogInv
<1>5. QED
  BY <1>1, <1>2, <1>3, <1>4 DEF LogNext

LEMMA LogStart == LogInit => LogInv
BY EmptySeq DEF LogInit, LogInv

(* The log and the throttle together account for every error of the        *)
(* present spell of each subsystem, and lines of one spell are an interval *)
(* apart, for any subsystems, messages, interval and restarts              *)
(* (ErrorThrottler::should_log).                                           *)
THEOREM SpellsAlwaysAccounted == LogSpec => []SpellAccounted
<1>1. LogInv => SpellAccounted
  <2> SUFFICES ASSUME LogInv, NEW w \in Reporters, throttler[w] # None
               PROVE  LET present == LastSpell(lines, w)
                      IN  /\ \A i \in present : lines[i].msg = throttler[w].last_message
                          /\ spell[w] = Told(lines, w) + throttler[w].repeat_count
                          /\ \A i, j \in present : j < i => lines[i].at - lines[j].at >= DedupInterval
    BY DEF SpellAccounted
  <2>1. Accounted(lines, throttler[w], spell[w], w)
    BY DEF LogInv
  <2>2. QED
    BY <2>1 DEF Accounted
<1>2. QED
  BY <1>1, LogStart, LogSteps, PTL DEF LogSpec

-----------------------------------------------------------------------------
(* What a start runs on.                                                   *)

\* resolve, for a name.
LEMMA EntryIs ==
  ASSUME NEW n, NEW overlay
  PROVE  EntryOf(n, overlay) # None =>
           /\ EntryOf(n, overlay).name = n
           /\ overlay # None => n \in DOMAIN overlay /\ EntryOf(n, overlay).edition = overlay[n]
           /\ overlay = None => EntryOf(n, overlay).edition = 0
BY DEF EntryOf

LEMMA ConnectedBy ==
  ASSUME NEW flag, NEW given \in BOOLEAN, NEW overlay, NEW warned,
         SessionBegun(flag, given, overlay, warned).is = "connected"
  PROVE  LET name == IF flag # None THEN flag ELSE ambient
             begun == SessionBegun(flag, given, overlay, warned)
         IN  /\ flag # None => ~given
             /\ name = None => begun.entry = None
             /\ name # None /\ begun.entry = None =>
                  PassedOver(flag, overlay) /\ begun.warned
             /\ name # None /\ begun.entry # None => begun.entry = EntryOf(name, overlay)
<1> DEFINE name == IF flag # None THEN flag ELSE ambient
           begun == SessionBegun(flag, given, overlay, warned)
<1>1. CASE flag # None /\ given
  <2>1. begun = FailedStart
    BY <1>1 DEF SessionBegun
  <2>2. QED
    BY <2>1 DEF FailedStart, Session
<1>2. CASE name # None /\ ~(flag # None /\ given)
  <2>1. begun = IF EntryOf(name, overlay) # None THEN Session("connected", EntryOf(name, overlay), overlay, warned)
                ELSE IF PassedOver(flag, overlay) THEN Session("connected", None, overlay, TRUE)
                ELSE FailedStart
    BY <1>2 DEF SessionBegun
  <2>2. QED
    BY <1>2, <2>1 DEF Session, FailedStart
<1>3. CASE name = None /\ ~(flag # None /\ given)
  <2>1. begun = Session("picker", None, overlay, warned) \/ begun = Session("connected", None, overlay, warned)
    BY <1>3 DEF SessionBegun
  <2>2. QED
    BY <1>3, <2>1 DEF Session
<1>4. QED
  BY <1>1, <1>2, <1>3

LEMMA BegunKeeps ==
  ASSUME NEW flag, NEW given \in BOOLEAN, NEW overlay, NEW warned,
         SessionBegun(flag, given, overlay, warned).is # "failed"
  PROVE  /\ SessionBegun(flag, given, overlay, warned).overlay = overlay
         /\ warned => SessionBegun(flag, given, overlay, warned).warned
BY DEF SessionBegun, Session, FailedStart

\* The services a start works from: the list's entries over the file's.
LEMMA EffectiveIs ==
  ASSUME NEW fetched, NEW cached, Effective(fetched, cached) # None
  PROVE  LET list == IF fetched # None THEN fetched ELSE cached
             services == Effective(fetched, cached)
         IN  /\ list = None => localFile # None
             /\ list = None => \A n \in DOMAIN services : services[n] = 0
             /\ list # None => \A n \in DOMAIN services :
                  services[n] = IF n \in list.names THEN list.edition ELSE 0
             /\ list # None => \A n \in list.names :
                  n \in DOMAIN services /\ services[n] = list.edition
BY DEF Effective, Merged, LocalEntries, NoEntries

LEMMA StartChooses ==
  ASSUME NEW flag \in ServiceNames \cup {None}, NEW given \in BOOLEAN,
         StartProgram(flag, given), session'.is = "connected"
  PROVE  UsesNamed(flag, given)
<1> DEFINE name == IF flag # None THEN flag ELSE ambient
           list == IF Fetched # None THEN Fetched ELSE cache
           services == Effective(Fetched, cache)
<1>1. CASE url = None
  <2>1. PICK warned : session' = SessionBegun(flag, given, None, warned)
    BY <1>1 DEF StartProgram
  <2>2. /\ flag # None => ~given
        /\ name = None => session'.entry = None
        /\ name # None /\ session'.entry = None => PassedOver(flag, None) /\ session'.warned
        /\ name # None /\ session'.entry # None => session'.entry = EntryOf(name, None)
    BY <2>1, ConnectedBy
  <2>3. name # None /\ session'.entry # None =>
          session'.entry.name = name /\ session'.entry.edition = 0
    BY <2>2, EntryIs
  <2>4. name # None /\ session'.entry = None =>
          flag = None /\ localFile = None /\ session'.warned
    BY <2>2 DEF PassedOver
  <2> HIDE DEF services
  <2>5. QED
    BY <1>1, <2>2, <2>3, <2>4 DEF UsesNamed
<1>2. CASE url # None
  <2>1. session' = IF services = None THEN FailedStart
                   ELSE SessionBegun(flag, given, services, Fetched = None)
    BY <1>2 DEF StartProgram
  <2>2. services # None /\ session' = SessionBegun(flag, given, services, Fetched = None)
    BY <2>1 DEF FailedStart, Session
  <2>3. /\ flag # None => ~given
        /\ name = None => session'.entry = None
        /\ name # None /\ session'.entry = None => FALSE
        /\ name # None /\ session'.entry # None => session'.entry = EntryOf(name, services)
    BY <2>2, ConnectedBy DEF PassedOver
  <2>4. name # None /\ session'.entry # None =>
          /\ session'.entry.name = name
          /\ name \in DOMAIN services /\ session'.entry.edition = services[name]
    BY <2>2, <2>3, EntryIs
  <2>5. \A n \in DOMAIN services :
          services[n] = IF list # None /\ n \in list.names THEN list.edition ELSE 0
    BY <2>2, EffectiveIs
  <2>6. QED
    BY <1>2, <2>3, <2>4, <2>5 DEF UsesNamed
<1>3. QED
  BY <1>1, <1>2

LEMMA StartTells ==
  ASSUME NEW flag \in ServiceNames \cup {None}, NEW given \in BOOLEAN,
         StartProgram(flag, given), url # None, session'.is # "failed"
  PROVE  TellsStale
<1> DEFINE services == Effective(Fetched, cache)
<1>1. session' = IF services = None THEN FailedStart
                 ELSE SessionBegun(flag, given, services, Fetched = None)
  BY DEF StartProgram
<1>2. services # None /\ session' = SessionBegun(flag, given, services, Fetched = None)
  BY <1>1 DEF FailedStart, Session
<1>3. session'.overlay = services
  BY <1>2, BegunKeeps
<1>4. CASE Fetched = None
  <2>1. SessionBegun(flag, given, services, TRUE).warned
    BY <1>2, <1>4, BegunKeeps
  <2>2. QED
    BY <1>2, <1>4, <2>1 DEF TellsStale
<1>5. CASE Fetched # None
  BY <1>2, <1>3, <1>5, EffectiveIs DEF Fetched, TellsStale
<1>6. QED
  BY <1>4, <1>5

(* No start of the program takes another service than the one named, and   *)
(* none runs on an old list untold, whatever is fetched, cached, cut short *)
(* or edited in between (resolve_effective_services, resolve).             *)
THEOREM ChoiceAlwaysHonoured == StartupSpec => ChoiceHonoured
<1>1. session' # session => \A flag \in ServiceNames \cup {None}, given \in BOOLEAN :
        StartProgram(flag, given) /\ session'.is = "connected" => UsesNamed(flag, given)
  BY StartChooses
<1>2. session' # session => \A flag \in ServiceNames \cup {None}, given \in BOOLEAN :
        StartProgram(flag, given) /\ url # None /\ session'.is # "failed" => TellsStale
  BY StartTells
<1>3. QED
  BY <1>1, <1>2, PTL DEF StartupSpec, ChoiceHonoured, NamedIsUsed, StaleIsTold

-----------------------------------------------------------------------------
(* Where a connection parameter comes from.                                *)

SettingsTyped ==
  /\ DOMAIN dsn = Fields /\ DOMAIN service = Fields /\ DOMAIN env = Fields
  /\ \A f \in Fields :
       dsn[f] \in Ways(f, "dsn") /\ service[f] \in Ways(f, "service") /\ env[f] \in Ways(f, "env")

\* What each source may say of a field.
LEMMA WaysAre ==
  ASSUME SettingsTyped, NEW f \in Fields
  PROVE  /\ dsn[f] \in {"absent", "given", "zero"}
         /\ service[f] \in {"absent", "given", "zero", "command"}
         /\ env[f] \in {"absent", "given", "zero", "unparsable"}
         /\ service[f] = "command" => f = "password"
         /\ service[f] = "zero" => f = "timeout"
         /\ env[f] = "zero" => f = "timeout"
         /\ env[f] = "unparsable" => f = "timeout"
BY DEF SettingsTyped, Ways

LEMMA WinnerIs ==
  ASSUME NEW f \in Fields
  PROVE  Winner(f) = IF dsn[f] = "given" THEN "dsn"
                     ELSE IF service[f] # "absent" THEN "service"
                     ELSE IF env[f] # "absent" THEN "env"
                     ELSE IF f \in Defaulted THEN "default" ELSE None
<1>1. /\ DOMAIN Precedence = 1..4 /\ Precedence[1] = "dsn" /\ Precedence[2] = "service"
      /\ Precedence[3] = "env" /\ Precedence[4] = "default"
  BY DEF Precedence
<1>2. Speaks(f) = {p \in 1..4 : Says(Precedence[p], f)}
  BY <1>1 DEF Speaks
<1>3. /\ Says("dsn", f) <=> dsn[f] = "given"
      /\ Says("service", f) <=> service[f] # "absent"
      /\ Says("env", f) <=> env[f] # "absent"
      /\ Says("default", f) <=> f \in Defaulted
  BY DEF Says
<1>4. ASSUME NEW p \in Speaks(f), \A q \in Speaks(f) : p <= q
      PROVE  Winner(f) = Precedence[p]
  <2>1. Speaks(f) \subseteq Int
    BY <1>2
  <2>2. First(f) \in Speaks(f) /\ \A q \in Speaks(f) : First(f) <= q
    BY <1>4 DEF First
  <2>3. First(f) = p
    BY <1>4, <2>1, <2>2
  <2>4. QED
    BY <1>4, <2>3 DEF Winner
<1>5. CASE dsn[f] = "given"
  <2>1. 1 \in Speaks(f) /\ \A q \in Speaks(f) : 1 <= q
    BY <1>1, <1>2, <1>3, <1>5
  <2>2. QED
    BY <1>1, <1>4, <1>5, <2>1
<1>6. CASE dsn[f] # "given" /\ service[f] # "absent"
  <2>1. 1 \notin Speaks(f) /\ 2 \in Speaks(f)
    BY <1>1, <1>2, <1>3, <1>6
  <2>2. \A q \in Speaks(f) : 2 <= q
    BY <1>2, <2>1
  <2>3. QED
    BY <1>1, <1>4, <1>6, <2>1, <2>2
<1>7. CASE dsn[f] # "given" /\ service[f] = "absent" /\ env[f] # "absent"
  <2>1. 1 \notin Speaks(f) /\ 2 \notin Speaks(f) /\ 3 \in Speaks(f)
    BY <1>1, <1>2, <1>3, <1>7
  <2>2. \A q \in Speaks(f) : 3 <= q
    BY <1>2, <2>1
  <2>3. QED
    BY <1>1, <1>4, <1>7, <2>1, <2>2
<1>8. CASE dsn[f] # "given" /\ service[f] = "absent" /\ env[f] = "absent" /\ f \in Defaulted
  <2>1. 1 \notin Speaks(f) /\ 2 \notin Speaks(f) /\ 3 \notin Speaks(f) /\ 4 \in Speaks(f)
    BY <1>1, <1>2, <1>3, <1>8
  <2>2. \A q \in Speaks(f) : 4 <= q
    BY <1>2, <2>1
  <2>3. QED
    BY <1>1, <1>4, <1>8, <2>1, <2>2
<1>9. CASE dsn[f] # "given" /\ service[f] = "absent" /\ env[f] = "absent" /\ f \notin Defaulted
  <2>1. Speaks(f) = {}
    BY <1>1, <1>2, <1>3, <1>9
  <2>2. QED
    BY <1>9, <2>1 DEF Winner
<1>10. QED
  BY <1>5, <1>6, <1>7, <1>8, <1>9

\* Where the environment is looked at: where the sources before it say nothing.
LEMMA RuledIs ==
  ASSUME SettingsTyped, NEW f \in Fields
  PROVE  /\ WithService(FromDsn)[f] = IF dsn[f] = "given" THEN "dsn"
                                      ELSE IF service[f] = "given" THEN "service" ELSE None
         /\ Ruled(WithService(FromDsn), f) <=> dsn[f] # "given" /\ service[f] = "absent"
<1>1. \A g \in Fields : FromDsn[g] = IF dsn[g] = "given" THEN "dsn" ELSE None
  BY DEF FromDsn
<1>2. WithService(FromDsn)[f] = IF dsn[f] = "given" THEN "dsn"
                                ELSE IF service[f] = "given" THEN "service" ELSE None
  BY <1>1, NoValue DEF WithService, Filled, Sources
<1>3. WithService(FromDsn)[f] = None <=> dsn[f] # "given" /\ service[f] # "given"
  BY <1>2, NoValue DEF Sources
<1>4. /\ PasswordCommand(FromDsn) <=> dsn["password"] # "given" /\ service["password"] = "command"
      /\ TimeoutPinned(FromDsn) <=> dsn["timeout"] # "given" /\ service["timeout"] = "zero"
  BY <1>1, NoValue DEF PasswordCommand, TimeoutPinned, Sources, Fields
<1>5. QED
  BY <1>2, <1>3, <1>4, WaysAre DEF Ruled

LEMMA FieldsAlwaysFromBest == SettingsTyped => FieldsFromBest
<1> SUFFICES ASSUME SettingsTyped PROVE FieldsFromBest
  OBVIOUS
<1> DEFINE config == WithService(FromDsn)
           filled == WithDefaults(WithEnv(config))
           command == PasswordCommand(FromDsn)
<1>1. Refused(config) <=> \E f \in Fields : Winner(f) = "env" /\ env[f] = "unparsable"
  <2>1. \A f \in Fields : Ruled(config, f) /\ env[f] = "unparsable"
                            <=> Winner(f) = "env" /\ env[f] = "unparsable"
    <3> TAKE f \in Fields
    <3>1. Ruled(config, f) <=> dsn[f] # "given" /\ service[f] = "absent"
      BY RuledIs
    <3>2. QED
      BY <3>1, WinnerIs, NoValue DEF Sources
  <2>2. QED
    BY <2>1 DEF Refused
<1>2. /\ filled \in Configs /\ command \in BOOLEAN
      /\ \A f \in Fields : ~Refused(config) => filled[f] = IF Silent(f) THEN None ELSE Winner(f)
  <2>1. \A f \in Fields :
          /\ WithEnv(config)[f] = IF Ruled(config, f) /\ env[f] = "given" THEN "env" ELSE config[f]
          /\ filled[f] = IF WithEnv(config)[f] = None /\ f \in Defaulted THEN "default"
                         ELSE WithEnv(config)[f]
    BY DEF WithEnv, WithDefaults
  <2>2. filled = [f \in Fields |-> filled[f]]
    BY DEF WithDefaults
  <2>3. ASSUME NEW f \in Fields
        PROVE  /\ filled[f] \in Sources \cup {None}
               /\ ~Refused(config) => filled[f] = IF Silent(f) THEN None ELSE Winner(f)
    <3>1. /\ WithEnv(config)[f] = IF Ruled(config, f) /\ env[f] = "given" THEN "env" ELSE config[f]
          /\ filled[f] = IF WithEnv(config)[f] = None /\ f \in Defaulted THEN "default"
                         ELSE WithEnv(config)[f]
          /\ ~Refused(config) => ~(Ruled(config, f) /\ env[f] = "unparsable")
      BY <2>1 DEF Refused
    <3>2. /\ config[f] = IF dsn[f] = "given" THEN "dsn"
                         ELSE IF service[f] = "given" THEN "service" ELSE None
          /\ Ruled(config, f) <=> dsn[f] # "given" /\ service[f] = "absent"
      BY RuledIs
    <3> HIDE DEF config, filled
    <3>3. QED
      BY <3>1, <3>2, WaysAre, WinnerIs, NoValue DEF Sources, Silent, Defaulted
  <2>4. QED
    BY <2>2, <2>3 DEF Configs, PasswordCommand
<1>3. command <=> Winner("password") = "service" /\ service["password"] = "command"
  <2>1. command <=> dsn["password"] # "given" /\ service["password"] = "command"
    BY NoValue DEF PasswordCommand, FromDsn, Sources, Fields
  <2>2. QED
    BY <2>1, WinnerIs, NoValue DEF Fields, Sources
<1> HIDE DEF config, filled, command
<1>4. Resolved = IF Refused(config) THEN None ELSE [config |-> filled, command |-> command]
  BY DEF Resolved, config, filled, command
<1>5. [config |-> filled, command |-> command] # None
  BY <1>2, NoValue
<1>6. QED
  BY <1>1, <1>2, <1>3, <1>4, <1>5 DEF FieldsFromBest

LEMMA SettingsStart == SettingsInit => SettingsTyped
BY DEF SettingsInit, SettingsTyped, NothingGiven, Ways

LEMMA SettingsSteps == SettingsTyped /\ [SettingsNext]_settingVars => SettingsTyped'
<1> SUFFICES ASSUME SettingsTyped, [SettingsNext]_settingVars PROVE SettingsTyped'
  OBVIOUS
<1>1. ASSUME NEW f \in Fields, Edit(f) PROVE SettingsTyped'
  BY <1>1 DEF Edit, SettingsTyped
<1>2. CASE ForgetDsn
  BY <1>2 DEF ForgetDsn, SettingsTyped, NothingGiven, Ways
<1>3. CASE UNCHANGED settingVars
  BY <1>3 DEF settingVars, SettingsTyped
<1>4. QED
  BY <1>1, <1>2, <1>3 DEF SettingsNext

(* Whatever the DSN, the service and the environment say, every field gets *)
(* the value of the first source that gives it one, or the start is        *)
(* refused (resolve).                                                      *)
THEOREM FieldsComeFromBest == SettingsSpec => []FieldsFromBest
BY SettingsStart, SettingsSteps, FieldsAlwaysFromBest, PTL DEF SettingsSpec

-----------------------------------------------------------------------------
(* The calendar.                                                           *)

\* The days that month mp of a year from March has, in year yoe of an era.
LeapInEra(yoe) == (yoe + 1) % 4 = 0 /\ ((yoe + 1) % 100 = 0 => (yoe + 1) % 400 = 0)
DaysOf(mp, yoe) ==
  CASE mp \in {0, 2, 4, 5, 7, 9, 10} -> 31
    [] mp \in {1, 3, 6, 8} -> 30
    [] OTHER -> IF LeapInEra(yoe) THEN 29 ELSE 28

\* Day n is dom days into month mp of year yoe of an era, counted from zero.
IsDay(n, era, yoe, mp, dom) ==
  /\ era \in Nat /\ yoe \in 0..399 /\ mp \in 0..11 /\ dom \in 0..(DaysOf(mp, yoe) - 1)
  /\ n + 719468 = era * 146097 + EraDays(yoe) + Before(mp) + dom

\* The date it is.
YearOf(era, yoe, mp) == yoe + era * 400 + (IF mp < 10 THEN 0 ELSE 1)
Month(mp) == IF mp < 10 THEN mp + 3 ELSE mp - 9
DateOf(era, yoe, mp, dom) ==
  [y |-> YearOf(era, yoe, mp), m |-> Month(mp), d |-> dom + 1]

\* n is the day of the date d.
Matches(n, d) ==
  \E era, yoe, mp, dom : IsDay(n, era, yoe, mp, dom) /\ d = DateOf(era, yoe, mp, dom)

LEMMA FirstDay == Matches(0, [y |-> 1970, m |-> 1, d |-> 1])
<1> DEFINE first == [y |-> 1970, m |-> 1, d |-> 1]
<1>1. IsDay(0, 4, 369, 10, 0)
  BY DEF IsDay, Before, DaysOf, EraDays
<1>2. DateOf(4, 369, 10, 0) = first
  BY DEF DateOf, YearOf, Month
<1> HIDE DEF first
<1>3. Matches(0, first)
  BY Zenon, <1>1, <1>2 DEF Matches
<1>4. QED
  BY <1>3 DEF first

\* The rule of leap years, by eras.
LEMMA LeapIs ==
  ASSUME NEW era \in Nat, NEW yoe \in 0..399
  PROVE  Leap(yoe + era * 400 + 1) <=> LeapInEra(yoe)
BY DEF Leap, LeapInEra

LEMMA LengthIs ==
  ASSUME NEW era \in Nat, NEW yoe \in 0..399, NEW mp \in 0..11
  PROVE  Length(YearOf(era, yoe, mp), Month(mp)) = DaysOf(mp, yoe)
<1>1. CASE mp = 11
  <2>1. YearOf(era, yoe, mp) = yoe + era * 400 + 1 /\ Month(mp) = 2
    BY <1>1 DEF Month, YearOf
  <2>2. Leap(yoe + era * 400 + 1) <=> LeapInEra(yoe)
    BY Zenon, LeapIs
  <2>3. DaysOf(mp, yoe) = IF LeapInEra(yoe) THEN 29 ELSE 28
    BY <1>1 DEF DaysOf
  <2>4. \A y : Length(y, 2) = IF Leap(y) THEN 29 ELSE 28
    BY DEF Length
  <2>5. QED
    BY <2>1, <2>2, <2>3, <2>4
<1>2. CASE mp # 11
  BY <1>2 DEF Length, DaysOf, Month
<1>3. QED
  BY <1>1, <1>2

LEMMA DaysAre ==
  ASSUME NEW yoe \in 0..399, NEW mp \in 0..11
  PROVE  DaysOf(mp, yoe) \in 28..31
BY DEF DaysOf

\* A step in the representation.
LEMMA NextOf ==
  ASSUME NEW n \in Nat, NEW era \in Nat, NEW yoe \in 0..399, NEW mp \in 0..11, NEW dom \in Nat,
         IsDay(n, era, yoe, mp, dom)
  PROVE  Matches(n + 1, Tomorrow(DateOf(era, yoe, mp, dom)))
<1> DEFINE d == DateOf(era, yoe, mp, dom)
           len == DaysOf(mp, yoe)
           y == YearOf(era, yoe, mp)
<1>1. d = [y |-> y, m |-> Month(mp), d |-> dom + 1]
  BY DEF DateOf
<1>2. Length(y, Month(mp)) = len /\ len \in 28..31 /\ dom < len /\ y \in Nat /\ Month(mp) \in 1..12
  <2>1. Length(y, Month(mp)) = len
    BY Zenon, LengthIs
  <2>2. len \in 28..31
    BY Zenon, DaysAre
  <2>3. dom < len
    BY <2>2 DEF IsDay, EraDays
  <2>4. y \in Nat /\ Month(mp) \in 1..12
    BY DEF Month, YearOf
  <2>5. QED
    BY <2>1, <2>2, <2>3, <2>4
<1>3. n + 719468 = era * 146097 + 365 * yoe + yoe \div 4 - yoe \div 100 + Before(mp) + dom
  BY DEF IsDay, EraDays
<1> HIDE DEF y, d
<1>4. Tomorrow(d) = IF dom + 1 < len THEN [y |-> y, m |-> Month(mp), d |-> dom + 2]
                    ELSE IF Month(mp) < 12 THEN [y |-> y, m |-> Month(mp) + 1, d |-> 1]
                    ELSE [y |-> y + 1, m |-> 1, d |-> 1]
  <2>1. d.y = y /\ d.m = Month(mp) /\ d.d = dom + 1
    BY <1>1
  <2> HIDE DEF len
  <2>2. CASE dom + 1 < len
    BY <1>1, <1>2, <2>1, <2>2 DEF Tomorrow
  <2>3. CASE dom + 1 = len
    <3>1. d.d = Length(d.y, d.m) /\ ~(d.d < Length(d.y, d.m))
      BY <1>2, <2>1, <2>3
    <3>2. CASE Month(mp) < 12
      BY <1>2, <2>1, <2>3, <3>1, <3>2 DEF Tomorrow
    <3>3. CASE ~(Month(mp) < 12)
      BY <1>2, <2>1, <2>3, <3>1, <3>3 DEF Tomorrow
    <3>4. QED
      BY <3>2, <3>3
  <2>4. QED
    BY <1>2, <2>2, <2>3
<1>5. CASE dom + 1 < len
  <2>1. IsDay(n + 1, era, yoe, mp, dom + 1)
    <3>1. Before(mp) \in Nat
      BY DEF Before
    <3>2. QED
      BY <1>2, <1>3, <1>5, <3>1 DEF IsDay, EraDays
  <2>2. Tomorrow(d) = DateOf(era, yoe, mp, dom + 1)
    BY <1>4, <1>5 DEF DateOf, y, YearOf
  <2>3. QED
    BY Zenon, <2>1, <2>2 DEF Matches, d
<1>6. CASE dom + 1 = len /\ mp < 11
  <2>1. Before(mp + 1) = Before(mp) + len /\ Before(mp) \in Nat
    BY <1>6 DEF Before, DaysOf
  <2>2. DaysOf(mp + 1, yoe) \in 28..31
    BY <1>6 DEF DaysOf
  <2>3. IsDay(n + 1, era, yoe, mp + 1, 0)
    BY <1>2, <1>3, <1>6, <2>1, <2>2 DEF IsDay, EraDays
  <2>4. Tomorrow(d) = DateOf(era, yoe, mp + 1, 0)
    BY <1>2, <1>4, <1>6 DEF DateOf, y, YearOf, Month
  <2>5. QED
    BY Zenon, <2>3, <2>4 DEF Matches, d
<1>7. CASE dom + 1 = len /\ mp = 11
  <2>1. dom + 1 = (IF LeapInEra(yoe) THEN 29 ELSE 28) /\ Before(mp) = 337
    BY <1>7 DEF DaysOf, Before
  <2>2. Tomorrow(d) = [y |-> yoe + era * 400 + 1, m |-> 3, d |-> 1]
    BY <1>2, <1>4, <1>7 DEF y, YearOf, Month
  <2>3. DaysOf(0, yoe + 1) = 31 /\ DaysOf(0, 0) = 31 /\ Before(0) = 0
    BY DEF DaysOf, Before
  <2>4. CASE yoe < 399
    <3>1. (n + 1) + 719468 = era * 146097 + 365 * (yoe + 1) + (yoe + 1) \div 4 - (yoe + 1) \div 100
      BY <1>3, <2>1, <2>4 DEF LeapInEra
    <3>2. IsDay(n + 1, era, yoe + 1, 0, 0)
      BY <2>3, <2>4, <3>1 DEF IsDay, EraDays
    <3>3. Tomorrow(d) = DateOf(era, yoe + 1, 0, 0)
      BY <2>2 DEF DateOf, YearOf, Month
    <3>4. QED
      BY Zenon, <3>2, <3>3 DEF Matches, d
  <2>5. CASE yoe = 399
    <3>1. LeapInEra(yoe)
      BY <2>5 DEF LeapInEra
    <3>2. (n + 1) + 719468 = (era + 1) * 146097
      BY <1>3, <2>1, <2>5, <3>1
    <3>3. IsDay(n + 1, era + 1, 0, 0, 0)
      BY <2>3, <3>2 DEF IsDay, EraDays
    <3>4. Tomorrow(d) = DateOf(era + 1, 0, 0, 0)
      BY <2>2, <2>5 DEF DateOf, YearOf, Month
    <3>5. QED
      BY Zenon, <3>3, <3>4 DEF Matches, d
  <2>6. QED
    BY <2>4, <2>5
<1>8. QED
  BY <1>2, <1>5, <1>6, <1>7 DEF d

LEMMA Typed ==
  ASSUME NEW n, NEW era, NEW yoe, NEW mp, NEW dom, IsDay(n, era, yoe, mp, dom)
  PROVE  era \in Nat /\ yoe \in 0..399 /\ mp \in 0..11 /\ dom \in Nat
<1>1. era \in Nat /\ yoe \in 0..399 /\ mp \in 0..11 /\ dom \in 0..(DaysOf(mp, yoe) - 1)
  BY DEF IsDay, EraDays
<1>2. DaysOf(mp, yoe) \in 28..31
  BY Zenon, <1>1, DaysAre
<1>3. QED
  BY <1>1, <1>2

LEMMA NextDays ==
  ASSUME NEW n \in Nat, NEW d, Matches(n, d)
  PROVE  Matches(n + 1, Tomorrow(d))
<1>1. PICK era, yoe, mp, dom : IsDay(n, era, yoe, mp, dom) /\ d = DateOf(era, yoe, mp, dom)
  BY Zenon DEF Matches
<1>2. QED
  <2>1. era \in Nat /\ yoe \in 0..399 /\ mp \in 0..11 /\ dom \in Nat
    BY Zenon, <1>1, Typed
  <2>2. Matches(n + 1, Tomorrow(DateOf(era, yoe, mp, dom)))
    BY Zenon, <1>1, <2>1, NextOf
  <2>3. QED
    BY <1>1, <2>2

\* There is a day doy in year yoe of an era.
InYear(doy, yoe) == doy \in Nat /\ (doy < 365 \/ (doy = 365 /\ LeapInEra(yoe)))

InEra(doe) == doe \in Nat /\ doe < 146097

\* The year is had back from the days of an era, the month from those of a year.
LEMMA YearIs ==
  ASSUME NEW yoe \in 0..399, NEW doy, InYear(doy, yoe)
  PROVE  YearOfEra(EraDays(yoe) + doy) = yoe /\ InEra(EraDays(yoe) + doy)
<1>1. doy \in Nat /\ (doy < 365 \/ (doy = 365 /\ LeapInEra(yoe)))
  BY Zenon DEF InYear
<1>2. CASE doy < 365
  BY <1>1, <1>2 DEF YearOfEra, EraDays, InEra
<1>3. CASE doy = 365 /\ LeapInEra(yoe)
  BY <1>3 DEF YearOfEra, LeapInEra, EraDays, InEra
<1>4. QED
  BY <1>1, <1>2, <1>3

LEMMA MonthIs ==
  ASSUME NEW mp \in 0..11, NEW yoe \in 0..399, NEW dom \in Nat, dom < DaysOf(mp, yoe)
  PROVE  /\ MonthOfYear(Before(mp) + dom) = mp
         /\ InYear(Before(mp) + dom, yoe) /\ Before(mp) \in Nat
BY DEF Before, DaysOf, InYear, MonthOfYear

LEMMA EraIs ==
  ASSUME NEW era \in Nat, NEW doe \in Nat, doe < 146097
  PROVE  (era * 146097 + doe) \div 146097 = era
OBVIOUS

Shown(n, d) == Slug(n) = d

LEMMA SlugIs ==
  ASSUME NEW n \in Nat, NEW era \in Nat, NEW yoe \in 0..399, NEW mp \in 0..11, NEW dom \in Nat,
         IsDay(n, era, yoe, mp, dom)
  PROVE  Shown(n, DateOf(era, yoe, mp, dom))
<1> DEFINE doy == Before(mp) + dom
           doe == EraDays(yoe) + doy
<1>1. dom < DaysOf(mp, yoe)
  <2>1. DaysOf(mp, yoe) \in 28..31
    BY Zenon, DaysAre
  <2>2. QED
    BY <2>1 DEF IsDay
<1>2. MonthOfYear(doy) = mp /\ InYear(doy, yoe) /\ Before(mp) \in Nat
  BY Zenon, <1>1, MonthIs
<1>3. YearOfEra(doe) = yoe /\ InEra(doe)
  BY Zenon, <1>2, YearIs
<1>4. EraDays(yoe) \in Nat /\ doy \in Nat
  BY <1>2 DEF EraDays
<1>5. n + 719468 = era * 146097 + doe
  BY <1>2, <1>4 DEF IsDay
<1>6. doe - EraDays(yoe) = doy /\ doy - Before(mp) + 1 = dom + 1
  BY <1>2, <1>4
<1> HIDE DEF doy, doe
<1>7. doe \in Nat /\ doe < 146097
  BY <1>3 DEF InEra
<1>8. (n + 719468) \div 146097 = era
  BY <1>5, <1>7, EraIs
<1>9. (n + 719468) - era * 146097 = doe
  BY <1>5, <1>7
<1> DEFINE m == IF mp < 10 THEN mp + 3 ELSE mp - 9
<1>10. Slug(n) = [y |-> yoe + era * 400 + (IF m <= 2 THEN 1 ELSE 0), m |-> m, d |-> doy - Before(mp) + 1]
  BY <1>2, <1>3, <1>6, <1>8, <1>9 DEF Slug
<1>11. QED
  BY <1>6, <1>10 DEF Shown, DateOf, YearOf, Month

LEMMA DayIs ==
  ASSUME NEW n \in Nat, NEW era \in Nat, NEW yoe \in 0..399, NEW mp \in 0..11, NEW dom \in Nat,
         IsDay(n, era, yoe, mp, dom)
  PROVE  DayOf(DateOf(era, yoe, mp, dom)) = n
<1> DEFINE d == DateOf(era, yoe, mp, dom)
           y == yoe + era * 400
<1>1. /\ d.y \in Int /\ d.m \in Int /\ d.d = dom + 1
      /\ mp < 10 => d.y = y /\ d.m = mp + 3
      /\ mp >= 10 => d.y = y + 1 /\ d.m = mp - 9
  BY DEF DateOf, YearOf, Month
<1>2. y \div 400 = era /\ y - era * 400 = yoe /\ y \in Nat
  OBVIOUS
<1>3. n + 719468 = era * 146097 + EraDays(yoe) + Before(mp) + dom /\ Before(mp) \in Nat /\ EraDays(yoe) \in Nat
  BY DEF IsDay, Before, EraDays
<1> HIDE DEF d, y
<1>4. (IF d.m <= 2 THEN d.y - 1 ELSE d.y) = y
  BY <1>1, <1>2
<1>5. (IF d.m > 2 THEN d.m - 3 ELSE d.m + 9) = mp
  BY <1>1
<1>6. DayOf(d) = era * 146097 + EraDays(yoe) + (Before(mp) + d.d - 1) - 719468
  BY <1>2, <1>4, <1>5 DEF DayOf
<1>7. QED
  BY <1>1, <1>3, <1>6 DEF d

LEMMA BothWays ==
  ASSUME NEW n \in Nat, NEW d, Matches(n, d)
  PROVE  Slug(n) = d /\ DayOf(d) = n
<1>1. PICK era, yoe, mp, dom : IsDay(n, era, yoe, mp, dom) /\ d = DateOf(era, yoe, mp, dom)
  BY Zenon DEF Matches
<1>2. era \in Nat /\ yoe \in 0..399 /\ mp \in 0..11 /\ dom \in Nat
  BY Zenon, <1>1, Typed
<1>3. Shown(n, DateOf(era, yoe, mp, dom))
  BY Zenon, <1>1, <1>2, SlugIs
<1>4. DayOf(DateOf(era, yoe, mp, dom)) = n
  BY Zenon, <1>1, <1>2, DayIs
<1>5. QED
  BY <1>1, <1>3, <1>4 DEF Shown

-----------------------------------------------------------------------------
(* The words of a name.                                                    *)

\* No word of the target that could be taken for the one between the times.
Plain(target) == target \in Targets /\ Separators(target) = {}

LEMMA WordsAre ==
  ASSUME NEW target \in Targets, NEW x
  PROVE  LET T == ({"text"} \X STRING) \cup {x}
         IN  /\ Of(T, target) /\ target # <<>> /\ Of(T, <<x>>)
             /\ Len(target) \in Nat \ {0} /\ Joined(T, target, <<x>>, target \o <<x>>)
             /\ SubSeq(target \o <<x>>, 1, Len(target)) = target
<1> DEFINE W == {"text"} \X STRING
           T == W \cup {x}
<1>1. target \in Seq(W) /\ target # <<>>
  BY NameBounds
<1>2. W \subseteq T /\ x \in T
  OBVIOUS
<1> HIDE DEF W, T
<1>3. Of(T, target)
  BY <1>1, <1>2, SeqMonotonic DEF Of
<1>4. Of(T, <<x>>)
  BY <1>2 DEF Of
<1>5. Len(target) \in Nat \ {0}
  BY <1>1
<1>6. Joined(T, target, <<x>>, target \o <<x>>)
  BY <1>3, <1>4, JoinIs
<1>7. SubSeq(target \o <<x>>, 1, Len(target)) = target
  BY <1>1, <1>3, <1>4, FrontOfBoth
<1>8. QED
  BY <1>1, <1>3, <1>4, <1>5, <1>6, <1>7 DEF T, W

LEMMA BegunWords ==
  ASSUME NEW target \in Targets, NEW n
  PROVE  LET w == Begun(target, n)  k == Len(target)
         IN  /\ k \in Nat \ {0} /\ Len(w) = k + 1
             /\ \A i \in 1..k : w[i] = target[i]
             /\ w[k + 1] = Stamp(n) /\ Front(w) = target
             /\ w \in Seq(({"text"} \X STRING) \cup {Stamp(n)})
<1> DEFINE x == Stamp(n)
           w == Begun(target, n)
           k == Len(target)
           T == ({"text"} \X STRING) \cup {x}
<1>1. w = target \o <<x>>
  BY DEF Begun
<1> HIDE DEF x
<1>2. /\ k \in Nat \ {0} /\ Joined(T, target, <<x>>, target \o <<x>>)
      /\ SubSeq(target \o <<x>>, 1, k) = target
  BY Zenon, WordsAre
<1> HIDE DEF T, w
<1>3. /\ Len(w) = k + 1 /\ (\A i \in 1..k : w[i] = target[i]) /\ w[k + 1] = x
      /\ w \in Seq(T)
  <2>1. Len(<<x>>) = 1 /\ <<x>>[1] = x
    OBVIOUS
  <2> DEFINE one == <<x>>
  <2>2. Len(one) = 1 /\ one[1] = x /\ Joined(T, target, one, w)
    BY <1>1, <1>2, <2>1
  <2> HIDE DEF one
  <2>3. QED
    BY <1>2, <2>2 DEF Joined, Of
<1>4. Front(w) = target
  BY <1>1, <1>2, <1>3 DEF Front
<1>5. QED
  BY <1>2, <1>3, <1>4 DEF w, x, T

LEMMA BegunIs ==
  ASSUME NEW target, Plain(target), NEW n
  PROVE  LET w == Begun(target, n)  k == Len(target)
         IN  /\ k \in Nat \ {0} /\ Len(w) = k + 1
             /\ \A i \in 2..(k + 1) : w[i] # Text("to")
             /\ w[k + 1] = Stamp(n) /\ Front(w) = target
             /\ w \in Seq(({"text"} \X STRING) \cup {Stamp(n)})
<1> DEFINE w == Begun(target, n)
           k == Len(target)
           T == ({"text"} \X STRING) \cup {Stamp(n)}
<1>1. /\ k \in Nat \ {0} /\ Len(w) = k + 1 /\ \A i \in 1..k : w[i] = target[i]
      /\ w[k + 1] = Stamp(n) /\ Front(w) = target /\ w \in Seq(T)
  BY Zenon, BegunWords DEF Plain
<1> HIDE DEF w, T
<1>2. Stamp(n) # Text("to")
  BY DEF Stamp, Text
<1>3. ASSUME NEW i \in 2..(k + 1)  PROVE w[i] # Text("to")
  <2>1. CASE i = k + 1
    BY <1>1, <1>2, <2>1
  <2>2. CASE i # k + 1
    <3>1. i \in 1..k /\ i \in 2..k
      BY <1>1, <2>2
    <3>2. QED
      BY <1>1, <3>1 DEF Plain, Separators
  <2>3. QED
    BY <2>1, <2>2
<1>4. QED
  BY <1>1, <1>3 DEF w, T

LEMMA OpeningIs ==
  ASSUME NEW target, Plain(target), NEW n
  PROVE  TargetOf(Begun(target, n)) = target /\ StartOf(Begun(target, n)) = DayOf(Slug(n))
<1> DEFINE w == Begun(target, n)
           k == Len(target)
<1>1. Len(w) > 1 /\ w[Len(w)] = Stamp(n) /\ Front(w) = target
  <2>1. k \in Nat \ {0} /\ Len(w) = k + 1 /\ w[k + 1] = Stamp(n) /\ Front(w) = target
    BY Zenon, BegunIs
  <2>2. QED
    BY <2>1
<1> HIDE DEF w
<1>2. DayIn(Stamp(n)) = DayOf(Slug(n))
  BY DEF DayIn, Stamp
<1>3. QED
  BY <1>1, <1>2 DEF TargetOf, StartOf, Last, w

LEMMA BegunReadBack ==
  ASSUME NEW target, Plain(target), NEW n
  PROVE  Parsed(Begun(target, n)) = [target |-> target, start |-> DayOf(Slug(n)), end |-> None]
<1> DEFINE w == Begun(target, n)
           k == Len(target)
           T == ({"text"} \X STRING) \cup {Stamp(n)}
<1>1. k \in Nat \ {0} /\ Len(w) = k + 1 /\ (\A i \in 2..(k + 1) : w[i] # Text("to")) /\ w \in Seq(T)
  BY Zenon, BegunIs
<1>2. TargetOf(w) = target /\ StartOf(w) = DayOf(Slug(n))
  BY Zenon, OpeningIs
<1> HIDE DEF w, T
<1>3. Splits(w) = {}
  BY <1>1 DEF Splits
<1>4. SubSeq(w, 1, Len(w)) = w
  BY <1>1, SubSeqFull
<1> DEFINE first == IF Splits(w) = {} THEN Len(w) + 1 ELSE FirstOf(Splits(w))
<1>5. first - 1 = Len(w) /\ first # Len(w) - 1
  BY <1>1, <1>3
<1>6. Parsed(w) = [target |-> TargetOf(SubSeq(w, 1, first - 1)), start |-> StartOf(SubSeq(w, 1, first - 1)),
                   end |-> IF first = Len(w) - 1 THEN DayIn(Last(w)) ELSE None]
  BY DEF Parsed
<1> HIDE DEF first
<1>7. QED
  BY <1>2, <1>4, <1>5, <1>6 DEF w

LEMMA ClosedWords ==
  ASSUME NEW target \in Targets, NEW n, NEW e
  PROVE  LET w == Begun(target, n)  c == Closed(target, n, e)  k == Len(target)
         IN  /\ Len(c) = k + 3 /\ (\A i \in 1..(k + 1) : c[i] = w[i])
             /\ c[k + 2] = Text("to") /\ c[k + 3] = Stamp(e) /\ SubSeq(c, 1, k + 1) = w
             /\ c \in Seq(({"text"} \X STRING) \cup {Stamp(n)} \cup {Text("to"), Stamp(e)})
<1> DEFINE w == Begun(target, n)
           k == Len(target)
           c == Closed(target, n, e)
           tail == << Text("to"), Stamp(e) >>
           W == ({"text"} \X STRING) \cup {Stamp(n)}
           T == W \cup {Text("to"), Stamp(e)}
<1>1. k \in Nat \ {0} /\ Len(w) = k + 1 /\ w \in Seq(W)
  BY Zenon, BegunWords
<1>2. c = w \o tail /\ Len(tail) = 2 /\ tail[1] = Text("to") /\ tail[2] = Stamp(e)
  BY DEF Closed
<1>3. Text("to") \in T /\ Stamp(e) \in T /\ W \subseteq T
  OBVIOUS
<1> HIDE DEF w, c, W, T
<1>4. Of(T, tail)
  BY <1>3 DEF Of
<1> HIDE DEF tail
<1>5. Of(T, w)
  BY <1>1, <1>3, SeqMonotonic DEF Of
<1>6. w # <<>>
  BY <1>1
<1>7. Joined(T, w, tail, c) /\ SubSeq(c, 1, Len(w)) = w
  BY <1>2, <1>4, <1>5, <1>6, JoinIs, FrontOfBoth
<1>8. /\ Len(c) = k + 3 /\ (\A i \in 1..(k + 1) : c[i] = w[i])
       /\ c[k + 2] = Text("to") /\ c[k + 3] = Stamp(e)
  <2>1. /\ Len(c) = Len(w) + Len(tail) /\ (\A i \in 1..Len(w) : c[i] = w[i])
        /\ \A i \in 1..Len(tail) : c[Len(w) + i] = tail[i]
    BY <1>7 DEF Joined
  <2>2. c[(k + 1) + 1] = tail[1] /\ c[(k + 1) + 2] = tail[2]
    BY <1>1, <1>2, <2>1
  <2>3. QED
    BY <1>1, <1>2, <2>1, <2>2
<1>9. c \in Seq(T)
  BY <1>7 DEF Joined, Of
<1>10. QED
  BY <1>1, <1>7, <1>8, <1>9 DEF w, c, T, W

LEMMA ClosedReadBack ==
  ASSUME NEW target, Plain(target), NEW n, NEW e
  PROVE  Parsed(Closed(target, n, e)) = [target |-> target, start |-> DayOf(Slug(n)), end |-> DayOf(Slug(e))]
<1> DEFINE w == Begun(target, n)
           k == Len(target)
           c == Closed(target, n, e)
<1>1. k \in Nat \ {0} /\ \A i \in 2..(k + 1) : w[i] # Text("to")
  BY Zenon, BegunIs
<1>2. TargetOf(w) = target /\ StartOf(w) = DayOf(Slug(n))
  BY Zenon, OpeningIs
<1>3. DayIn(Stamp(e)) = DayOf(Slug(e))
  BY DEF DayIn, Stamp
<1>4. /\ Len(c) = k + 3 /\ (\A i \in 1..(k + 1) : c[i] = w[i])
      /\ c[k + 2] = Text("to") /\ c[k + 3] = Stamp(e) /\ SubSeq(c, 1, k + 1) = w
  <2>1. target \in Targets
    BY DEF Plain
  <2>2. /\ Len(c) = k + 3 /\ (\A i \in 1..(k + 1) : c[i] = w[i])
        /\ c[k + 2] = Text("to") /\ c[k + 3] = Stamp(e) /\ SubSeq(c, 1, k + 1) = w
        /\ c \in Seq(({"text"} \X STRING) \cup {Stamp(n)} \cup {Text("to"), Stamp(e)})
    BY Zenon, <2>1, ClosedWords
  <2> HIDE DEF w, c
  <2>3. QED
    BY <2>2
<1> HIDE DEF w, c
<1>5. Splits(c) = {k + 2}
  BY <1>1, <1>4 DEF Splits
<1>6. FirstOf(Splits(c)) = k + 2
  <2>1. \A i \in {k + 2} : (\A j \in {k + 2} : i <= j) <=> i = k + 2
    BY <1>1
  <2>2. QED
    BY <1>5, <2>1 DEF FirstOf
<1>7. k + 2 = Len(c) - 1 /\ (k + 2) - 1 = k + 1 /\ Splits(c) # {}
  BY <1>1, <1>4, <1>5
<1>8. Last(c) = Stamp(e)
  BY <1>4 DEF Last
<1>9. QED
  BY <1>2, <1>3, <1>4, <1>6, <1>7, <1>8 DEF Parsed, w, c

\* A name whose target has the word is split in the target, and the words
\* before it are no times.
LEMMA CutReadBack ==
  ASSUME NEW target \in Targets, Separators(target) # {},
         NEW U, NEW w \in Seq(U), Len(w) > Len(target),
         \A i \in 1..Len(target) : w[i] = target[i]
  PROVE  LET cut == FirstOf(Separators(target))
         IN  /\ cut \in 2..Len(target)
             /\ Parsed(w) = [target |-> LeftOf(target, cut), start |-> None,
                             end |-> IF cut = Len(w) - 1 THEN DayIn(Last(w)) ELSE None]
<1> DEFINE cut == FirstOf(Separators(target))
           k == Len(target)
           W == {"text"} \X STRING
           opening == SubSeq(w, 1, cut - 1)
<1>1. target \in Seq(W) /\ target # <<>>
  BY NameBounds
<1>2. k \in Nat \ {0} /\ Len(w) \in Nat
  BY <1>1
<1>3. cut \in Separators(target) /\ \A j \in Separators(target) : cut <= j
  <2>1. Separators(target) \in SUBSET Nat
    BY <1>2 DEF Separators
  <2>2. \E i \in Separators(target) : \A j \in Separators(target) : i <= j
    BY <2>1, LeastNumber
  <2>3. QED
    BY <2>2 DEF FirstOf
<1> HIDE DEF cut, W
<1>4. cut \in 2..k /\ target[cut] = Text("to")
  BY <1>3 DEF Separators
<1>5. FirstOf(Splits(w)) = cut /\ Splits(w) # {}
  <2>1. cut \in Splits(w)
    BY <1>2, <1>4 DEF Splits
  <2>2. ASSUME NEW j \in Splits(w) PROVE cut <= j
    <3>1. j \in 2..(Len(w) - 1) /\ w[j] = Text("to")
      BY DEF Splits
    <3>2. CASE j \in 2..k
      <4>1. j \in 1..k
        BY <1>2, <3>2
      <4>2. j \in Separators(target)
        BY <3>1, <3>2, <4>1 DEF Separators
      <4>3. QED
        BY <1>3, <4>2
    <3>3. CASE j \notin 2..k
      BY <1>2, <1>4, <3>1, <3>3
    <3>4. QED
      BY <3>2, <3>3
  <2>3. FirstOf(Splits(w)) \in Splits(w) /\ \A j \in Splits(w) : FirstOf(Splits(w)) <= j
    BY <2>1, <2>2 DEF FirstOf
  <2>4. FirstOf(Splits(w)) \in Int
    BY <1>2, <2>3 DEF Splits
  <2>5. QED
    BY <1>4, <2>1, <2>2, <2>3, <2>4
<1>6. /\ Len(opening) = cut - 1 /\ opening \in Seq(U)
      /\ \A i \in 1..(cut - 1) : opening[i] = target[i]
  <2>1. cut - 1 \in 1..Len(w)
    BY <1>2, <1>4
  <2>2. opening \in Seq(U) /\ Len(opening) = cut - 1 /\ \A i \in 1..(cut - 1) : opening[i] = w[i]
    BY <1>2, <1>4, <2>1
  <2>3. QED
    BY <1>2, <1>4, <2>2
<1>7. DayIn(Last(opening)) = None
  <2>1. Last(opening) = target[cut - 1] /\ cut - 1 \in 1..k
    BY <1>2, <1>4, <1>6 DEF Last
  <2>2. target[cut - 1] \in W
    BY <1>1, <2>1
  <2>3. target[cut - 1][1] = "text"
    BY <2>2 DEF W
  <2>4. QED
    BY <2>1, <2>3 DEF DayIn
<1>8. StartOf(opening) = None
  BY <1>7 DEF StartOf
<1> HIDE DEF opening
<1>9. TargetOf(opening) = LeftOf(target, cut)
  <2>1. CASE cut = 2
    <3>1. Len(opening) = 1 /\ TargetOf(opening) = opening
      BY <1>6, <2>1 DEF TargetOf
    <3>2. /\ SubSeq(target, 1, 1) \in Seq(W) /\ Len(SubSeq(target, 1, 1)) = 1
          /\ SubSeq(target, 1, 1)[1] = target[1]
      BY <1>1, <1>2
    <3>3. opening = SubSeq(target, 1, 1)
      BY <1>6, <2>1, <3>1, <3>2
    <3>4. QED
      BY <2>1, <3>1, <3>3 DEF LeftOf
  <2>2. CASE cut # 2
    <3>1. TargetOf(opening) = SubSeq(opening, 1, cut - 2)
      BY <1>4, <1>6, <2>2 DEF TargetOf, Front
    <3>2. /\ SubSeq(target, 1, cut - 2) \in Seq(W) /\ Len(SubSeq(target, 1, cut - 2)) = cut - 2
          /\ \A i \in 1..(cut - 2) : SubSeq(target, 1, cut - 2)[i] = target[i]
      BY <1>1, <1>2, <1>4, <2>2
    <3>3. /\ SubSeq(opening, 1, cut - 2) \in Seq(U) /\ Len(SubSeq(opening, 1, cut - 2)) = cut - 2
          /\ \A i \in 1..(cut - 2) : SubSeq(opening, 1, cut - 2)[i] = opening[i]
      BY <1>4, <1>6, <2>2
    <3>4. \A i \in 1..(cut - 2) : SubSeq(opening, 1, cut - 2)[i] = SubSeq(target, 1, cut - 2)[i]
      BY <1>4, <1>6, <3>2, <3>3
    <3>5. SubSeq(opening, 1, cut - 2) = SubSeq(target, 1, cut - 2)
      BY <3>2, <3>3, <3>4
    <3>6. QED
      BY <2>2, <3>1, <3>5 DEF LeftOf
  <2>3. QED
    BY <2>1, <2>2
<1>10. Parsed(w) = [target |-> TargetOf(opening), start |-> StartOf(opening),
                    end |-> IF cut = Len(w) - 1 THEN DayIn(Last(w)) ELSE None]
  BY <1>5 DEF Parsed, opening
<1>11. QED
  BY <1>4, <1>8, <1>9, <1>10 DEF cut

LEMMA CutNames ==
  ASSUME NEW target \in Targets, Separators(target) # {}, NEW n, NEW e
  PROVE  LET cut == FirstOf(Separators(target))
         IN  /\ Parsed(Begun(target, n)) = [target |-> LeftOf(target, cut), start |-> None,
                                            end |-> IF cut = Len(target) THEN DayOf(Slug(n)) ELSE None]
             /\ Parsed(Closed(target, n, e)) = [target |-> LeftOf(target, cut), start |-> None, end |-> None]
<1> DEFINE w == Begun(target, n)
           c == Closed(target, n, e)
           k == Len(target)
           cut == FirstOf(Separators(target))
           W == ({"text"} \X STRING) \cup {Stamp(n)}
           T == W \cup {Text("to"), Stamp(e)}
<1>1. /\ k \in Nat \ {0} /\ Len(w) = k + 1 /\ (\A i \in 1..k : w[i] = target[i])
      /\ w[k + 1] = Stamp(n) /\ w \in Seq(W)
  BY Zenon, BegunWords
<1>2. Len(c) = k + 3 /\ (\A i \in 1..(k + 1) : c[i] = w[i]) /\ c \in Seq(T)
  BY Zenon, ClosedWords
<1>3. DayIn(Stamp(n)) = DayOf(Slug(n))
  BY DEF DayIn, Stamp
<1> HIDE DEF w, c, W, T
<1>4. /\ cut \in 2..k
      /\ Parsed(w) = [target |-> LeftOf(target, cut), start |-> None,
                      end |-> IF cut = Len(w) - 1 THEN DayIn(Last(w)) ELSE None]
  <2>1. Len(w) > k
    BY <1>1
  <2>2. QED
    BY <1>1, <2>1, CutReadBack
<1>5. Parsed(c) = [target |-> LeftOf(target, cut), start |-> None,
                   end |-> IF cut = Len(c) - 1 THEN DayIn(Last(c)) ELSE None]
  <2>1. Len(c) > k /\ \A i \in 1..k : c[i] = target[i]
    BY <1>1, <1>2
  <2>2. QED
    BY <1>2, <2>1, CutReadBack
<1> HIDE DEF cut
<1>6. (cut = Len(w) - 1 <=> cut = k) /\ Last(w) = Stamp(n)
  BY <1>1, <1>4 DEF Last
<1>7. cut # Len(c) - 1
  BY <1>1, <1>2, <1>4
<1>8. QED
  BY <1>3, <1>4, <1>5, <1>6, <1>7 DEF w, c, cut

-----------------------------------------------------------------------------
NameInv == day \in Nat /\ Matches(day, date)

\* On every day of the calendar the names of the files begun and closed on it
\* give back what they were made of, for any target without the word "to" among
\* its later ones; any other is cut short at that word and loses its times
\* (format_epoch_slug, parse_epoch_timestamp, parse_recording_filename).
THEOREM NamesAlwaysReadBack == NameSpec => []NamesReadBack
<1>1. NameInit => NameInv
  BY FirstDay DEF NameInit, NameInv
<1>2. NameInv /\ [NextDay]_nameVars => NameInv'
  <2>1. ASSUME NameInv, NextDay  PROVE NameInv'
    <3>1. Matches(day + 1, Tomorrow(date)) /\ day + 1 \in Nat
      BY <2>1, NextDays DEF NameInv
    <3>2. QED
      BY <2>1, <3>1 DEF NameInv, NextDay
  <2>2. ASSUME NameInv, UNCHANGED nameVars  PROVE NameInv'
    BY <2>2 DEF NameInv, nameVars
  <2>3. QED
    BY <2>1, <2>2
<1>3. NameInv => NamesReadBack
  <2> SUFFICES ASSUME NameInv  PROVE NamesReadBack
    OBVIOUS
  <2>1. Slug(day) = date /\ DayOf(date) = day
    BY BothWays DEF NameInv
  <2>2. DayOf(Slug(day + 1)) = day + 1
    <3>1. Matches(day + 1, Tomorrow(date)) /\ day + 1 \in Nat
      BY NextDays DEF NameInv
    <3>2. QED
      BY <3>1, BothWays
  <2>3. ASSUME NEW target \in Targets, Separators(target) = {}
        PROVE  /\ Parsed(Begun(target, day)) = [target |-> target, start |-> day, end |-> None]
               /\ Parsed(Closed(target, day, day + 1)) = [target |-> target, start |-> day, end |-> day + 1]
    <3>1. Plain(target)
      BY <2>3 DEF Plain
    <3>2. QED
      BY <2>1, <2>2, <3>1, BegunReadBack, ClosedReadBack
  <2>4. ASSUME NEW target \in Targets, Separators(target) # {}
        PROVE  LET cut == FirstOf(Separators(target))  left == LeftOf(target, cut)
               IN  /\ Parsed(Begun(target, day)) = [target |-> left, start |-> None,
                                                    end |-> IF cut = Len(target) THEN day ELSE None]
                   /\ Parsed(Closed(target, day, day + 1)) = [target |-> left, start |-> None, end |-> None]
    BY <2>1, <2>4, CutNames
  <2>5. QED
    BY <2>1, <2>3, <2>4 DEF NamesReadBack, DatesRight
<1>4. QED
  BY <1>1, <1>2, <1>3, PTL DEF NameSpec
=============================================================================
