------------------------- MODULE ForumThread_proofs -------------------------
(***************************************************************************)
(* The replies of a post, for any number of replies, versions and requests.*)
(*                                                                         *)
(* The layout.  Forest says of a sequence that it shows the threads of     *)
(* certain heads, one after the other.  Putting a thread behind such a     *)
(* sequence gives another (ForestJoin), and so does putting a reply in     *)
(* front of the threads of its answers (ForestGrow).  The walk only goes   *)
(* from a reply to younger ones, so it is defined (WalksAre) and lays out  *)
(* threads (WalkIsForest), both by counting down from the youngest.  Below *)
(* an answer there is nothing that is below another (SiblingsApart), and   *)
(* below the replies to the post there is everything (RootsHoldAll).       *)
(*                                                                         *)
(* The provers cannot instantiate an induction theorem with a predicate;   *)
(* here induction is about sets of numbers (NumbersUpward), which follows  *)
(* from the least element of a set, WFMin.                                 *)
(*                                                                         *)
(* The cache.  Whoever is to store what he read holds nothing that a       *)
(* change, since announced, has made wrong.                                *)
(***************************************************************************)
EXTENDS ForumThread, FiniteSetTheorems, TLAPS

(* Induction without a predicate: sets of numbers. *)

\* Any set of numbers that is not empty has a least element.
LEMMA LeastOf ==
    ASSUME NEW T \in SUBSET Nat, T # {}
    PROVE  \E m \in T : \A k \in T : m <= k
  <1>1. IsWellFoundedOn(OpToRel(<, Nat), Nat)
    BY NatLessThanWellFounded
  <1>2. PICK R : R = OpToRel(<, Nat)
    OBVIOUS
  <1>3. PICK m \in T : \A k \in T : <<k, m>> \notin R
    BY <1>1, <1>2, WFMin
  <1>4. \A k \in T : ~(k < m)
    BY <1>2, <1>3 DEF OpToRel
  <1> QED BY <1>4

\* A set with 0, and with the next number of each of its own, has all of them.
LEMMA NumbersUpward ==
    ASSUME NEW S \in SUBSET Nat, 0 \in S, \A n \in S : n + 1 \in S
    PROVE  S = Nat
  <1> SUFFICES ASSUME Nat \ S # {} PROVE FALSE
    OBVIOUS
  <1>1. PICK m \in Nat \ S : \A k \in Nat \ S : m <= k
    BY LeastOf
  <1>2. m - 1 \in S
    BY <1>1
  <1> QED BY <1>1, <1>2

----------------------------------------------------------------------------
(* Sequences put one after the other. *)

\* f[k] is the first k of the sequences in s, one after the other.
SumsTo(f, m, s, X) ==
    /\ f \in [0..m -> Seq(X)] /\ f[0] = <<>>
    /\ \A k \in 1..m : f[k] = f[k - 1] \o s[k]

\* There are such sums.
LEMMA SumsExist ==
    ASSUME NEW X, NEW n \in Nat, NEW s \in [1..n -> Seq(X)]
    PROVE  \E f : SumsTo(f, n, s, X)
  <1> DEFINE S == {m \in Nat : m <= n => \E f : SumsTo(f, m, s, X)}
  <1>1. 0 \in S
    <2>1. SumsTo([k \in 0..0 |-> <<>>], 0, s, X)
      BY DEF SumsTo
    <2> QED BY <2>1
  <1>2. ASSUME NEW m \in S PROVE m + 1 \in S
    <2> SUFFICES ASSUME m + 1 <= n PROVE \E f : SumsTo(f, m + 1, s, X)
      OBVIOUS
    <2>0. m \in Nat /\ m <= n
      OBVIOUS
    <2>1. PICK f : SumsTo(f, m, s, X)
      BY <2>0
    <2>2. PICK last : last = f[m] \o s[m + 1]
      OBVIOUS
    <2> DEFINE g == [k \in 0..(m + 1) |-> IF k <= m THEN f[k] ELSE last]
    <2>3. f[m] \in Seq(X) /\ s[m + 1] \in Seq(X)
      BY <2>0, <2>1 DEF SumsTo
    <2>4. last \in Seq(X)
      BY <2>2, <2>3
    <2>5. g \in [0..(m + 1) -> Seq(X)] /\ g[0] = <<>> /\ g[m + 1] = last
          /\ \A k \in 0..m : g[k] = f[k]
      <3>1. f \in [0..m -> Seq(X)] /\ f[0] = <<>>
        BY <2>1 DEF SumsTo
      <3>2. /\ 0 \in 0..(m + 1) /\ 0 <= m /\ m + 1 \in 0..(m + 1) /\ ~(m + 1 <= m)
            /\ \A k \in 0..m : k \in 0..(m + 1) /\ k <= m
            /\ \A k \in 0..(m + 1) : k <= m => k \in 0..m
        BY <2>0
      <3>3. \A k \in 0..(m + 1) : (IF k <= m THEN f[k] ELSE last) \in Seq(X)
        BY <2>4, <3>1, <3>2
      <3> QED BY <3>1, <3>2, <3>3
    <2> HIDE DEF g
    <2>6. \A k \in 1..(m + 1) : g[k] = g[k - 1] \o s[k]
      <3> TAKE k \in 1..(m + 1)
      <3>1. CASE k = m + 1
        <4>1. k - 1 = m /\ m \in 0..m
          BY <2>0, <3>1
        <4> QED BY <2>2, <2>5, <3>1, <4>1
      <3>2. CASE k <= m
        <4>1. k \in 1..m /\ k - 1 \in 0..m /\ k \in 0..m
          BY <2>0, <3>2
        <4>2. f[k] = f[k - 1] \o s[k]
          BY <2>1, <4>1 DEF SumsTo
        <4> QED BY <2>5, <4>1, <4>2
      <3>3. k = m + 1 \/ k <= m
        BY <2>0
      <3> QED BY <3>1, <3>2, <3>3
    <2>7. SumsTo(g, m + 1, s, X)
      BY <2>5, <2>6 DEF SumsTo
    <2> QED BY <2>7
  <1>3. S \in SUBSET Nat
    OBVIOUS
  <1>4. S = Nat
    <2> HIDE DEF S
    <2> QED BY <1>1, <1>2, <1>3, NumbersUpward
  <1>5. n \in S
    BY <1>4
  <1> QED BY <1>5

\* FlattenSeq is the last of them.
LEMMA FlattenIs ==
    ASSUME NEW X, NEW n \in Nat, NEW s \in [1..n -> Seq(X)]
    PROVE  \E f : SumsTo(f, n, s, X) /\ FlattenSeq(s) = f[n]
  <1>1. Len(s) = n /\ (n = 0 => s = <<>>)
    OBVIOUS
  <1>2. PICK f : SumsTo(f, n, s, X)
    BY SumsExist
  <1>3. /\ f[0] = <<>> /\ f \in [0..n -> Seq(X)]
        /\ \A k \in 1..n : f[k] = f[k - 1] \o s[k]
    BY <1>2 DEF SumsTo
  <1>4. n >= 1 => f[1] = s[1]
    <2> SUFFICES ASSUME n >= 1 PROVE f[1] = s[1]
      OBVIOUS
    <2>1. 1 \in 1..n /\ 1 - 1 = 0 /\ s[1] \in Seq(X)
      OBVIOUS
    <2>2. f[1] = <<>> \o s[1]
      BY <1>3, <2>1
    <2> QED BY <2>1, <2>2
  <1>5. CASE n = 0
    BY <1>1, <1>2, <1>3, <1>5 DEF FlattenSeq
  <1>6. CASE n # 0
    <2> DEFINE Step(h) == [i \in 1..n |-> IF i = 1 THEN s[i] ELSE h[i - 1] \o s[i]]
    <2>1. PICK f0 : f0 = [i \in 1..n |-> f[i]]
      OBVIOUS
    <2>2. \A i \in 1..n : f0[i] = IF i = 1 THEN s[i] ELSE f0[i - 1] \o s[i]
      <3> TAKE i \in 1..n
      <3>1. CASE i = 1
        BY <1>4, <2>1, <3>1
      <3>2. CASE i # 1
        <4>1. i - 1 \in 1..n
          BY <3>2
        <4>2. f0[i] = f[i] /\ f0[i - 1] = f[i - 1]
          BY <2>1, <4>1
        <4> QED BY <1>3, <3>2, <4>2
      <3> QED BY <3>1, <3>2
    <2>3. f0 = Step(f0)
      BY <2>1, <2>2
    <2>4. PICK h : h = Step(h) /\ FlattenSeq(s) = h[n]
      <3>1. FlattenSeq(s) = (CHOOSE h : h = Step(h))[n]
        BY <1>1, <1>6 DEF FlattenSeq
      <3> HIDE DEF Step
      <3> QED BY <2>3, <3>1
    <2>5. \A i \in 1..n : h[i] = IF i = 1 THEN s[i] ELSE h[i - 1] \o s[i]
      BY <2>4
    <2> HIDE DEF Step
    <2> DEFINE E == {m \in Nat : m \in 1..n => h[m] = f[m]}
    <2>6. 0 \in E
      OBVIOUS
    <2>7. ASSUME NEW m \in E PROVE m + 1 \in E
      <3> SUFFICES ASSUME m + 1 \in 1..n PROVE h[m + 1] = f[m + 1]
        OBVIOUS
      <3>1. CASE m = 0
        BY <1>4, <1>6, <2>5, <3>1
      <3>2. CASE m # 0
        <4>1. m \in 1..n /\ (m + 1) - 1 = m /\ m + 1 # 1
          BY <3>2
        <4>2. h[m + 1] = h[m] \o s[m + 1]
          <5>1. PICK k : k = m + 1
            OBVIOUS
          <5> QED BY <2>5, <4>1, <5>1
        <4>3. f[m + 1] = f[m] \o s[m + 1]
          <5>1. PICK k : k = m + 1
            OBVIOUS
          <5> QED BY <1>3, <4>1, <5>1
        <4> QED BY <2>7, <4>1, <4>2, <4>3
      <3> QED BY <3>1, <3>2
    <2>8. n \in E
      <3>1. E \in SUBSET Nat
        OBVIOUS
      <3> HIDE DEF E
      <3> QED BY <2>6, <2>7, <3>1, NumbersUpward
    <2>9. h[n] = f[n]
      BY <1>6, <2>8
    <2> QED BY <1>2, <2>4, <2>9
  <1> QED BY <1>5, <1>6

----------------------------------------------------------------------------
(* The order of replies. *)

\* How many of S are older.
SmallerIn(S, i) == Cardinality({j \in S : j < i})

\* The older a reply, the lower its rank; ranks go from 0 to the number of S less one.
LEMMA Ranks ==
    ASSUME NEW S \in SUBSET Replies
    PROVE  /\ IsFiniteSet(S) /\ Cardinality(S) \in Nat
           /\ \A i \in S : SmallerIn(S, i) \in 0..(Cardinality(S) - 1)
           /\ \A i, j \in S : i < j => SmallerIn(S, i) < SmallerIn(S, j)
           /\ \A k \in 0..(Cardinality(S) - 1) : \E i \in S : SmallerIn(S, i) = k
  <1> DEFINE n == Cardinality(S)
             U(i) == {j \in S : j < i}
  <1>0. S \subseteq Int
    BY DEF Replies
  <1>1. IsFiniteSet(S) /\ n \in Nat
    <2>1. IsFiniteSet(Replies)
      BY FS_Interval, DetailAssumption DEF Replies
    <2> QED BY <2>1, FS_Subset, FS_CardinalityType
  <1>2. \A i \in S : /\ IsFiniteSet(U(i)) /\ SmallerIn(S, i) \in Nat
                     /\ IsFiniteSet(U(i) \cup {i})
                     /\ Cardinality(U(i) \cup {i}) = SmallerIn(S, i) + 1
    <2> TAKE i \in S
    <2>1. U(i) \in SUBSET S /\ i \notin U(i)
      BY <1>0
    <2>2. IsFiniteSet(U(i)) /\ Cardinality(U(i)) \in Nat
      <3> HIDE DEF U
      <3> QED BY <1>1, <2>1, FS_Subset, FS_CardinalityType
    <2>3. IsFiniteSet(U(i) \cup {i}) /\ Cardinality(U(i) \cup {i}) = Cardinality(U(i)) + 1
      <3> HIDE DEF U
      <3> QED BY <2>1, <2>2, FS_AddElement
    <2> QED BY <2>2, <2>3 DEF SmallerIn
  <1>3. ASSUME NEW i \in S PROVE SmallerIn(S, i) \in 0..(n - 1)
    <2>1. U(i) \cup {i} \in SUBSET S
      OBVIOUS
    <2>2. Cardinality(U(i) \cup {i}) <= n
      <3> HIDE DEF U, n
      <3>1. Cardinality(U(i) \cup {i}) <= Cardinality(S)
        BY <1>1, <2>1, FS_Subset
      <3> QED BY <3>1 DEF n
    <2> HIDE DEF U, n
    <2>3. PICK r \in Nat : r = SmallerIn(S, i)
      BY <1>2
    <2>4. r + 1 <= n
      BY <1>2, <2>2, <2>3
    <2>5. r \in 0..(n - 1)
      BY <1>1, <2>4
    <2> QED BY <2>3, <2>5
  <1>4. ASSUME NEW i \in S, NEW j \in S, i < j PROVE SmallerIn(S, i) < SmallerIn(S, j)
    <2>1. U(i) \cup {i} \in SUBSET U(j)
      <3>1. ASSUME NEW m \in U(i) \cup {i} PROVE m \in S /\ m < j
        <4>1. m \in S /\ (m < i \/ m = i)
          BY <3>1
        <4>2. m \in Int /\ i \in Int /\ j \in Int
          BY <1>0, <4>1
        <4> HIDE DEF U
        <4> QED BY <1>4, <4>1, <4>2
      <3> QED BY <3>1
    <2>2. Cardinality(U(i) \cup {i}) <= Cardinality(U(j))
      <3> HIDE DEF U
      <3> QED BY <1>2, <2>1, FS_Subset
    <2>3. Cardinality(U(j)) = SmallerIn(S, j)
      BY DEF SmallerIn
    <2>4. Cardinality(U(i) \cup {i}) = SmallerIn(S, i) + 1 /\ SmallerIn(S, i) \in Nat /\ SmallerIn(S, j) \in Nat
      BY <1>2
    <2>5. SmallerIn(S, i) + 1 <= SmallerIn(S, j)
      <3> HIDE DEF U
      <3> QED BY <2>2, <2>3, <2>4
    <2> HIDE DEF U
    <2> QED BY <2>4, <2>5
  <1>5. ASSUME NEW k \in 0..(n - 1) PROVE \E i \in S : SmallerIn(S, i) = k
    <2> DEFINE f == [i \in S |-> SmallerIn(S, i)]
    <2>1. f \in [S -> 0..(n - 1)]
      BY <1>3
    <2>2. \A i, j \in S : f[i] = f[j] => i = j
      <3> SUFFICES ASSUME NEW i \in S, NEW j \in S, SmallerIn(S, i) = SmallerIn(S, j), i # j PROVE FALSE
        OBVIOUS
      <3>1. i < j \/ j < i
        BY <1>0
      <3>2. SmallerIn(S, i) \in Nat /\ SmallerIn(S, j) \in Nat
        BY <1>2
      <3> HIDE DEF n, U
      <3> QED BY <1>4, <3>1, <3>2
    <2>3. f \in Injection(S, 0..(n - 1))
      BY <2>1, <2>2 DEF Injection, IsInjective
    <2>4. IsFiniteSet(0..(n - 1)) /\ Cardinality(0..(n - 1)) = n
      <3>1. 0 \in Int /\ n - 1 \in Int
        BY <1>1
      <3>2. IsFiniteSet(0..(n - 1))
            /\ Cardinality(0..(n - 1)) = IF 0 > n - 1 THEN 0 ELSE (n - 1) - 0 + 1
        <4> HIDE DEF n
        <4> QED BY <3>1, FS_Interval
      <3> HIDE DEF n
      <3> QED BY <1>1, <3>2
    <2>5. f \in Surjection(S, 0..(n - 1))
      <3> HIDE DEF f
      <3> QED BY <2>3, <2>4, FS_Injection
    <2>6. \E i \in S : f[i] = k
      BY <2>5 DEF Surjection
    <2> QED BY <2>6
  <1> QED BY <1>1, <1>3, <1>4, <1>5

\* Older lists a set once, the oldest first.
LEMMA OlderIs ==
    ASSUME NEW S \in SUBSET Replies
    PROVE  /\ Older(S) \in Seq(S)
           /\ Older(S) \in [1..Cardinality(S) -> S]
           /\ Len(Older(S)) = Cardinality(S) /\ DOMAIN Older(S) = 1..Cardinality(S)
           /\ Cardinality(S) \in Nat
           /\ \A i \in S : \E k \in 1..Cardinality(S) : Older(S)[k] = i
           /\ \A k, l \in 1..Cardinality(S) : k < l => Older(S)[k] < Older(S)[l]
  <1>1. PICK n \in Nat : n = Cardinality(S)
    BY Ranks
  <1>2. PICK o : o = Older(S)
    OBVIOUS
  <1>3. o = [k \in 1..n |-> CHOOSE i \in S : SmallerIn(S, i) = k - 1]
    BY <1>1, <1>2 DEF Older, SmallerIn
  <1>4. \A k \in 1..n : o[k] \in S /\ SmallerIn(S, o[k]) = k - 1
    <2> TAKE k \in 1..n
    <2>1. k - 1 \in 0..(n - 1)
      OBVIOUS
    <2>2. \E i \in S : SmallerIn(S, i) = k - 1
      BY <1>1, <2>1, Ranks
    <2> QED BY <1>3, <2>2
  <1>5. o \in [1..n -> S] /\ o \in Seq(S) /\ Len(o) = n
    BY <1>3, <1>4
  <1>6. S \subseteq Int
    BY DEF Replies
  <1>7. \A i, j \in S : ~(i < j) => SmallerIn(S, i) >= SmallerIn(S, j)
    <2> TAKE i, j \in S
    <2>1. SmallerIn(S, i) \in Int /\ SmallerIn(S, j) \in Int
      BY <1>1, Ranks
    <2>2. i = j \/ j < i \/ i < j
      BY <1>6
    <2> QED BY <2>1, <2>2, Ranks
  <1>8. \A k, l \in 1..n : k < l => o[k] < o[l]
    <2> TAKE k, l \in 1..n
    <2>1. o[k] \in S /\ o[l] \in S /\ SmallerIn(S, o[k]) = k - 1 /\ SmallerIn(S, o[l]) = l - 1
      BY <1>4
    <2> QED BY <1>7, <2>1
  <1>9. \A i \in S : \E k \in 1..n : o[k] = i
    <2> TAKE i \in S
    <2>1. PICK r \in 0..(n - 1) : r = SmallerIn(S, i)
      BY <1>1, Ranks
    <2>2. r + 1 \in 1..n /\ (r + 1) - 1 = r
      BY <2>1
    <2>3. o[r + 1] \in S /\ SmallerIn(S, o[r + 1]) = r
      BY <1>4, <2>2
    <2>4. ~(o[r + 1] < i) /\ ~(i < o[r + 1])
      <3>1. ~(r < r)
        BY <2>1
      <3> QED BY <2>1, <2>3, <3>1, Ranks
    <2>5. o[r + 1] = i
      <3>1. o[r + 1] \in Int /\ i \in Int
        BY <1>6, <2>3
      <3> QED BY <2>4, <3>1
    <2> QED BY <2>2, <2>5
  <1> QED BY <1>1, <1>2, <1>5, <1>8, <1>9

\* Newer lists a set once, the newest first.
LEMMA NewerIs ==
    ASSUME NEW S \in SUBSET Replies
    PROVE  /\ Newer(S) \in [1..Cardinality(S) -> S]
           /\ DOMAIN Newer(S) = 1..Cardinality(S) /\ Cardinality(S) \in Nat
           /\ \A i \in S : \E k \in 1..Cardinality(S) : Newer(S)[k] = i
           /\ \A k, l \in 1..Cardinality(S) : k < l => Newer(S)[k] > Newer(S)[l]
  <1>1. PICK n \in Nat : n = Cardinality(S)
    BY OlderIs
  <1>2. PICK o : o = Older(S)
    OBVIOUS
  <1>3. /\ o \in [1..n -> S] /\ Len(o) = n
        /\ \A i \in S : \E k \in 1..n : o[k] = i
        /\ \A k, l \in 1..n : k < l => o[k] < o[l]
    BY <1>1, <1>2, OlderIs
  <1>4. PICK r : r = Newer(S)
    OBVIOUS
  <1>5. r = [k \in 1..n |-> o[(n - k) + 1]]
    BY <1>2, <1>3, <1>4 DEF Newer, Reverse
  <1>6. S \subseteq Int
    BY DEF Replies
  <1>7. r \in [1..n -> S] /\ \A k \in 1..n : (n - k) + 1 \in 1..n /\ r[k] = o[(n - k) + 1]
    BY <1>3, <1>5
  <1>8. \A i \in S : \E k \in 1..n : r[k] = i
    <2> TAKE i \in S
    <2>1. PICK k \in 1..n : o[k] = i
      BY <1>3
    <2>2. PICK l : l = (n - k) + 1
      OBVIOUS
    <2>3. l \in 1..n /\ (n - l) + 1 = k
      BY <2>2
    <2>4. r[l] = i
      BY <1>7, <2>1, <2>3
    <2> QED BY <2>3, <2>4
  <1>9. \A k, l \in 1..n : k < l => r[k] > r[l]
    <2> SUFFICES ASSUME NEW k \in 1..n, NEW l \in 1..n, k < l PROVE r[k] > r[l]
      OBVIOUS
    <2>1. PICK a \in 1..n : a = (n - k) + 1
      BY <1>7
    <2>2. PICK b \in 1..n : b = (n - l) + 1
      BY <1>7
    <2>3. b < a
      BY <2>1, <2>2
    <2>4. o[b] < o[a] /\ o[a] \in S /\ o[b] \in S
      BY <1>3, <2>3
    <2> QED BY <1>6, <1>7, <2>1, <2>2, <2>4
  <1> QED BY <1>1, <1>4, <1>7, <1>8, <1>9
----------------------------------------------------------------------------
(* What hangs from a reply. *)

\* The rows are replies, and each was written after what it answers.
Grown(rows) == rows \subseteq Replies /\ \A j \in rows : parent[j] \in Nat /\ parent[j] < j

\* Replies are numbers.
LEMMA RowsAreNumbers == ASSUME NEW rows, Grown(rows) PROVE rows \subseteq Nat
  <1>1. Replies \subseteq Nat
    BY DetailAssumption DEF Replies
  <1> QED BY <1>1 DEF Grown

\* A set of rows that has whatever answers one of its own.
Closed(rows, S) == \A j \in rows : parent[j] \in S => j \in S

\* A reply, what answers it, and so on.
Below(rows, i) == {j \in rows : \A S \in SUBSET rows : i \in S /\ Closed(rows, S) => j \in S}

\* The set is the smallest one, and each of it but the first answers one of it.
LEMMA BelowIs ==
    ASSUME NEW rows, NEW i \in rows
    PROVE  /\ Below(rows, i) \subseteq rows /\ i \in Below(rows, i)
           /\ Closed(rows, Below(rows, i))
           /\ \A S \in SUBSET rows : i \in S /\ Closed(rows, S) => Below(rows, i) \subseteq S
           /\ \A j \in Below(rows, i) : j = i \/ parent[j] \in Below(rows, i)
  <1>1. /\ Below(rows, i) \subseteq rows /\ i \in Below(rows, i)
        /\ \A S \in SUBSET rows : i \in S /\ Closed(rows, S) => Below(rows, i) \subseteq S
    BY DEF Below
  <1>2. Closed(rows, Below(rows, i))
    BY DEF Below, Closed
  <1>3. ASSUME NEW j \in Below(rows, i), j # i, parent[j] \notin Below(rows, i) PROVE FALSE
    <2>1. PICK S : S = Below(rows, i) \ {j}
      OBVIOUS
    <2>2. S \in SUBSET rows /\ i \in S
      BY <1>1, <1>3, <2>1
    <2>3. Closed(rows, S)
      BY <1>2, <1>3, <2>1 DEF Closed
    <2> QED BY <1>1, <2>1, <2>2, <2>3
  <1> QED BY <1>1, <1>2, <1>3

\* Whatever hangs from a reply is younger.
LEMMA BelowIsYounger ==
    ASSUME NEW rows, Grown(rows), NEW i \in rows
    PROVE  \A j \in Below(rows, i) : j >= i
  <1>0. rows \subseteq Int
    BY DEF Grown, Replies
  <1>1. PICK S : S = {j \in rows : j >= i}
    OBVIOUS
  <1>2. S \in SUBSET rows /\ i \in S
    BY <1>0, <1>1
  <1>3. Closed(rows, S)
    <2> SUFFICES ASSUME NEW j \in rows, parent[j] \in S PROVE j >= i
      BY <1>1 DEF Closed
    <2>1. parent[j] >= i /\ parent[j] < j /\ parent[j] \in Nat /\ j \in Int /\ i \in Int
      BY <1>0, <1>1 DEF Grown
    <2> QED BY <2>1
  <1> QED BY <1>1, <1>2, <1>3, BelowIs

\* A reply is followed by what hangs from its answers.
LEMMA BelowAnswers ==
    ASSUME NEW rows, NEW i \in rows
    PROVE  Below(rows, i) = {i} \cup UNION {Below(rows, c) : c \in {j \in rows : parent[j] = i}}
  <1> DEFINE C == {j \in rows : parent[j] = i}
             B == {i} \cup UNION {Below(rows, c) : c \in C}
  <1>1. B \in SUBSET rows /\ i \in B
    BY BelowIs
  <1>2. Closed(rows, B)
    <2> SUFFICES ASSUME NEW j \in rows, parent[j] \in B PROVE j \in B
      BY DEF Closed
    <2>1. CASE parent[j] = i
      BY <2>1, BelowIs
    <2>2. CASE parent[j] # i
      <3>1. PICK c \in C : parent[j] \in Below(rows, c)
        BY <2>2
      <3>2. j \in Below(rows, c)
        BY <3>1, BelowIs DEF Closed
      <3> QED BY <3>2
    <2> QED BY <2>1, <2>2
  <1>3. Below(rows, i) \subseteq B
    <2> HIDE DEF B
    <2> QED BY <1>1, <1>2, BelowIs
  <1>4. ASSUME NEW c \in C PROVE Below(rows, c) \subseteq Below(rows, i)
    <2>1. c \in Below(rows, i) /\ Closed(rows, Below(rows, i)) /\ Below(rows, i) \in SUBSET rows
      BY BelowIs DEF Closed
    <2> QED BY <2>1, BelowIs
  <1>5. B \subseteq Below(rows, i)
    BY <1>4, BelowIs
  <1> QED BY <1>3, <1>5

\* Nothing hangs from two replies if neither hangs from the other.
LEMMA BelowApart ==
    ASSUME NEW rows, NEW a \in rows, NEW b \in rows,
           a \notin Below(rows, b), b \notin Below(rows, a)
    PROVE  Below(rows, a) \cap Below(rows, b) = {}
  <1>1. PICK S : S = Below(rows, a) \ Below(rows, b)
    OBVIOUS
  <1>2. S \in SUBSET rows /\ a \in S
    BY <1>1, BelowIs
  <1>3. Closed(rows, S)
    <2> SUFFICES ASSUME NEW j \in rows, parent[j] \in S PROVE j \in S
      BY DEF Closed
    <2>1. j \in Below(rows, a)
      BY <1>1, BelowIs DEF Closed
    <2>2. j \in Below(rows, b) => j = b \/ parent[j] \in Below(rows, b)
      BY BelowIs
    <2> QED BY <1>1, <2>1, <2>2
  <1>4. Below(rows, a) \subseteq S
    BY <1>2, <1>3, BelowIs
  <1> QED BY <1>1, <1>4

\* Two replies to the post, or two answers to one reply, have nothing below them in common.
LEMMA SiblingsApart ==
    ASSUME NEW rows, Grown(rows), NEW a \in rows, NEW b \in rows, a # b,
           parent[a] = parent[b] \/ (a \in Roots(rows) /\ b \in Roots(rows))
    PROVE  Below(rows, a) \cap Below(rows, b) = {}
  <1>1. ASSUME NEW x \in rows, NEW y \in rows, x # y, x \in Below(rows, y),
               parent[x] = parent[y] \/ x \in Roots(rows)
        PROVE  FALSE
    <2>1. parent[x] \in Below(rows, y) /\ parent[x] \in rows
      BY <1>1, BelowIs
    <2>2. parent[x] = parent[y]
      BY <1>1, <2>1 DEF Roots
    <2>3. parent[y] < y /\ parent[y] \in Nat /\ y \in Nat
      BY RowsAreNumbers DEF Grown
    <2>4. parent[y] >= y
      BY <2>1, <2>2, BelowIsYounger
    <2> QED BY <2>3, <2>4
  <1>2. a \notin Below(rows, b) /\ b \notin Below(rows, a)
    BY <1>1
  <1> QED BY <1>2, BelowApart

\* Every row hangs from a reply to the post.
LEMMA RootsHoldAll ==
    ASSUME NEW rows, Grown(rows)
    PROVE  rows = UNION {Below(rows, r) : r \in Roots(rows)}
  <1> DEFINE B == UNION {Below(rows, r) : r \in Roots(rows)}
  <1>1. B \subseteq rows
    BY BelowIs DEF Roots
  <1> SUFFICES ASSUME rows \ B # {} PROVE FALSE
    BY <1>1
  <1>2. rows \subseteq Nat /\ rows \ B \in SUBSET Nat
    <2> HIDE DEF B
    <2> QED BY RowsAreNumbers
  <1>3. PICK j \in rows \ B : \A k \in rows \ B : j <= k
    <2> HIDE DEF B
    <2> QED BY <1>2, LeastOf
  <1>4. j \in Roots(rows) => j \in Below(rows, j)
    BY BelowIs
  <1>5. parent[j] \in rows
    BY <1>3, <1>4 DEF Roots
  <1>6. parent[j] < j /\ parent[j] \in Nat /\ j \in Nat
    BY <1>2 DEF Grown
  <1>7. parent[j] \in B
    <2> HIDE DEF B
    <2> QED BY <1>3, <1>5, <1>6
  <1>8. PICK r \in Roots(rows) : parent[j] \in Below(rows, r)
    BY <1>7
  <1>9. r \in rows
    BY DEF Roots
  <1>10. j \in Below(rows, r)
    BY <1>8, <1>9, BelowIs DEF Closed
  <1> QED BY <1>3, <1>8, <1>10
----------------------------------------------------------------------------
(* Threads laid out one after the other. *)

Entry(rows) == [id: rows, depth: Nat]

\* A first reply comes after those it should.
InTurn(s, heads, m, d, k) ==
    \E l \in 1..m : /\ s[k].id = heads[l]
                    /\ \A j \in 1..(k - 1) : s[j].depth = d => \E a \in 1..(l - 1) : s[j].id = heads[a]

\* An answer comes below what it answers and below the older answers to it.
HasItsParent(s, k) ==
    /\ \E j \in 1..(k - 1) : /\ s[j].depth < s[k].depth /\ s[j].id = parent[s[k].id]
                             /\ \A i \in 1..(k - 1) : i > j => s[i].depth >= s[k].depth
    /\ \A j \in 1..(k - 1) : parent[s[j].id] = parent[s[k].id] => s[j].id < s[k].id

\* The threads of the first m heads, with the heads at depth d.
Forest(rows, s, heads, m, d) ==
    /\ s \in Seq(Entry(rows))
    /\ \A i : (\E k \in 1..Len(s) : s[k].id = i) <=> (\E l \in 1..m : i \in Below(rows, heads[l]))
    /\ \A j, k \in 1..Len(s) : s[j].id = s[k].id => j = k
    /\ \A k \in 1..Len(s) : \/ s[k].depth = d /\ InTurn(s, heads, m, d, k)
                            \/ s[k].depth > d /\ HasItsParent(s, k)

\* What a sequence of a given length has to be.
LEMMA ForestIs ==
    ASSUME NEW rows, NEW heads, NEW m, NEW d, NEW n, NEW s \in Seq(Entry(rows)), Len(s) = n,
           \A i : (\E k \in 1..n : s[k].id = i) <=> (\E l \in 1..m : i \in Below(rows, heads[l])),
           \A j, k \in 1..n : s[j].id = s[k].id => j = k,
           \A k \in 1..n : \/ s[k].depth = d /\ InTurn(s, heads, m, d, k)
                           \/ s[k].depth > d /\ HasItsParent(s, k)
    PROVE  Forest(rows, s, heads, m, d)
  BY DEF Forest

\* A thread more.
LEMMA ForestJoin ==
    ASSUME NEW rows, Grown(rows), NEW d \in Nat, NEW m \in Nat, NEW heads,
           \A l \in 1..(m + 1) : heads[l] \in rows,
           NEW s, Forest(rows, s, heads, m, d),
           NEW t, NEW one, one[1] = heads[m + 1], Forest(rows, t, one, 1, d),
           \A l \in 1..m : Below(rows, heads[l]) \cap Below(rows, heads[m + 1]) = {}
    PROVE  Forest(rows, s \o t, heads, m + 1, d)
  <1>1. PICK p \in Nat : p = Len(s)
    BY DEF Forest
  <1>2. PICK q \in Nat : q = Len(t)
    BY DEF Forest
  <1>3. PICK u : u = s \o t
    OBVIOUS
  <1>4. PICK c \in rows : c = heads[m + 1]
    OBVIOUS
  <1>5. s \in Seq(Entry(rows)) /\ t \in Seq(Entry(rows))
    BY DEF Forest
  <1>6. /\ u \in Seq(Entry(rows)) /\ Len(u) = p + q
        /\ \A k \in 1..p : u[k] = s[k]
        /\ \A k \in 1..q : u[p + k] = t[k]
        /\ \A k \in 1..(p + q) : k \in 1..p \/ \E a \in 1..q : k = p + a
    <2>1. u \in Seq(Entry(rows)) /\ Len(u) = p + q
      BY <1>1, <1>2, <1>3, <1>5
    <2>2. \A k \in 1..p : u[k] = s[k]
      BY <1>1, <1>2, <1>3, <1>5
    <2>3. ASSUME NEW k \in 1..q PROVE u[p + k] = t[k]
      <3>1. PICK i : i = p + k
        OBVIOUS
      <3>2. i \in 1..(p + q) /\ ~(i <= p) /\ i - p = k
        BY <3>1
      <3>3. u[i] = t[i - p]
        BY <1>1, <1>2, <1>3, <1>5, <3>2
      <3> QED BY <3>1, <3>2, <3>3
    <2>4. ASSUME NEW k \in 1..(p + q), k \notin 1..p PROVE \E a \in 1..q : k = p + a
      <3>1. k - p \in 1..q /\ k = p + (k - p)
        BY <2>4
      <3> QED BY <3>1
    <2> QED BY <2>1, <2>2, <2>3, <2>4
  <1>7. \A k \in 1..p : s[k] \in Entry(rows)
    BY <1>1, <1>5
  <1>8. \A k \in 1..q : t[k] \in Entry(rows)
    BY <1>2, <1>5
  <1>9. \A i : (\E k \in 1..p : s[k].id = i) <=> (\E l \in 1..m : i \in Below(rows, heads[l]))
    BY <1>1 DEF Forest
  <1>10. \A i : (\E k \in 1..q : t[k].id = i) <=> i \in Below(rows, c)
    BY <1>2, <1>4 DEF Forest
  <1>11. \A k \in 1..p, j \in 1..q : s[k].id \notin Below(rows, c) /\ s[k].id # t[j].id
    <2> TAKE k \in 1..p, j \in 1..q
    <2>1. PICK l \in 1..m : s[k].id \in Below(rows, heads[l])
      BY <1>9
    <2>2. s[k].id \notin Below(rows, c)
      BY <1>4, <2>1
    <2> QED BY <1>10, <2>2
  <1>12. \A i : (\E k \in 1..(p + q) : u[k].id = i) <=> (\E l \in 1..(m + 1) : i \in Below(rows, heads[l]))
    <2> TAKE i
    <2>1. (\E k \in 1..(p + q) : u[k].id = i) <=> (\E k \in 1..p : s[k].id = i) \/ (\E k \in 1..q : t[k].id = i)
      <3>1. \A k \in 1..p : k \in 1..(p + q)
        OBVIOUS
      <3>2. \A k \in 1..q : p + k \in 1..(p + q)
        OBVIOUS
      <3>3. ASSUME NEW k \in 1..(p + q), u[k].id = i
            PROVE  (\E a \in 1..p : s[a].id = i) \/ (\E a \in 1..q : t[a].id = i)
        <4>1. CASE k \in 1..p
          BY <1>6, <3>3, <4>1
        <4>2. CASE k \notin 1..p
          <5>1. PICK a \in 1..q : k = p + a
            BY <1>6, <4>2
          <5> QED BY <1>6, <3>3, <5>1
        <4> QED BY <4>1, <4>2
      <3>4. ASSUME NEW a \in 1..p, s[a].id = i PROVE \E k \in 1..(p + q) : u[k].id = i
        BY <1>6, <3>1, <3>4
      <3>5. ASSUME NEW a \in 1..q, t[a].id = i PROVE \E k \in 1..(p + q) : u[k].id = i
        BY <1>6, <3>2, <3>5
      <3> QED BY <3>3, <3>4, <3>5
    <2>2. (\E l \in 1..(m + 1) : i \in Below(rows, heads[l]))
             <=> (\E l \in 1..m : i \in Below(rows, heads[l])) \/ i \in Below(rows, c)
      <3>1. \A l \in 1..(m + 1) : l \in 1..m \/ l = m + 1
        OBVIOUS
      <3>2. m + 1 \in 1..(m + 1) /\ \A l \in 1..m : l \in 1..(m + 1)
        OBVIOUS
      <3> QED BY <1>4, <3>1, <3>2
    <2> QED BY <1>9, <1>10, <2>1, <2>2
  <1>13. ASSUME NEW j \in 1..(p + q), NEW k \in 1..(p + q), u[j].id = u[k].id PROVE j = k
    <2>1. CASE j \in 1..p /\ k \in 1..p
      BY <1>1, <1>6, <1>13, <2>1 DEF Forest
    <2>2. CASE j \in 1..p /\ k \notin 1..p
      <3>1. PICK b \in 1..q : k = p + b
        BY <1>6, <2>2
      <3>2. u[j] = s[j] /\ u[k] = t[b]
        BY <1>6, <2>2, <3>1
      <3> QED BY <1>11, <1>13, <2>2, <3>2
    <2>3. CASE j \notin 1..p /\ k \in 1..p
      <3>1. PICK b \in 1..q : j = p + b
        BY <1>6, <2>3
      <3>2. u[k] = s[k] /\ u[j] = t[b]
        BY <1>6, <2>3, <3>1
      <3> QED BY <1>11, <1>13, <2>3, <3>2
    <2>4. CASE j \notin 1..p /\ k \notin 1..p
      <3>1. PICK a \in 1..q : j = p + a
        BY <1>6, <2>4
      <3>2. PICK b \in 1..q : k = p + b
        BY <1>6, <2>4
      <3>3. t[a].id = t[b].id
        BY <1>6, <1>13, <3>1, <3>2
      <3>4. a = b
        BY <1>2, <3>3 DEF Forest
      <3> QED BY <3>1, <3>2, <3>4
    <2> QED BY <2>1, <2>2, <2>3, <2>4
  <1>14. ASSUME NEW k \in 1..p
         PROVE  \/ u[k].depth = d /\ InTurn(u, heads, m + 1, d, k)
                \/ u[k].depth > d /\ HasItsParent(u, k)
    <2>1. u[k] = s[k] /\ \A j \in 1..(k - 1) : j \in 1..p /\ u[j] = s[j]
      BY <1>6
    <2>2. CASE s[k].depth = d /\ InTurn(s, heads, m, d, k)
      <3>1. \A l \in 1..m : l \in 1..(m + 1)
        OBVIOUS
      <3> QED BY <2>1, <2>2, <3>1 DEF InTurn
    <2>3. CASE s[k].depth > d /\ HasItsParent(s, k)
      BY <2>1, <2>3 DEF HasItsParent
    <2> QED BY <1>1, <2>2, <2>3 DEF Forest
  <1>15. ASSUME NEW b \in 1..q
         PROVE  \/ u[p + b].depth = d /\ InTurn(u, heads, m + 1, d, p + b)
                \/ u[p + b].depth > d /\ HasItsParent(u, p + b)
    <2>1. u[p + b] = t[b] /\ p + b \in 1..(p + q)
      BY <1>6
    <2>2. \A j \in 1..((p + b) - 1) : j \in 1..p \/ \E a \in 1..(b - 1) : j = p + a
      <3> TAKE j \in 1..((p + b) - 1)
      <3>1. j \notin 1..p => j - p \in 1..(b - 1) /\ j = p + (j - p)
        OBVIOUS
      <3> QED BY <3>1
    <2>3. \A a \in 1..(b - 1) : a \in 1..q /\ p + a \in 1..((p + b) - 1) /\ u[p + a] = t[a]
      BY <1>6
    <2>4. CASE t[b].depth = d /\ InTurn(t, one, 1, d, b)
      <3>1. t[b].id = c /\ \A a \in 1..(b - 1) : t[a].depth # d
        <4>1. PICK l \in 1..1 : /\ t[b].id = one[l]
                                /\ \A j \in 1..(b - 1) : t[j].depth = d => \E a \in 1..(l - 1) : t[j].id = one[a]
          BY <2>4 DEF InTurn
        <4>2. l = 1 /\ 1..(l - 1) = {}
          OBVIOUS
        <4> QED BY <1>4, <4>1, <4>2
      <3>2. ASSUME NEW j \in 1..((p + b) - 1), u[j].depth = d
            PROVE  \E a \in 1..m : u[j].id = heads[a]
        <4>1. j \in 1..p
          BY <2>2, <2>3, <3>1, <3>2
        <4>2. s[j].depth = d /\ u[j] = s[j]
          BY <1>6, <3>2, <4>1
        <4>3. InTurn(s, heads, m, d, j)
          BY <1>1, <4>1, <4>2 DEF Forest
        <4> QED BY <4>2, <4>3 DEF InTurn
      <3>3. (m + 1) - 1 = m /\ m + 1 \in 1..(m + 1)
        OBVIOUS
      <3>4. PICK l \in 1..(m + 1) : l = m + 1
        OBVIOUS
      <3>5. l - 1 = m /\ heads[l] = c
        BY <1>4, <3>4
      <3>6. InTurn(u, heads, m + 1, d, p + b)
        BY <2>1, <3>1, <3>2, <3>4, <3>5 DEF InTurn
      <3> QED BY <2>1, <2>4, <3>6
    <2>5. CASE t[b].depth > d /\ HasItsParent(t, b)
      <3>1. PICK a \in 1..(b - 1) : /\ t[a].depth < t[b].depth /\ t[a].id = parent[t[b].id]
                                    /\ \A i \in 1..(b - 1) : i > a => t[i].depth >= t[b].depth
        BY <2>5 DEF HasItsParent
      <3>2. PICK g : g = p + b
        OBVIOUS
      <3>3. PICK j : j = p + a
        OBVIOUS
      <3>4. j \in 1..(g - 1) /\ u[j] = t[a] /\ u[g] = t[b]
        BY <2>1, <2>3, <3>2, <3>3
      <3>5. ASSUME NEW i \in 1..(g - 1), i > j PROVE u[i].depth >= u[g].depth
        <4>1. i \notin 1..p
          BY <3>3, <3>5
        <4>2. PICK e \in 1..(b - 1) : i = p + e
          BY <2>2, <3>2, <4>1
        <4>3. e > a
          BY <3>3, <3>5, <4>2
        <4> QED BY <2>3, <3>1, <3>4, <4>2, <4>3
      <3>6. ASSUME NEW i \in 1..(g - 1), parent[u[i].id] = parent[u[g].id] PROVE u[i].id < u[g].id
        <4>1. CASE i \in 1..p
          <5>1. t[a].id \in Below(rows, c) /\ parent[s[i].id] = t[a].id /\ s[i].id \in rows
            BY <1>6, <1>7, <1>10, <2>3, <3>1, <3>4, <3>6, <4>1 DEF Entry
          <5>2. s[i].id \in Below(rows, c)
            BY <5>1, BelowIs DEF Closed
          <5> QED BY <1>11, <2>3, <4>1, <5>2
        <4>2. CASE i \notin 1..p
          <5>1. PICK e \in 1..(b - 1) : i = p + e
            BY <2>2, <3>2, <4>2
          <5>2. u[i] = t[e]
            BY <2>3, <5>1
          <5> QED BY <2>5, <3>4, <3>6, <5>1, <5>2 DEF HasItsParent
        <4> QED BY <4>1, <4>2
      <3>7. HasItsParent(u, g)
        BY <3>1, <3>4, <3>5, <3>6 DEF HasItsParent
      <3> QED BY <2>1, <2>5, <3>2, <3>7
    <2> QED BY <1>2, <2>4, <2>5 DEF Forest
  <1>16. ASSUME NEW k \in 1..(p + q)
         PROVE  \/ u[k].depth = d /\ InTurn(u, heads, m + 1, d, k)
                \/ u[k].depth > d /\ HasItsParent(u, k)
    BY <1>6, <1>14, <1>15
  <1>17. Forest(rows, u, heads, m + 1, d)
    BY <1>6, <1>12, <1>13, <1>16, ForestIs
  <1> QED BY <1>3, <1>17

\* Threads one after the other.
LEMMA ForestFlatten ==
    ASSUME NEW rows, Grown(rows), NEW d \in Nat, NEW n \in Nat, NEW heads,
           \A l \in 1..n : heads[l] \in rows,
           \A l, k \in 1..n : l # k => Below(rows, heads[l]) \cap Below(rows, heads[k]) = {},
           NEW w, w = [l \in 1..n |-> w[l]],
           \A l \in 1..n : Forest(rows, w[l], <<heads[l]>>, 1, d)
    PROVE  Forest(rows, FlattenSeq(w), heads, n, d)
  <1>1. w \in [1..n -> Seq(Entry(rows))]
    BY DEF Forest
  <1>2. PICK f : SumsTo(f, n, w, Entry(rows)) /\ FlattenSeq(w) = f[n]
    BY <1>1, FlattenIs
  <1> DEFINE S == {m \in Nat : m <= n => Forest(rows, f[m], heads, m, d)}
  <1>3. 0 \in S
    <2>1. f[0] = <<>> /\ Len(<<>>) = 0 /\ <<>> \in Seq(Entry(rows))
      BY <1>2 DEF SumsTo
    <2>2. Forest(rows, f[0], heads, 0, d)
      BY <2>1 DEF Forest
    <2> QED BY <2>2
  <1>4. ASSUME NEW m \in S PROVE m + 1 \in S
    <2> SUFFICES ASSUME m + 1 <= n PROVE Forest(rows, f[m + 1], heads, m + 1, d)
      OBVIOUS
    <2>0. m \in Nat /\ m + 1 \in 1..n
      OBVIOUS
    <2>1. Forest(rows, f[m], heads, m, d)
      BY <2>0
    <2>2. f[m + 1] = f[m] \o w[m + 1]
      <3>1. PICK k \in 1..n : k = m + 1
        BY <2>0
      <3>2. k - 1 = m
        BY <2>0, <3>1
      <3> QED BY <1>2, <3>1, <3>2 DEF SumsTo
    <2>3. PICK one : one = <<heads[m + 1]>>
      OBVIOUS
    <2>4. one[1] = heads[m + 1] /\ Forest(rows, w[m + 1], one, 1, d)
      BY <2>0, <2>3
    <2>5. \A l \in 1..(m + 1) : heads[l] \in rows
      BY <2>0
    <2>6. \A l \in 1..m : l \in 1..n /\ l # m + 1
      BY <2>0
    <2>7. \A l \in 1..m : Below(rows, heads[l]) \cap Below(rows, heads[m + 1]) = {}
      BY <2>0, <2>6
    <2>8. PICK x : x = f[m]
      OBVIOUS
    <2>9. PICK y : y = w[m + 1]
      OBVIOUS
    <2>10. Forest(rows, x, heads, m, d) /\ Forest(rows, y, one, 1, d)
      BY <2>1, <2>4, <2>8, <2>9
    <2> HIDE DEF S
    <2>11. Forest(rows, x \o y, heads, m + 1, d)
      BY ONLY Grown(rows), d \in Nat, <2>0, <2>4, <2>5, <2>7, <2>10, ForestJoin
    <2> QED BY <2>2, <2>8, <2>9, <2>11
  <1>5. S \in SUBSET Nat
    OBVIOUS
  <1>6. n \in S
    <2> HIDE DEF S
    <2> QED BY <1>3, <1>4, <1>5, NumbersUpward
  <1> QED BY <1>2, <1>6

\* A reply with the threads of its answers below it.
LEMMA ForestGrow ==
    ASSUME NEW rows, Grown(rows), NEW d \in Nat, NEW i \in rows,
           NEW a, a = Answers(rows, i),
           NEW s, Forest(rows, s, a, Cardinality({j \in rows : parent[j] = i}), d + 1)
    PROVE  Forest(rows, <<[id |-> i, depth |-> d]>> \o s, <<i>>, 1, d)
  <1> DEFINE C == {j \in rows : parent[j] = i}
  <1>1. PICK n \in Nat : n = Cardinality(C)
    <2>1. C \in SUBSET Replies
      BY DEF Grown
    <2> HIDE DEF C
    <2> QED BY <2>1, OlderIs
  <1>2. /\ a \in [1..n -> C]
        /\ \A c \in C : \E l \in 1..n : a[l] = c
        /\ \A k, l \in 1..n : k < l => a[k] < a[l]
    <2>1. C \in SUBSET Replies /\ a = Older(C)
      BY DEF Grown, Answers
    <2> HIDE DEF C
    <2> QED BY <1>1, <2>1, OlderIs
  <1>3. \A l \in 1..n : a[l] \in rows /\ parent[a[l]] = i
    BY <1>2
  <1>4. PICK p \in Nat : p = Len(s)
    BY DEF Forest
  <1>5. PICK e : e = [id |-> i, depth |-> d]
    OBVIOUS
  <1>6. e \in Entry(rows) /\ e.id = i /\ e.depth = d
    BY <1>5 DEF Entry
  <1>7. s \in Seq(Entry(rows)) /\ \A k \in 1..p : s[k] \in Entry(rows)
    BY <1>4 DEF Forest
  <1>8. PICK u : u = <<e>> \o s
    OBVIOUS
  <1>9. /\ u \in Seq(Entry(rows)) /\ Len(u) = p + 1 /\ u[1] = e
        /\ \A k \in 1..p : u[k + 1] = s[k]
        /\ \A k \in 1..(p + 1) : k = 1 \/ \E b \in 1..p : k = b + 1
    <2>1. <<e>> \in Seq(Entry(rows)) /\ Len(<<e>>) = 1
      BY <1>6
    <2>2. u \in Seq(Entry(rows)) /\ Len(u) = p + 1 /\ u[1] = e
      BY <1>4, <1>7, <1>8, <2>1
    <2>3. ASSUME NEW k \in 1..p PROVE u[k + 1] = s[k]
      <3>1. PICK j : j = k + 1
        OBVIOUS
      <3>2. j \in 1..(p + 1) /\ ~(j <= 1) /\ j - 1 = k
        BY <3>1
      <3>3. u[j] = s[j - 1]
        BY <1>4, <1>7, <1>8, <2>1, <3>2
      <3> QED BY <3>1, <3>2, <3>3
    <2>4. ASSUME NEW k \in 1..(p + 1), k # 1 PROVE \E b \in 1..p : k = b + 1
      <3>1. k - 1 \in 1..p /\ k = (k - 1) + 1
        BY <2>4
      <3> QED BY <3>1
    <2> QED BY <2>2, <2>3, <2>4
  <1>10. \A j : (\E k \in 1..p : s[k].id = j) <=> (\E l \in 1..n : j \in Below(rows, a[l]))
    BY <1>1, <1>4 DEF Forest
  <1>11. \A j : j \in Below(rows, i) <=> j = i \/ (\E l \in 1..n : j \in Below(rows, a[l]))
    <2>1. Below(rows, i) = {i} \cup UNION {Below(rows, c) : c \in C}
      BY BelowAnswers
    <2> HIDE DEF C
    <2> QED BY <1>2, <2>1
  <1>12. i \in Nat /\ parent[i] \in Nat /\ parent[i] < i
    BY RowsAreNumbers DEF Grown
  <1>13. \A k \in 1..p : s[k].id \in rows /\ s[k].id \in Nat /\ s[k].id > i
    <2> TAKE k \in 1..p
    <2>1. s[k].id \in rows
      BY <1>7 DEF Entry
    <2>2. PICK l \in 1..n : s[k].id \in Below(rows, a[l])
      BY <1>10
    <2>3. a[l] \in rows /\ parent[a[l]] = i /\ a[l] \in Nat /\ i < a[l] /\ s[k].id \in Nat
      BY <1>3, <2>1, RowsAreNumbers DEF Grown
    <2>4. s[k].id >= a[l]
      BY <2>2, <2>3, BelowIsYounger
    <2> QED BY <1>12, <2>1, <2>3, <2>4
  <1>14. \A j : (\E k \in 1..(p + 1) : u[k].id = j) <=> (\E l \in 1..1 : j \in Below(rows, <<i>>[l]))
    <2> TAKE j
    <2>1. (\E k \in 1..(p + 1) : u[k].id = j) <=> j = i \/ (\E k \in 1..p : s[k].id = j)
      <3>1. 1 \in 1..(p + 1) /\ \A k \in 1..p : k + 1 \in 1..(p + 1)
        OBVIOUS
      <3>2. ASSUME NEW k \in 1..(p + 1), u[k].id = j PROVE j = i \/ (\E b \in 1..p : s[b].id = j)
        <4>1. CASE k = 1
          BY <1>6, <1>9, <3>2, <4>1
        <4>2. CASE k # 1
          <5>1. PICK b \in 1..p : k = b + 1
            BY <1>9, <4>2
          <5> QED BY <1>9, <3>2, <5>1
        <4> QED BY <4>1, <4>2
      <3>3. ASSUME NEW b \in 1..p, s[b].id = j PROVE \E k \in 1..(p + 1) : u[k].id = j
        BY <1>9, <3>1, <3>3
      <3> QED BY <1>6, <1>9, <3>1, <3>2, <3>3
    <2>2. (\E l \in 1..1 : j \in Below(rows, <<i>>[l])) <=> j \in Below(rows, i)
      <3>1. <<i>>[1] = i /\ 1 \in 1..1 /\ \A l \in 1..1 : l = 1
        OBVIOUS
      <3> QED BY <3>1
    <2> QED BY <1>10, <1>11, <2>1, <2>2
  <1>15. ASSUME NEW j \in 1..(p + 1), NEW k \in 1..(p + 1), u[j].id = u[k].id PROVE j = k
    <2>1. CASE j = 1 /\ k = 1
      BY <2>1
    <2>2. ASSUME NEW b \in 1..p PROVE u[b + 1].id # u[1].id
      <3>1. s[b].id # i
        <4>1. s[b].id \in Nat /\ s[b].id > i
          BY <1>13
        <4> QED BY <1>12, <4>1
      <3> QED BY <1>6, <1>9, <3>1
    <2>3. CASE j # 1 /\ k # 1
      <3>1. PICK b \in 1..p : j = b + 1
        BY <1>9, <2>3
      <3>2. PICK c \in 1..p : k = c + 1
        BY <1>9, <2>3
      <3>3. s[b].id = s[c].id
        BY <1>9, <1>15, <3>1, <3>2
      <3>4. b = c
        BY <1>4, <3>3 DEF Forest
      <3> QED BY <3>1, <3>2, <3>4
    <2> QED BY <1>9, <1>15, <2>1, <2>2, <2>3
  <1>16. u[1].depth = d /\ InTurn(u, <<i>>, 1, d, 1)
    <2>1. 1 \in 1..1 /\ <<i>>[1] = i /\ 1..(1 - 1) = {}
      OBVIOUS
    <2> QED BY <1>6, <1>9, <2>1 DEF InTurn
  <1>17. ASSUME NEW b \in 1..p PROVE u[b + 1].depth > d /\ HasItsParent(u, b + 1)
    <2>1. PICK g : g = b + 1
      OBVIOUS
    <2>2. g \in 1..(p + 1) /\ g - 1 = b /\ 1 \in 1..(g - 1) /\ u[g] = s[b] /\ u[1] = e
      BY <1>9, <2>1
    <2>3. \A j \in 1..(g - 1) : j = 1 \/ \E c \in 1..(b - 1) : j = c + 1
      <3> SUFFICES ASSUME NEW j \in 1..(g - 1), j # 1 PROVE \E c \in 1..(b - 1) : j = c + 1
        OBVIOUS
      <3>1. j - 1 \in 1..(b - 1) /\ j = (j - 1) + 1
        BY <2>1
      <3> QED BY <3>1
    <2>4. \A c \in 1..(b - 1) : c \in 1..p /\ c + 1 \in 1..(g - 1) /\ u[c + 1] = s[c]
      BY <1>9, <2>1
    <2>5. \A c \in 1..p : s[c].depth \in Nat /\ s[c].depth >= d + 1
                          /\ (s[c].depth # d + 1 => s[c].depth > d + 1)
      <3> TAKE c \in 1..p
      <3>1. s[c].depth \in Nat
        BY <1>7 DEF Entry
      <3>2. s[c].depth = d + 1 \/ s[c].depth > d + 1
        BY <1>4 DEF Forest
      <3> QED BY <3>1, <3>2
    <2>6. s[b].depth > d
      BY <2>5
    <2>7. CASE s[b].depth = d + 1
      <3>1. InTurn(s, a, n, d + 1, b)
        BY <1>1, <1>4, <2>7 DEF Forest
      <3>2. PICK l \in 1..n : /\ s[b].id = a[l]
                              /\ \A j \in 1..(b - 1) : s[j].depth = d + 1 => \E f \in 1..(l - 1) : s[j].id = a[f]
        BY <3>1 DEF InTurn
      <3>3. parent[s[b].id] = i
        BY <1>3, <3>2
      <3>4. ASSUME NEW j \in 1..(g - 1), parent[u[j].id] = i PROVE u[j].id < s[b].id
        <4>1. j # 1
          BY <1>6, <1>9, <1>12, <3>4
        <4>2. PICK c \in 1..(b - 1) : j = c + 1
          BY <2>3, <4>1
        <4>3. u[j] = s[c] /\ c \in 1..p
          BY <2>4, <4>2
        <4>4. CASE s[c].depth = d + 1
          <5>1. PICK f \in 1..(l - 1) : s[c].id = a[f]
            BY <3>2, <4>4
          <5>2. f \in 1..n /\ f < l
            OBVIOUS
          <5> QED BY <1>2, <3>2, <4>3, <5>1, <5>2
        <4>5. CASE s[c].depth # d + 1
          <5>1. HasItsParent(s, c)
            BY <1>4, <2>5, <4>3, <4>5 DEF Forest
          <5>2. PICK f \in 1..(c - 1) : s[f].id = parent[s[c].id]
            BY <5>1 DEF HasItsParent
          <5>3. f \in 1..p /\ s[f].id = i
            BY <3>4, <4>3, <5>2
          <5> QED BY <1>12, <1>13, <5>3
        <4> QED BY <4>4, <4>5
      <3>5. \A j \in 1..(g - 1) : j > 1 => u[j].depth >= u[g].depth
        <4> SUFFICES ASSUME NEW j \in 1..(g - 1), j > 1 PROVE u[j].depth >= u[g].depth
          OBVIOUS
        <4>1. PICK c \in 1..(b - 1) : j = c + 1
          BY <2>3
        <4> QED BY <2>2, <2>4, <2>5, <2>7, <4>1
      <3>6. HasItsParent(u, g)
        BY <1>6, <2>2, <2>6, <3>3, <3>4, <3>5 DEF HasItsParent
      <3> QED BY <2>1, <2>2, <2>6, <3>6
    <2>8. CASE s[b].depth # d + 1
      <3>1. HasItsParent(s, b)
        BY <1>4, <2>5, <2>8 DEF Forest
      <3>2. PICK c \in 1..(b - 1) : /\ s[c].depth < s[b].depth /\ s[c].id = parent[s[b].id]
                                    /\ \A j \in 1..(b - 1) : j > c => s[j].depth >= s[b].depth
        BY <3>1 DEF HasItsParent
      <3>3. PICK h : h = c + 1
        OBVIOUS
      <3>4. h \in 1..(g - 1) /\ u[h] = s[c]
        BY <2>4, <3>3
      <3>5. ASSUME NEW j \in 1..(g - 1), j > h PROVE u[j].depth >= u[g].depth
        <4>1. j # 1
          BY <3>3, <3>5
        <4>2. PICK f \in 1..(b - 1) : j = f + 1
          BY <2>3, <4>1
        <4>3. f > c
          BY <3>3, <3>5, <4>2
        <4> QED BY <2>2, <2>4, <3>2, <4>2, <4>3
      <3>6. ASSUME NEW j \in 1..(g - 1), parent[u[j].id] = parent[u[g].id] PROVE u[j].id < u[g].id
        <4>1. CASE j = 1
          <5>1. parent[i] = s[c].id /\ c \in 1..p
            BY <1>6, <2>2, <2>4, <3>2, <3>6, <4>1
          <5>2. s[c].id \in Nat /\ s[c].id > i
            BY <1>13, <5>1
          <5> QED BY <1>12, <5>1, <5>2
        <4>2. CASE j # 1
          <5>1. PICK f \in 1..(b - 1) : j = f + 1
            BY <2>3, <4>2
          <5>2. u[j] = s[f]
            BY <2>4, <5>1
          <5> QED BY <2>2, <3>1, <3>6, <5>2 DEF HasItsParent
        <4> QED BY <4>1, <4>2
      <3>7. HasItsParent(u, g)
        BY <2>2, <3>2, <3>4, <3>5, <3>6 DEF HasItsParent
      <3> QED BY <2>1, <2>2, <2>6, <3>7
    <2> QED BY <2>7, <2>8
  <1>18. ASSUME NEW k \in 1..(p + 1)
         PROVE  \/ u[k].depth = d /\ InTurn(u, <<i>>, 1, d, k)
                \/ u[k].depth > d /\ HasItsParent(u, k)
    BY <1>9, <1>16, <1>17
  <1> HIDE DEF C
  <1>19. Forest(rows, u, <<i>>, 1, d)
    BY <1>9, <1>14, <1>15, <1>18, ForestIs
  <1> QED BY <1>5, <1>8, <1>19

----------------------------------------------------------------------------
(* The walk. *)

\* What walk does at a reply, given what it does at others.
Walked(rows, walk, i) ==
    [depth \in Nat |->
       <<[id |-> i, depth |-> depth]>>
         \o FlattenSeq([k \in DOMAIN Answers(rows, i) |-> walk[Answers(rows, i)[k]][depth + 1]])]

\* Answers lists the answers to a reply, which are younger.
LEMMA AnswersAre ==
    ASSUME NEW rows, Grown(rows), NEW i \in rows
    PROVE  \E n \in Nat :
             /\ n = Cardinality({j \in rows : parent[j] = i})
             /\ Answers(rows, i) \in [1..n -> rows] /\ DOMAIN Answers(rows, i) = 1..n
             /\ \A k \in 1..n : parent[Answers(rows, i)[k]] = i /\ Answers(rows, i)[k] > i
             /\ \A k, l \in 1..n : k < l => Answers(rows, i)[k] < Answers(rows, i)[l]
  <1> DEFINE C == {j \in rows : parent[j] = i}
  <1>1. C \in SUBSET Replies /\ Answers(rows, i) = Older(C)
    BY DEF Grown, Answers
  <1>2. PICK a : a = Older(C)
    OBVIOUS
  <1>3. PICK n : n = Cardinality(C)
    OBVIOUS
  <1>4. n \in Nat /\ a \in [1..n -> C] /\ \A k, l \in 1..n : k < l => a[k] < a[l]
    <2> HIDE DEF C
    <2> QED BY <1>1, <1>2, <1>3, OlderIs
  <1>5. \A k \in 1..n : a[k] \in rows /\ parent[a[k]] = i /\ a[k] > i
    <2> TAKE k \in 1..n
    <2>1. a[k] \in rows /\ parent[a[k]] = i
      BY <1>4
    <2>2. a[k] \in Nat /\ i \in Nat /\ parent[a[k]] < a[k]
      BY <2>1, RowsAreNumbers DEF Grown
    <2> QED BY <2>1, <2>2
  <1>6. a \in [1..n -> rows]
    BY <1>4, <1>5
  <1> HIDE DEF C
  <1>7. Answers(rows, i) = a
    BY <1>1, <1>2
  <1> QED BY <1>3, <1>4, <1>5, <1>6, <1>7 DEF C

\* The walk is what its definition says: it only goes on to younger replies.
LEMMA WalksAre ==
    ASSUME NEW rows, Grown(rows)
    PROVE  Walks(rows) = [i \in rows |-> Walked(rows, Walks(rows), i)]
  <1> DEFINE Done(g, n) == /\ g = [i \in rows |-> g[i]]
                           /\ \A i \in rows : i + n > MaxReplies => g[i] = Walked(rows, g, i)
             S == {n \in Nat : \E g : Done(g, n)}
  <1>0. rows \subseteq Nat /\ \A i \in rows : i <= MaxReplies
    BY RowsAreNumbers DEF Grown, Replies
  <1>1. 0 \in S
    <2>1. \A i \in rows : ~(i + 0 > MaxReplies)
      BY <1>0, DetailAssumption
    <2>2. PICK g : g = [i \in rows |-> <<>>]
      OBVIOUS
    <2>3. Done(g, 0)
      BY <2>1, <2>2
    <2> QED BY <2>3
  <1>2. ASSUME NEW n \in S PROVE n + 1 \in S
    <2>0. n \in Nat
      OBVIOUS
    <2>1. PICK g : Done(g, n)
      OBVIOUS
    <2>2. PICK h : h = [i \in rows |-> Walked(rows, g, i)]
      OBVIOUS
    <2>3. ASSUME NEW i \in rows, i + n > MaxReplies PROVE h[i] = g[i]
      BY <2>1, <2>2, <2>3
    <2>4. ASSUME NEW i \in rows, i + (n + 1) > MaxReplies PROVE h[i] = Walked(rows, h, i)
      <3>1. PICK m \in Nat : /\ Answers(rows, i) \in [1..m -> rows] /\ DOMAIN Answers(rows, i) = 1..m
                             /\ \A k \in 1..m : Answers(rows, i)[k] > i
        BY AnswersAre
      <3>2. \A k \in 1..m : h[Answers(rows, i)[k]] = g[Answers(rows, i)[k]]
        <4> TAKE k \in 1..m
        <4>1. PICK c \in rows : c = Answers(rows, i)[k]
          BY <3>1
        <4>2. c > i /\ c \in Nat /\ i \in Nat
          BY <1>0, <3>1, <4>1
        <4>3. c + n > MaxReplies
          BY <2>0, <2>4, <4>2, DetailAssumption
        <4> QED BY <2>3, <4>1, <4>3
      <3>3. Walked(rows, h, i) = Walked(rows, g, i)
        <4>1. \A depth : [k \in DOMAIN Answers(rows, i) |-> h[Answers(rows, i)[k]][depth + 1]]
                           = [k \in DOMAIN Answers(rows, i) |-> g[Answers(rows, i)[k]][depth + 1]]
          BY <3>1, <3>2
        <4> QED BY <4>1 DEF Walked
      <3> QED BY <2>2, <3>3
    <2>5. h = [i \in rows |-> h[i]]
      BY <2>2
    <2>6. Done(h, n + 1)
      BY <2>4, <2>5
    <2> QED BY <2>0, <2>6
  <1>3. S \in SUBSET Nat
    OBVIOUS
  <1>4. MaxReplies \in S
    <2> HIDE DEF S
    <2> QED BY <1>1, <1>2, <1>3, NumbersUpward, DetailAssumption
  <1>5. PICK g : Done(g, MaxReplies)
    BY <1>4
  <1>6. \A i \in rows : i + MaxReplies > MaxReplies
    <2>1. \A i \in rows : i >= 1 /\ i \in Nat
      BY <1>0 DEF Grown, Replies
    <2> QED BY <2>1, DetailAssumption
  <1>7. g = [i \in rows |-> Walked(rows, g, i)]
    BY <1>5, <1>6
  <1> DEFINE Step(walk) == [i \in rows |-> Walked(rows, walk, i)]
  <1>8. Walks(rows) = CHOOSE walk : walk = Step(walk)
    BY DEF Walks, Walked
  <1>9. \E walk : walk = Step(walk)
    BY <1>7
  <1>10. Walks(rows) = Step(Walks(rows))
    <2> HIDE DEF Step
    <2> QED BY <1>8, <1>9
  <1> QED BY <1>10

\* Walking from a reply lays out its thread.
LEMMA WalkIsForest ==
    ASSUME NEW rows, Grown(rows)
    PROVE  \A i \in rows, d \in Nat : Forest(rows, Walks(rows)[i][d], <<i>>, 1, d)
  <1> DEFINE Good(i) == \A d \in Nat : Forest(rows, Walks(rows)[i][d], <<i>>, 1, d)
             S == {n \in Nat : \A i \in rows : i + n > MaxReplies => Good(i)}
  <1>0. rows \subseteq Nat /\ \A i \in rows : i <= MaxReplies
    BY RowsAreNumbers DEF Grown, Replies
  <1>1. 0 \in S
    <2>1. \A i \in rows : ~(i + 0 > MaxReplies)
      BY <1>0, DetailAssumption
    <2> HIDE DEF Good
    <2> QED BY <2>1
  <1>2. ASSUME NEW n \in S PROVE n + 1 \in S
    <2> HIDE DEF Good
    <2>0. n \in Nat /\ \A i \in rows : i + n > MaxReplies => Good(i)
      OBVIOUS
    <2>1. ASSUME NEW i \in rows, i + (n + 1) > MaxReplies, NEW d \in Nat
          PROVE  Forest(rows, Walks(rows)[i][d], <<i>>, 1, d)
      <3>1. PICK a : a = Answers(rows, i)
        OBVIOUS
      <3>2. PICK m \in Nat : /\ m = Cardinality({j \in rows : parent[j] = i})
                             /\ a \in [1..m -> rows] /\ DOMAIN a = 1..m
                             /\ \A k \in 1..m : parent[a[k]] = i /\ a[k] > i
                             /\ \A k, l \in 1..m : k < l => a[k] < a[l]
        BY <3>1, AnswersAre
      <3>3. PICK w : w = [k \in 1..m |-> Walks(rows)[a[k]][d + 1]]
        OBVIOUS
      <3>4. Walks(rows)[i][d] = <<[id |-> i, depth |-> d]>> \o FlattenSeq(w)
        <4>1. Walks(rows)[i] = Walked(rows, Walks(rows), i)
          BY WalksAre
        <4> QED BY <3>1, <3>2, <3>3, <4>1 DEF Walked
      <3>5. \A k \in 1..m : Forest(rows, w[k], <<a[k]>>, 1, d + 1)
        <4> TAKE k \in 1..m
        <4>1. PICK c \in rows : c = a[k]
          BY <3>2
        <4>2. c > i /\ c \in Nat /\ i \in Nat
          BY <1>0, <3>2, <4>1
        <4>3. c + n > MaxReplies
          BY <2>0, <2>1, <4>2, DetailAssumption
        <4>4. Good(c) /\ d + 1 \in Nat
          BY <2>0, <4>3
        <4>5. Forest(rows, Walks(rows)[c][d + 1], <<c>>, 1, d + 1)
          BY <4>4 DEF Good
        <4> QED BY <3>3, <4>1, <4>5
      <3>6. \A k, l \in 1..m : k # l => Below(rows, a[k]) \cap Below(rows, a[l]) = {}
        <4> SUFFICES ASSUME NEW k \in 1..m, NEW l \in 1..m, k # l
                     PROVE  Below(rows, a[k]) \cap Below(rows, a[l]) = {}
          OBVIOUS
        <4>1. PICK x \in rows : x = a[k]
          BY <3>2
        <4>2. PICK y \in rows : y = a[l]
          BY <3>2
        <4>3. x # y /\ parent[x] = parent[y]
          <5>1. k < l \/ l < k
            OBVIOUS
          <5>2. x < y \/ y < x
            BY <3>2, <4>1, <4>2, <5>1
          <5>3. x \in Nat /\ y \in Nat
            BY <1>0
          <5> QED BY <3>2, <4>1, <4>2, <5>2, <5>3
        <4>4. Below(rows, x) \cap Below(rows, y) = {}
          BY <4>3, SiblingsApart
        <4> QED BY <4>1, <4>2, <4>4
      <3>7. w = [k \in 1..m |-> w[k]] /\ \A k \in 1..m : a[k] \in rows
        BY <3>2, <3>3
      <3>8. d + 1 \in Nat
        OBVIOUS
      <3>9. PICK s : s = FlattenSeq(w)
        OBVIOUS
      <3>10. Forest(rows, s, a, m, d + 1)
        BY ONLY Grown(rows), <3>2, <3>5, <3>6, <3>7, <3>8, <3>9, ForestFlatten
      <3>11. Forest(rows, <<[id |-> i, depth |-> d]>> \o s, <<i>>, 1, d)
        BY <3>1, <3>2, <3>10, ForestGrow
      <3> QED BY <3>4, <3>9, <3>11
    <2>2. \A i \in rows : i + (n + 1) > MaxReplies => Good(i)
      BY <2>1 DEF Good
    <2> QED BY <2>0, <2>2
  <1>3. S \in SUBSET Nat
    OBVIOUS
  <1>4. MaxReplies \in S
    <2> HIDE DEF S
    <2> QED BY <1>1, <1>2, <1>3, NumbersUpward, DetailAssumption
  <1>5. ASSUME NEW i \in rows PROVE Good(i)
    <2>1. i >= 1 /\ i \in Nat
      BY <1>0 DEF Grown, Replies
    <2>2. i + MaxReplies > MaxReplies
      BY <2>1, DetailAssumption
    <2> HIDE DEF Good
    <2> QED BY <1>4, <2>2
  <1> QED BY <1>5

----------------------------------------------------------------------------
(* The layout. *)

\* Whatever the rows, they are laid out well.
LEMMA LaidOutWell ==
    ASSUME NEW rows, Grown(rows)
    PROVE  WellLaidOut(rows, buildFlatReplies(rows))
  <1>1. PICK heads : heads = Newer(Roots(rows))
    OBVIOUS
  <1>2. PICK n \in Nat : /\ heads \in [1..n -> Roots(rows)] /\ DOMAIN heads = 1..n
                         /\ \A i \in Roots(rows) : \E k \in 1..n : heads[k] = i
                         /\ \A k, l \in 1..n : k < l => heads[k] > heads[l]
    <2>1. Roots(rows) \in SUBSET Replies
      BY DEF Roots, Grown
    <2> QED BY <1>1, <2>1, NewerIs
  <1>3. rows \subseteq Nat /\ Roots(rows) \subseteq rows
    BY RowsAreNumbers DEF Roots
  <1>4. PICK w : w = [k \in 1..n |-> Walks(rows)[heads[k]][0]]
    OBVIOUS
  <1>5. PICK flat : flat = FlattenSeq(w)
    OBVIOUS
  <1>6. buildFlatReplies(rows) = flat
    BY <1>1, <1>2, <1>4, <1>5 DEF buildFlatReplies
  <1>7. Forest(rows, flat, heads, n, 0)
    <2>1. \A k \in 1..n : Forest(rows, w[k], <<heads[k]>>, 1, 0)
      BY <1>2, <1>3, <1>4, WalkIsForest
    <2>2. \A k, l \in 1..n : k # l => Below(rows, heads[k]) \cap Below(rows, heads[l]) = {}
      <3> SUFFICES ASSUME NEW k \in 1..n, NEW l \in 1..n, k # l
                   PROVE  Below(rows, heads[k]) \cap Below(rows, heads[l]) = {}
        OBVIOUS
      <3>1. PICK x \in Roots(rows) : x = heads[k]
        BY <1>2
      <3>2. PICK y \in Roots(rows) : y = heads[l]
        BY <1>2
      <3>3. x # y /\ x \in rows /\ y \in rows
        <4>1. k < l \/ l < k
          OBVIOUS
        <4>2. x > y \/ y > x
          BY <1>2, <3>1, <3>2, <4>1
        <4>3. x \in Nat /\ y \in Nat
          BY <1>3
        <4> QED BY <1>3, <4>2, <4>3
      <3>4. Below(rows, x) \cap Below(rows, y) = {}
        BY <3>3, SiblingsApart
      <3> QED BY <3>1, <3>2, <3>4
    <2>3. w = [k \in 1..n |-> w[k]] /\ \A k \in 1..n : heads[k] \in rows
      BY <1>2, <1>3, <1>4
    <2>4. 0 \in Nat
      OBVIOUS
    <2> QED BY ONLY Grown(rows), n \in Nat, <1>5, <2>1, <2>2, <2>3, <2>4, ForestFlatten
  <1>8. PICK p \in Nat : p = Len(flat)
    BY <1>7 DEF Forest
  <1>9. /\ flat \in Seq(Entry(rows)) /\ DOMAIN flat = 1..p
        /\ \A k \in 1..p : flat[k].id \in rows /\ flat[k].depth \in Nat
    <2>1. flat \in Seq(Entry(rows))
      BY <1>7 DEF Forest
    <2>2. DOMAIN flat = 1..p /\ \A k \in 1..p : flat[k] \in Entry(rows)
      BY <1>8, <2>1
    <2> QED BY <2>1, <2>2 DEF Entry
  <1>10. \A i : (\E k \in 1..p : flat[k].id = i) <=> i \in rows
    <2> TAKE i
    <2>1. (\E k \in 1..p : flat[k].id = i) <=> (\E l \in 1..n : i \in Below(rows, heads[l]))
      BY <1>7, <1>8 DEF Forest
    <2>2. i \in rows <=> (\E r \in Roots(rows) : i \in Below(rows, r))
      BY RootsHoldAll
    <2> QED BY <1>2, <2>1, <2>2
  <1>11. {flat[k].id : k \in DOMAIN flat} = rows
    BY <1>9, <1>10
  <1>12. Len(flat) = Cardinality(rows)
    <2> DEFINE f == [k \in 1..p |-> flat[k].id]
    <2>1. f \in [1..p -> rows]
      BY <1>9
    <2>2. f \in Injection(1..p, rows)
      BY <1>7, <1>8, <2>1 DEF Forest, Injection, IsInjective
    <2>3. f \in Surjection(1..p, rows)
      BY <1>10, <2>1 DEF Surjection
    <2>4. IsFiniteSet(rows)
      <3>1. rows \in SUBSET Replies
        BY DEF Grown
      <3> QED BY <3>1, Ranks
    <2>5. Cardinality(1..p) = p
      <3>1. 1 \in Int /\ p \in Int
        OBVIOUS
      <3>2. Cardinality(1..p) = IF 1 > p THEN 0 ELSE p - 1 + 1
        BY <3>1, FS_Interval
      <3> QED BY <3>2
    <2>6. Cardinality(1..p) = Cardinality(rows)
      <3> HIDE DEF f
      <3> QED BY <2>2, <2>3, <2>4, FS_Injection
    <2> QED BY <1>8, <2>5, <2>6
  <1>13. ASSUME NEW k \in 1..p, flat[k].depth = 0
         PROVE  /\ flat[k].id \in Roots(rows)
                /\ \A j \in 1..(k - 1) : flat[j].depth = 0 => flat[j].id > flat[k].id
    <2>1. InTurn(flat, heads, n, 0, k)
      BY <1>7, <1>8, <1>13 DEF Forest
    <2>2. PICK l \in 1..n : /\ flat[k].id = heads[l]
                            /\ \A j \in 1..(k - 1) : flat[j].depth = 0 => \E a \in 1..(l - 1) : flat[j].id = heads[a]
      BY <2>1 DEF InTurn
    <2>3. \A a \in 1..(l - 1) : a \in 1..n /\ a < l
      OBVIOUS
    <2> QED BY <1>2, <2>2, <2>3
  <1>14. ASSUME NEW k \in 1..p, flat[k].depth # 0
         PROVE  LET above == {j \in 1..(k - 1) : flat[j].depth < flat[k].depth}
                IN  /\ \E j \in above : /\ \A m \in above : m <= j
                                        /\ flat[j].id = parent[flat[k].id]
                    /\ \A j \in 1..(k - 1) :
                         parent[flat[j].id] = parent[flat[k].id] => flat[j].id < flat[k].id
    <2>1. HasItsParent(flat, k)
      BY <1>7, <1>8, <1>14 DEF Forest
    <2> DEFINE above == {j \in 1..(k - 1) : flat[j].depth < flat[k].depth}
    <2>2. PICK j \in 1..(k - 1) : /\ flat[j].depth < flat[k].depth /\ flat[j].id = parent[flat[k].id]
                                  /\ \A i \in 1..(k - 1) : i > j => flat[i].depth >= flat[k].depth
      BY <2>1 DEF HasItsParent
    <2>3. j \in above
      BY <2>2
    <2>4. ASSUME NEW m \in above PROVE m <= j
      <3>1. m \in 1..p /\ m \in 1..(k - 1) /\ flat[m].depth < flat[k].depth
        OBVIOUS
      <3>2. flat[m].depth \in Nat /\ flat[k].depth \in Nat
        BY <1>9, <3>1
      <3>3. ~(flat[m].depth >= flat[k].depth)
        BY <3>1, <3>2
      <3> QED BY <2>2, <3>1, <3>3
    <2>5. \A i \in 1..(k - 1) : parent[flat[i].id] = parent[flat[k].id] => flat[i].id < flat[k].id
      BY <2>1 DEF HasItsParent
    <2> QED BY <2>2, <2>3, <2>4, <2>5
  <1>15. WellLaidOut(rows, flat)
    BY <1>9, <1>11, <1>12, <1>13, <1>14 DEF WellLaidOut
  <1> QED BY <1>6, <1>15

----------------------------------------------------------------------------
(* The replies of a post through the cache. *)

\* These rows may be kept under version e: whatever they miss is excused for whoever asked, or
\* is yet to ask, under that version.
GoodRows(page, e) ==
    /\ page \subseteq Replies
    /\ e <= thread
    /\ e = thread => Missed(page) \subseteq Unsaid
    /\ \A v \in Viewers : view[v].at = "lookup" /\ view[v].version = e =>
                              Missed(page) \subseteq view[v].moved

\* What a request has read misses only what moved since, and may be kept.
ViewOK(v) ==
    /\ view[v].version <= thread
    /\ view[v].at = "store" => /\ Missed(view[v].rows) \subseteq view[v].moved
                               /\ GoodRows(view[v].rows, view[v].version)

DInv ==
    /\ DetailTypeOK
    /\ ~behind
    /\ \A v \in Viewers : view[v] # NoView => ViewOK(v)
    /\ \A e \in ThreadVersions : kept[e] # NotKept => GoodRows(kept[e], e)

\* Nothing is kept and nobody reads or writes.
LEMMA DetailInitOK == DetailInit => DInv
  <1> SUFFICES ASSUME DetailInit PROVE DInv
    OBVIOUS
  <1>1. 0 \in ThreadVersions /\ MaxReplies + 1 \in 0..(MaxReplies + 1) /\ 0 \in 0..MaxUnanswered
    BY DetailAssumption DEF ThreadVersions
  <1>2. DetailTypeOK
    BY <1>1 DEF DetailInit, DetailTypeOK, Unwritten, Rows
  <1> QED BY <1>2 DEF DetailInit, DInv

\* Replies are written or deleted: they count as moved for everybody from now on.
LEMMA RepliesMove ==
    ASSUME DInv, NEW w \in Repliers, NEW S \in SUBSET Replies, replier[w] = {},
           replier' = [replier EXCEPT ![w] = S], Moved(S),
           \A i \in Replies \ S : i \in there' <=> i \in there,
           there' \subseteq Replies, parent' \in [Replies -> 0..Unwritten],
           UNCHANGED <<thread, kept, silent, lost, muddled, behind>>
    PROVE  DInv'
  <1>0. /\ DetailTypeOK /\ view \in [Viewers -> View \cup {NoView}] /\ NoView \notin View
        /\ NoView.at = "none"
        /\ replier \in [Repliers -> SUBSET Replies] /\ there \subseteq Replies
    BY DEF DInv, DetailTypeOK, NoView, View
  <1>1. ASSUME NEW v \in Viewers
        PROVE  /\ view'[v] # NoView <=> view[v] # NoView
               /\ view'[v] \in View \cup {NoView}
               /\ view'[v].at = view[v].at
               /\ view[v] # NoView => /\ view'[v].version = view[v].version
                                      /\ view'[v].rows = view[v].rows
                                      /\ view'[v].moved = view[v].moved \cup S
    <2>1. CASE view[v] = NoView
      BY <2>1 DEF Moved
    <2>2. CASE view[v] # NoView
      <3>1. view[v] \in View /\ view'[v] = [view[v] EXCEPT !.moved = view[v].moved \cup S]
        BY <1>0, <2>2 DEF Moved
      <3>2. view'[v] \in View
        BY <3>1 DEF View
      <3> QED BY <1>0, <2>2, <3>1, <3>2 DEF View
    <2> QED BY <2>1, <2>2
  <1>2. Unsaid' = Unsaid \cup S
    <2>1. replier'[w] = S /\ \A x \in Repliers \ {w} : replier'[x] = replier[x]
      BY <1>0
    <2> QED BY <2>1 DEF Unsaid
  <1>3. \A page : page \subseteq Replies => \A i \in Missed(page)' : i \in Missed(page) \cup S
    BY <1>0 DEF Missed
  <1>4. DetailTypeOK'
    <2>1. replier' \in [Repliers -> SUBSET Replies] /\ view' \in [Viewers -> View \cup {NoView}]
      BY <1>0, <1>1 DEF Moved
    <2> QED BY <1>0, <2>1 DEF DetailTypeOK
  <1>5. ASSUME NEW page, NEW e, GoodRows(page, e) PROVE GoodRows(page, e)'
    <2>1. page \subseteq Replies /\ e <= thread
      BY <1>5 DEF GoodRows
    <2>2. e = thread => Missed(page)' \subseteq Unsaid'
      BY <1>2, <1>3, <1>5, <2>1 DEF GoodRows
    <2>3. ASSUME NEW v \in Viewers, view'[v].at = "lookup", view'[v].version = e
          PROVE  Missed(page)' \subseteq view'[v].moved
      <3>1. view[v] # NoView /\ view[v].at = "lookup" /\ view[v].version = e
        BY <1>0, <1>1, <2>3
      <3>2. Missed(page) \subseteq view[v].moved /\ view'[v].moved = view[v].moved \cup S
        BY <1>1, <1>5, <3>1 DEF GoodRows
      <3> QED BY <1>3, <2>1, <3>2
    <2>4. Replies' = Replies
      BY DEF Replies
    <2> QED BY <2>1, <2>2, <2>3, <2>4 DEF GoodRows
  <1>6. ASSUME NEW v \in Viewers, view[v] # NoView PROVE ViewOK(v)'
    <2>1. PICK page : page = view[v].rows
      OBVIOUS
    <2>2. PICK e : e = view[v].version
      OBVIOUS
    <2>3. e <= thread /\ (view[v].at = "store" => Missed(page) \subseteq view[v].moved /\ GoodRows(page, e))
      BY <1>6, <2>1, <2>2 DEF DInv, ViewOK
    <2>4. view'[v].rows = page /\ view'[v].version = e /\ view'[v].at = view[v].at
          /\ view'[v].moved = view[v].moved \cup S
      BY <1>1, <1>6, <2>1, <2>2
    <2>5. view[v].at = "store" => GoodRows(page, e)' /\ page \subseteq Replies
      BY <1>5, <2>3 DEF GoodRows
    <2>6. view[v].at = "store" => Missed(page)' \subseteq view'[v].moved
      BY <1>3, <2>3, <2>4, <2>5
    <2>7. Missed(view[v].rows)' = Missed(page)' /\ (GoodRows(view[v].rows, view[v].version)' <=> GoodRows(page, e)')
      BY <2>4 DEF Missed, GoodRows
    <2> QED BY <2>3, <2>4, <2>5, <2>6, <2>7 DEF ViewOK
  <1>7. ASSUME NEW e \in ThreadVersions, kept[e] # NotKept PROVE GoodRows(kept[e], e)'
    <2>1. PICK page : page = kept[e]
      OBVIOUS
    <2>2. GoodRows(page, e)'
      BY <1>5, <1>7, <2>1 DEF DInv
    <2> QED BY <2>1, <2>2 DEF GoodRows, Missed
  <1> QED BY <1>1, <1>4, <1>6, <1>7 DEF DInv

\* Whoever begins to look, under the version of the day with all that is unsaid excused, or
\* under any with everything excused.
LooksUp(q) ==
    /\ q.at = "lookup" /\ q.version <= thread
    /\ \/ q.version = thread /\ q.moved = Unsaid
       \/ q.moved = Replies

\* Whoever has read what is there.
HasRead(q) == q.at = "store" /\ q.version <= thread /\ q.rows = there

\* Steps of those who read: what may be kept stays so.
LEMMA DetailStays ==
    ASSUME DInv, UNCHANGED <<there, thread>>, Unsaid' = Unsaid, DetailTypeOK', ~behind',
           \A v \in Viewers : \/ view'[v] \in {view[v], NoView}
                              \/ LooksUp(view'[v]) \/ HasRead(view'[v]),
           \A e \in ThreadVersions : kept'[e] = kept[e] \/ GoodRows(kept'[e], e)
    PROVE  DInv'
  <1>0. there \subseteq Replies /\ thread \in Nat /\ NoView.at = "none" /\ Replies' = Replies
    BY DetailAssumption DEF DInv, DetailTypeOK, ThreadVersions, NoView, Replies
  <1>1. \A page : Missed(page)' = Missed(page)
    BY DEF Missed
  <1>2. ASSUME NEW page, NEW e, GoodRows(page, e) PROVE GoodRows(page, e)'
    <2>1. page \subseteq Replies /\ e <= thread /\ (e = thread => Missed(page) \subseteq Unsaid)
      BY <1>2 DEF GoodRows
    <2>2. Missed(page) \subseteq Replies
      BY <1>0, <2>1 DEF Missed
    <2>3. ASSUME NEW v \in Viewers, view'[v].at = "lookup", view'[v].version = e
          PROVE  Missed(page) \subseteq view'[v].moved
      <3>1. view'[v] = view[v] \/ LooksUp(view'[v])
        BY <1>0, <2>3 DEF HasRead
      <3> QED BY <1>2, <2>1, <2>2, <2>3, <3>1 DEF LooksUp, GoodRows
    <2> QED BY <1>0, <1>1, <2>1, <2>3 DEF GoodRows
  <1>3. ASSUME NEW e, e <= thread PROVE GoodRows(there, e)
    <2>1. Missed(there) = {}
      BY DEF Missed
    <2> QED BY <1>0, <1>3, <2>1 DEF GoodRows
  <1>4. ASSUME NEW v \in Viewers, view'[v] # NoView PROVE ViewOK(v)'
    <2>1. PICK q : q = view'[v]
      OBVIOUS
    <2>2. /\ q.version <= thread
          /\ q.at = "store" => Missed(q.rows) \subseteq q.moved /\ GoodRows(q.rows, q.version)
      <3>1. CASE q = view[v]
        BY <1>4, <2>1, <3>1 DEF DInv, ViewOK
      <3>2. CASE LooksUp(q)
        BY <3>2 DEF LooksUp
      <3>3. CASE HasRead(q)
        <4>1. Missed(q.rows) = {}
          BY <3>3 DEF HasRead, Missed
        <4> QED BY <1>3, <3>3, <4>1 DEF HasRead
      <3> QED BY <1>4, <2>1, <3>1, <3>2, <3>3
    <2>3. PICK page : page = q.rows
      OBVIOUS
    <2>4. PICK e : e = q.version
      OBVIOUS
    <2>5. q.at = "store" => Missed(page)' \subseteq q.moved /\ GoodRows(page, e)'
      BY <1>1, <1>2, <2>2, <2>3, <2>4
    <2>6. view'[v].rows = page /\ view'[v].version = e
      BY <2>1, <2>3, <2>4
    <2>7. Missed(view[v].rows)' = Missed(page)' /\ (GoodRows(view[v].rows, view[v].version)' <=> GoodRows(page, e)')
      BY <2>6 DEF Missed, GoodRows
    <2> QED BY <2>1, <2>2, <2>5, <2>7 DEF ViewOK
  <1>5. ASSUME NEW e \in ThreadVersions, kept'[e] # NotKept PROVE GoodRows(kept[e], e)'
    <2>1. PICK page : page = kept'[e]
      OBVIOUS
    <2>2. GoodRows(page, e)'
      BY <1>2, <1>5, <2>1 DEF DInv
    <2> QED BY <2>1, <2>2 DEF GoodRows, Missed
  <1> QED BY <1>4, <1>5 DEF DInv

\* All steps.
LEMMA DetailNextOK == DInv /\ [DetailNext]_detailVars => DInv'
  <1> SUFFICES ASSUME DInv, [DetailNext]_detailVars PROVE DInv'
    OBVIOUS
  <1>0. /\ DetailTypeOK /\ ~behind /\ NoView \notin View /\ NoView.at = "none"
        /\ view \in [Viewers -> View \cup {NoView}] /\ thread \in ThreadVersions
        /\ \A x \in Viewers : view[x] # NoView => view[x] \in View
        /\ there \in SUBSET Replies /\ lost \in SUBSET Replies /\ Unsaid \in SUBSET Replies
        /\ replier \in [Repliers -> SUBSET Replies] /\ kept \in [ThreadVersions -> Rows]
        /\ thread \in Nat /\ ThreadVersions \subseteq Nat
        /\ silent \in 0..MaxUnanswered
    BY DetailAssumption DEF DInv, DetailTypeOK, NoView, View, Unsaid, ThreadVersions
  <1>1. CASE UNCHANGED detailVars
    <2>1. DetailTypeOK'
      BY <1>0, <1>1 DEF DetailTypeOK, detailVars
    <2>2. Unsaid' = Unsaid
      BY <1>1 DEF Unsaid, detailVars
    <2> QED BY <1>0, <1>1, <2>1, <2>2, DetailStays DEF detailVars
  <1>2. ASSUME NEW w \in Repliers, NEW i \in Replies, NEW answered \in 0..MaxReplies,
               publishReply(w, i, answered)
        PROVE  DInv'
    <2>1. parent' \in [Replies -> 0..Unwritten]
      BY <1>0, <1>2, DetailAssumption DEF publishReply, DetailTypeOK, Unwritten
    <2> QED BY <1>0, <1>2, <2>1, RepliesMove DEF publishReply
  <1>3. ASSUME NEW w \in Repliers, NEW i \in Replies, deleteReply(w, i) PROVE DInv'
    <2>1. Thread(i) \in SUBSET Replies
      BY <1>0 DEF Thread
    <2> QED BY <1>0, <1>3, <2>1, RepliesMove DEF deleteReply, DetailTypeOK
  <1>4. ASSUME NEW w \in Repliers, invalidateForumPostRepliesCache(w) PROVE DInv'
    <2>1. /\ thread < MaxAnnounced /\ thread' = thread + 1 /\ replier' = [replier EXCEPT ![w] = {}]
          /\ lost' = {} /\ UNCHANGED <<parent, there, kept, view, silent, muddled, behind>>
      BY <1>4 DEF invalidateForumPostRepliesCache
    <2>2. thread' \in ThreadVersions
      BY <1>0, <2>1, DetailAssumption DEF ThreadVersions
    <2>3. DetailTypeOK'
      BY <1>0, <2>1, <2>2 DEF DetailTypeOK
    <2>4. \A page : Missed(page)' = Missed(page)
      BY <2>1 DEF Missed
    <2>5. \A page : \A e \in Nat : GoodRows(page, e) => GoodRows(page, e)'
      BY <1>0, <2>1, <2>4 DEF GoodRows, Replies
    <2>6. ASSUME NEW v \in Viewers, view[v] # NoView PROVE ViewOK(v)'
      <3>1. ViewOK(v)
        BY <2>6 DEF DInv
      <3>2. PICK page : page = view[v].rows
        OBVIOUS
      <3>3. PICK e \in Nat : e = view[v].version
        BY <1>0, <2>6 DEF View
      <3>4. e <= thread' /\ (view[v].at = "store" => Missed(page) \subseteq view[v].moved /\ GoodRows(page, e)')
        BY <1>0, <2>1, <2>5, <3>1, <3>2, <3>3 DEF ViewOK
      <3>5. GoodRows(view[v].rows, view[v].version)' <=> GoodRows(page, e)'
        BY <2>1, <3>2, <3>3 DEF GoodRows, Missed
      <3>6. Missed(view[v].rows)' = Missed(page)
        BY <2>1, <3>2 DEF Missed
      <3> QED BY <2>1, <3>2, <3>3, <3>4, <3>5, <3>6 DEF ViewOK
    <2>7. ASSUME NEW e \in ThreadVersions, kept[e] # NotKept PROVE GoodRows(kept[e], e)'
      <3>1. PICK page : page = kept[e]
        OBVIOUS
      <3>2. GoodRows(page, e)'
        BY <1>0, <2>5, <2>7, <3>1 DEF DInv
      <3> QED BY <2>1, <3>1, <3>2 DEF GoodRows, Missed
    <2> QED BY <1>0, <2>1, <2>3, <2>6, <2>7 DEF DInv
  <1>5. ASSUME NEW w \in Repliers, ReplyAnnouncementFails(w) PROVE DInv'
    <2>1. /\ replier' = [replier EXCEPT ![w] = {}] /\ lost' = lost \cup replier[w]
          /\ silent' \in 0..MaxUnanswered
          /\ UNCHANGED <<parent, there, thread, kept, view, muddled, behind>>
      BY <1>0, <1>5, DetailAssumption DEF ReplyAnnouncementFails, Unanswered
    <2>2. DetailTypeOK'
      BY <1>0, <2>1 DEF DetailTypeOK
    <2>3. Unsaid' = Unsaid
      <3>1. replier'[w] = {} /\ \A x \in Repliers \ {w} : replier'[x] = replier[x]
        BY <1>0, <2>1
      <3> QED BY <2>1, <3>1 DEF Unsaid
    <2> QED BY <1>0, <2>1, <2>2, <2>3, DetailStays
  <1>6. ASSUME NEW v \in Viewers, NEW q \in View, view' = [view EXCEPT ![v] = q], LooksUp(q) \/ HasRead(q),
               silent' \in 0..MaxUnanswered,
               UNCHANGED <<parent, there, thread, kept, replier, lost, muddled, behind>>
        PROVE  DInv'
    <2>1. view'[v] = q /\ \A x \in Viewers \ {v} : view'[x] = view[x]
      BY <1>0, <1>6
    <2>2. DetailTypeOK'
      BY <1>0, <1>6 DEF DetailTypeOK
    <2>3. Unsaid' = Unsaid
      BY <1>6 DEF Unsaid
    <2> QED BY <1>0, <1>6, <2>1, <2>2, <2>3, DetailStays
  <1>7. ASSUME NEW v \in Viewers, NEW e \in ThreadVersions, NEW moved \in SUBSET Replies,
               AskForReplies(v, e, moved), (e = thread /\ moved = Unsaid) \/ moved = Replies,
               e <= thread, silent' \in 0..MaxUnanswered
        PROVE  DInv'
    <2>1. PICK q : q = [at |-> "lookup", version |-> e, rows |-> NotKept, moved |-> moved]
      OBVIOUS
    <2>2. q \in View /\ LooksUp(q)
      BY <1>7, <2>1 DEF View, Rows, LooksUp
    <2>3. view' = [view EXCEPT ![v] = q]
          /\ UNCHANGED <<parent, there, thread, kept, replier, lost, muddled, behind>>
      BY <1>7, <2>1 DEF AskForReplies
    <2> QED BY <1>6, <1>7, <2>2, <2>3
  <1>8. ASSUME NEW v \in Viewers, forumPostRepliesDataCacheKey(v) PROVE DInv'
    <2>1. AskForReplies(v, thread, Unsaid) /\ silent' \in 0..MaxUnanswered
      BY <1>0, <1>8 DEF forumPostRepliesDataCacheKey
    <2>2. PICK e \in ThreadVersions : e = thread
      BY <1>0
    <2>3. PICK moved \in SUBSET Replies : moved = Unsaid
      BY <1>0
    <2>4. AskForReplies(v, e, moved)
      BY <2>1, <2>2, <2>3
    <2>5. e <= thread
      BY <1>0, <2>2
    <2> QED BY <1>7, <2>1, <2>2, <2>3, <2>4, <2>5
  <1>9. ASSUME NEW v \in Viewers, ReplyVersionFails(v) PROVE DInv'
    <2>1. AskForReplies(v, 0, Replies) /\ silent' \in 0..MaxUnanswered
      BY <1>0, <1>9, DetailAssumption DEF ReplyVersionFails, Unanswered
    <2>2. 0 \in ThreadVersions /\ 0 <= thread
      BY <1>0, DetailAssumption DEF ThreadVersions
    <2> QED BY <1>7, <2>1, <2>2
  <1>10. ASSUME NEW v \in Viewers, RepliesMiss(v) PROVE DInv'
    <2>1. PICK q : q = [view[v] EXCEPT !.at = "store", !.rows = there, !.moved = {}]
      OBVIOUS
    <2>2. view[v] # NoView /\ view[v] \in View /\ view' = [view EXCEPT ![v] = q]
          /\ UNCHANGED <<parent, there, thread, kept, replier, silent, lost, muddled, behind>>
      BY <1>0, <1>10, <2>1 DEF RepliesMiss
    <2>3. q \in View /\ q.at = "store" /\ q.rows = there /\ q.version = view[v].version
      BY <1>0, <2>1, <2>2 DEF View, Rows
    <2>4. HasRead(q)
      BY <2>2, <2>3 DEF HasRead, DInv, ViewOK
    <2> QED BY <1>0, <1>6, <2>2, <2>3, <2>4
  <1>11. ASSUME NEW v \in Viewers, NEW page \in Rows, view[v] # NoView, Missed(page) \subseteq view[v].moved,
                kept' = kept \/ (kept' = [kept EXCEPT ![view[v].version] = page]
                                   /\ GoodRows(page, view[v].version)),
                Shown(v, page), UNCHANGED <<parent, there, thread, replier, silent, lost>>
         PROVE  DInv'
    <2>1. /\ ~behind' /\ behind' \in BOOLEAN /\ muddled' \in BOOLEAN
          /\ view' = [view EXCEPT ![v] = NoView]
          /\ \A x \in Viewers : view'[x] \in {view[x], NoView}
      <3>1. view' = [view EXCEPT ![v] = NoView] /\ ~behind' /\ behind' \in BOOLEAN /\ muddled' \in BOOLEAN
        BY <1>0, <1>11 DEF Shown
      <3> QED BY <1>0, <3>1
    <2>2. /\ kept' \in [ThreadVersions -> Rows]
          /\ \A e \in ThreadVersions : kept'[e] = kept[e] \/ GoodRows(kept'[e], e)
      BY <1>0, <1>11
    <2>3. DetailTypeOK'
      BY <1>0, <1>11, <2>1, <2>2 DEF DetailTypeOK
    <2>4. Unsaid' = Unsaid
      BY <1>11 DEF Unsaid
    <2> QED BY <1>11, <2>1, <2>2, <2>3, <2>4, DetailStays
  <1>12. ASSUME NEW v \in Viewers, RepliesHit(v) PROVE DInv'
    <2>1. view[v] # NoView /\ view[v].version \in ThreadVersions /\ view[v].at = "lookup"
      BY <1>0, <1>12 DEF RepliesHit, View
    <2>2. PICK page : page = kept[view[v].version]
      OBVIOUS
    <2>3. page \in Rows /\ GoodRows(page, view[v].version)
      BY <1>0, <1>12, <2>1, <2>2 DEF RepliesHit, DInv
    <2>4. Missed(page) \subseteq view[v].moved
      BY <2>1, <2>3 DEF GoodRows
    <2> QED BY <1>11, <1>12, <2>1, <2>2, <2>3, <2>4 DEF RepliesHit
  <1>13. ASSUME NEW v \in Viewers, StoreReplies(v) PROVE DInv'
    <2>1. PICK page : page = view[v].rows
      OBVIOUS
    <2>2. view[v] # NoView /\ view[v] \in View /\ view[v].at = "store" /\ page \in Rows
      BY <1>0, <1>13, <2>1 DEF StoreReplies, View
    <2>3. ViewOK(v)
      BY <2>2 DEF DInv
    <2>4. Missed(page) \subseteq view[v].moved /\ GoodRows(page, view[v].version)
      BY <2>1, <2>2, <2>3 DEF ViewOK
    <2> QED BY <1>11, <1>13, <2>1, <2>2, <2>4 DEF StoreReplies
  <1> QED BY <1>1, <1>2, <1>3, <1>4, <1>5, <1>8, <1>9, <1>10, <1>12, <1>13 DEF DetailNext

\* Whoever looks at a post is shown the rows that are there, but for what changes meanwhile; out
\* of the cache also but for what nobody had announced when he asked, however often Redis fails
\* to take an announcement.  Those alone whom Redis gives no version, and then a page kept under
\* version 0, may be shown anything (redis-cache.ts:152-181, forum.service.ts:198-271, 349-375).
THEOREM RepliesCurrent == DetailSpec => []RepliesAreCurrent
  <1>1. DInv => RepliesAreCurrent
    BY DEF DInv, RepliesAreCurrent
  <1> QED BY <1>1, DetailInitOK, DetailNextOK, PTL DEF DetailSpec

----------------------------------------------------------------------------
(* The layout of what is shown. *)

\* Replies are numbered as they are written, and whatever is there, is kept, or is about to be
\* shown was written after what it answers.
LayoutInv ==
    /\ ~muddled
    /\ \A i, j \in Replies : j < i /\ parent[i] # Unwritten => parent[j] # Unwritten
    /\ Grown(there)
    /\ \A v \in Viewers : view[v].at = "store" => Grown(view[v].rows)
    /\ \A e \in ThreadVersions : kept[e] # NotKept => Grown(kept[e])

\* What a viewer is shown is laid out well.
LEMMA ShownWell ==
    ASSUME ~muddled, NEW v \in Viewers, NEW rows, Grown(rows), Shown(v, rows)
    PROVE  ~muddled'
  BY LaidOutWell DEF Shown

\* Steps that leave the replies alone.
LEMMA LayoutStays ==
    ASSUME DetailTypeOK, LayoutInv, UNCHANGED <<parent, there>>, ~muddled',
           \A v \in Viewers : view'[v].at = "store" => Grown(view'[v].rows),
           \A e \in ThreadVersions : kept'[e] # NotKept => Grown(kept'[e])
    PROVE  LayoutInv'
  <1>1. \A rows : Grown(rows)' <=> Grown(rows)
    BY DEF Grown
  <1>2. ASSUME NEW v \in Viewers, view'[v].at = "store" PROVE Grown(view[v].rows)'
    <2>1. PICK rows : rows = view'[v].rows
      OBVIOUS
    <2>2. Grown(rows)'
      BY <1>1, <1>2, <2>1
    <2> QED BY <2>1, <2>2 DEF Grown
  <1>3. ASSUME NEW e \in ThreadVersions, kept'[e] # NotKept PROVE Grown(kept[e])'
    <2>1. PICK rows : rows = kept'[e]
      OBVIOUS
    <2>2. Grown(rows)'
      BY <1>1, <1>3, <2>1
    <2> QED BY <2>1, <2>2 DEF Grown
  <1>4. Grown(there)'
    BY DEF LayoutInv, Grown
  <1>5. (\A i, j \in Replies : j < i /\ parent[i] # Unwritten => parent[j] # Unwritten)'
    BY DEF LayoutInv, Unwritten
  <1> QED BY <1>2, <1>3, <1>4, <1>5 DEF LayoutInv

\* All steps.
LEMMA LayoutNextOK == DInv /\ LayoutInv /\ [DetailNext]_detailVars => LayoutInv'
  <1> SUFFICES ASSUME DInv, LayoutInv, [DetailNext]_detailVars PROVE LayoutInv'
    OBVIOUS
  <1>0. /\ DetailTypeOK /\ NoView \notin View /\ NoView.at = "none"
        /\ view \in [Viewers -> View \cup {NoView}] /\ kept \in [ThreadVersions -> Rows]
        /\ \A v \in Viewers : view[v].at # "none" => view[v] \in View
        /\ parent \in [Replies -> 0..Unwritten] /\ ~muddled
    BY DEF DInv, DetailTypeOK, LayoutInv, NoView, View
  <1>1. /\ \A v \in Viewers : view[v].at = "store" => Grown(view[v].rows)
        /\ \A e \in ThreadVersions : kept[e] # NotKept => Grown(kept[e])
    BY DEF LayoutInv
  <1>2. CASE UNCHANGED detailVars
    BY <1>0, <1>1, <1>2, LayoutStays DEF detailVars
  <1>3. ASSUME NEW w \in Repliers, NEW S, Moved(S),
               \A rows : Grown(rows) => Grown(rows)',
               (\A i, j \in Replies : j < i /\ parent[i] # Unwritten => parent[j] # Unwritten)',
               Grown(there)', UNCHANGED <<kept, muddled>>
        PROVE  LayoutInv'
    <2>1. ASSUME NEW v \in Viewers, view'[v].at = "store" PROVE Grown(view[v].rows)'
      <3>1. view[v].at = "store" /\ view'[v].rows = view[v].rows
        <4>1. CASE view[v] = NoView
          BY <1>0, <1>3, <2>1, <4>1 DEF Moved
        <4>2. CASE view[v] # NoView
          <5>1. view[v] \in View /\ view'[v] = [view[v] EXCEPT !.moved = @ \cup S]
            BY <1>0, <1>3, <4>2 DEF Moved
          <5> QED BY <2>1, <5>1 DEF View
        <4> QED BY <4>1, <4>2
      <3>2. PICK rows : rows = view[v].rows
        OBVIOUS
      <3>3. Grown(rows)'
        BY <1>1, <1>3, <3>1, <3>2
      <3> QED BY <3>1, <3>2, <3>3 DEF Grown
    <2>2. ASSUME NEW e \in ThreadVersions, kept'[e] # NotKept PROVE Grown(kept[e])'
      <3>1. PICK rows : rows = kept[e]
        OBVIOUS
      <3>2. Grown(rows)'
        BY <1>1, <1>3, <2>2, <3>1
      <3> QED BY <1>3, <3>1, <3>2 DEF Grown
    <2> QED BY <1>0, <1>3, <2>1, <2>2 DEF LayoutInv
  <1>4. ASSUME NEW w \in Repliers, NEW i \in Replies, NEW answered \in 0..MaxReplies,
               publishReply(w, i, answered)
        PROVE  LayoutInv'
    <2>1. /\ parent[i] = Unwritten /\ \A j \in Replies : j < i => parent[j] # Unwritten
          /\ answered \in there \cup {0} /\ parent' = [parent EXCEPT ![i] = answered]
          /\ there' = there \cup {i} /\ Moved({i}) /\ UNCHANGED <<kept, muddled>>
      BY <1>4 DEF publishReply
    <2>2. /\ Replies \subseteq Nat /\ Unwritten \in Nat /\ \A j \in Replies : j < Unwritten
          /\ parent'[i] = answered /\ \A j \in Replies \ {i} : parent'[j] = parent[j]
      BY <1>0, <2>1, DetailAssumption DEF Replies, Unwritten
    <2>3. \A rows : Grown(rows) => i \notin rows
      <3> SUFFICES ASSUME NEW rows, Grown(rows), i \in rows PROVE FALSE
        OBVIOUS
      <3>1. parent[i] < i /\ i < Unwritten /\ i \in Nat
        BY <2>2 DEF Grown
      <3> QED BY <2>1, <2>2, <3>1
    <2>4. ASSUME NEW rows, Grown(rows) PROVE Grown(rows)'
      <3>1. \A j \in rows : j \in Replies \ {i}
        BY <2>3, <2>4 DEF Grown
      <3> QED BY <2>2, <2>4, <3>1 DEF Grown
    <2>5. answered < i
      <3>1. CASE answered = 0
        BY <3>1 DEF Replies
      <3>2. CASE answered \in there
        <4>1. answered # i /\ answered \in Replies /\ parent[answered] < answered
              /\ parent[answered] \in Nat
          BY <2>3, <3>2 DEF LayoutInv, Grown
        <4>2. parent[answered] # Unwritten
          BY <2>2, <4>1
        <4>3. ~(i < answered)
          BY <2>1, <4>1, <4>2 DEF LayoutInv
        <4> QED BY <2>2, <4>1, <4>3
      <3> QED BY <2>1, <3>1, <3>2
    <2>6. Grown(there)'
      <3>1. Grown(there) /\ there \subseteq Replies /\ i \notin there
        BY <2>3 DEF LayoutInv, Grown
      <3>2. \A j \in there : parent'[j] \in Nat /\ parent'[j] < j
        BY <2>2, <3>1 DEF Grown
      <3>3. parent'[i] \in Nat /\ parent'[i] < i
        BY <2>2, <2>5, DetailAssumption
      <3> QED BY <2>1, <3>1, <3>2, <3>3 DEF Grown, Replies
    <2>7. (\A j, k \in Replies : k < j /\ parent[j] # Unwritten => parent[k] # Unwritten)'
      <3> SUFFICES ASSUME NEW j \in Replies, NEW k \in Replies, k < j, parent'[j] # Unwritten
                   PROVE  parent'[k] # Unwritten
        BY DEF Replies, Unwritten
      <3>1. answered # Unwritten
        BY <2>2, DetailAssumption DEF Unwritten
      <3>2. CASE k = i
        BY <2>2, <3>1, <3>2
      <3>3. CASE k # i /\ j = i
        BY <2>1, <2>2, <3>3
      <3>4. CASE k # i /\ j # i
        BY <2>2, <3>4 DEF LayoutInv
      <3> QED BY <3>2, <3>3, <3>4
    <2> QED BY <1>3, <2>1, <2>4, <2>6, <2>7
  <1>5. ASSUME NEW w \in Repliers, NEW i \in Replies, deleteReply(w, i) PROVE LayoutInv'
    <2>1. there' \subseteq there /\ Moved(Thread(i)) /\ UNCHANGED <<parent, kept, muddled>>
      BY <1>5 DEF deleteReply
    <2>2. \A rows : Grown(rows) => Grown(rows)'
      BY <2>1 DEF Grown
    <2>3. Grown(there)'
      BY <2>1 DEF Grown, LayoutInv
    <2>4. (\A j, k \in Replies : k < j /\ parent[j] # Unwritten => parent[k] # Unwritten)'
      BY <2>1 DEF LayoutInv, Unwritten
    <2>5. PICK S : S = Thread(i)
      OBVIOUS
    <2> QED BY <1>3, <2>1, <2>2, <2>3, <2>4, <2>5
  <1>6. ASSUME NEW w \in Repliers, invalidateForumPostRepliesCache(w) \/ ReplyAnnouncementFails(w)
        PROVE  LayoutInv'
    BY <1>0, <1>1, <1>6, LayoutStays DEF invalidateForumPostRepliesCache, ReplyAnnouncementFails
  <1>7. ASSUME NEW v \in Viewers, NEW q, view' = [view EXCEPT ![v] = q],
               q.at = "store" => Grown(q.rows), UNCHANGED <<parent, there, kept, muddled>>
        PROVE  LayoutInv'
    <2>1. \A x \in Viewers : view'[x] = IF x = v THEN q ELSE view[x]
      BY <1>0, <1>7
    <2> QED BY <1>0, <1>1, <1>7, <2>1, LayoutStays
  <1>8. ASSUME NEW v \in Viewers, forumPostRepliesDataCacheKey(v) \/ ReplyVersionFails(v)
        PROVE  LayoutInv'
    <2>1. PICK version, moved : AskForReplies(v, version, moved)
      BY <1>8 DEF forumPostRepliesDataCacheKey, ReplyVersionFails
    <2>2. PICK q : q = [at |-> "lookup", version |-> version, rows |-> NotKept, moved |-> moved]
      OBVIOUS
    <2>3. q.at # "store"
      BY <2>2
    <2>4. view' = [view EXCEPT ![v] = q] /\ UNCHANGED <<parent, there, kept, muddled>>
      BY <2>1, <2>2 DEF AskForReplies
    <2> QED BY <1>7, <2>3, <2>4
  <1>9. ASSUME NEW v \in Viewers, RepliesMiss(v) PROVE LayoutInv'
    <2>1. PICK q : q = [view[v] EXCEPT !.at = "store", !.rows = there, !.moved = {}]
      OBVIOUS
    <2>2. q.rows = there
      BY <1>0, <1>9, <2>1 DEF RepliesMiss, View
    <2>3. Grown(q.rows)
      BY <2>2 DEF LayoutInv
    <2>4. view' = [view EXCEPT ![v] = q] /\ UNCHANGED <<parent, there, kept, muddled>>
      BY <1>9, <2>1 DEF RepliesMiss
    <2> QED BY <1>7, <2>3, <2>4
  <1>11. ASSUME NEW v \in Viewers, NEW rows, Grown(rows), Shown(v, rows), NEW e,
                kept' = kept \/ kept' = [kept EXCEPT ![e] = rows], UNCHANGED <<parent, there>>
         PROVE  LayoutInv'
    <2>1. ~muddled'
      BY <1>0, <1>11, ShownWell
    <2>2. \A x \in Viewers : view'[x] = IF x = v THEN NoView ELSE view[x]
      BY <1>0, <1>11 DEF Shown
    <2>3. \A x \in Viewers : view'[x].at = "store" => Grown(view'[x].rows)
      BY <1>0, <1>1, <2>2
    <2>4. \A x \in ThreadVersions : kept'[x] # NotKept => Grown(kept'[x])
      BY <1>0, <1>1, <1>11
    <2> QED BY <1>0, <1>11, <2>1, <2>3, <2>4, LayoutStays
  <1>12. ASSUME NEW v \in Viewers, RepliesHit(v) PROVE LayoutInv'
    <2>1. view[v].version \in ThreadVersions
      BY <1>0, <1>12 DEF RepliesHit, View
    <2>2. PICK rows : rows = kept[view[v].version]
      OBVIOUS
    <2>3. Grown(rows)
      BY <1>1, <1>12, <2>1, <2>2 DEF RepliesHit
    <2> QED BY <1>11, <1>12, <2>2, <2>3 DEF RepliesHit
  <1>13. ASSUME NEW v \in Viewers, StoreReplies(v) PROVE LayoutInv'
    <2>1. PICK rows : rows = view[v].rows
      OBVIOUS
    <2>2. Grown(rows)
      BY <1>1, <1>13, <2>1 DEF StoreReplies
    <2> QED BY <1>11, <1>13, <2>1, <2>2 DEF StoreReplies
  <1> QED BY <1>2, <1>4, <1>5, <1>6, <1>8, <1>9, <1>12, <1>13 DEF DetailNext

\* Whatever rows a detail was given, out of the database or out of the cache, each shows once
\* and in its thread: for any number of replies, however deep (forum.service.ts:968-1087).
THEOREM RepliesInTheirPlaces == DetailSpec => []RepliesAreLaidOut
  <1>1. DetailInit => LayoutInv
    BY DEF DetailInit, LayoutInv, Grown, NoView
  <1>2. LayoutInv => RepliesAreLaidOut
    BY DEF LayoutInv, RepliesAreLaidOut
  <1> QED BY <1>1, <1>2, DetailInitOK, DetailNextOK, LayoutNextOK, PTL DEF DetailSpec
=============================================================================
