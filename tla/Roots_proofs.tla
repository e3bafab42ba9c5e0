---------------------------- MODULE Roots_proofs -----------------------------
(***************************************************************************)
(* Proofs about Roots, for any directories, requests and filters, and for  *)
(* any backend that answers the worker's calls (BackendAnswers):           *)
(*   - what Listed makes of the list: the children that it drops, the      *)
(*     others in their order, the new root in its place;                   *)
(*   - the list stays sorted, which is TreeOrder;                          *)
(*   - RootsInv, an inductive invariant that implies NoDoubleCrawl: below a*)
(*     recursive node everything a walk meets is recursive (DeepMarked), so*)
(*     a root below a listed one would have been known (HeadApart), until a*)
(*     filter is taken back;                                               *)
(*   - AskedInv, another one: all that is below a recursive root and not   *)
(*     ignored was asked for, or will be by the next recrawl (DeepAsked).  *)
(* The theorems are in RootWatch_proofs and RootWatchCover_proofs, which   *)
(* have the steps of the others.                                           *)
(***************************************************************************)
EXTENDS Roots, CanonicalPath_proofs, FiniteSetTheorems, FunctionTheorems

LEMMA IntervalSize == \A n \in Nat : IsFiniteSet(1 .. n) /\ Cardinality(1 .. n) = n
BY FS_Interval

UpTo(S, j) == {k \in S : k <= j}

\* Counting up to a position numbers the positions of a finite set.
LEMMA RankInjective ==
  ASSUME NEW S \in SUBSET Nat, IsFiniteSet(S)
  PROVE  /\ \A j \in S : /\ IsFiniteSet(UpTo(S, j))
                         /\ Cardinality(UpTo(S, j)) \in 1 .. Cardinality(S)
         /\ \A i, j \in S : Cardinality(UpTo(S, i)) = Cardinality(UpTo(S, j)) => i = j
<1>1. \A j \in S : IsFiniteSet(UpTo(S, j)) /\ Cardinality(UpTo(S, j)) \in 1 .. Cardinality(S)
  <2>1. TAKE j \in S
  <2>2. UpTo(S, j) \in SUBSET S /\ j \in UpTo(S, j)
    BY DEF UpTo
  <2>3. IsFiniteSet(UpTo(S, j)) /\ Cardinality(UpTo(S, j)) <= Cardinality(S)
    BY <2>2, FS_Subset
  <2>4. Cardinality(UpTo(S, j)) # 0
    BY <2>2, <2>3, FS_EmptySet
  <2>5. QED BY <2>3, <2>4, FS_CardinalityType
<1>2. \A i, j \in S : Cardinality(UpTo(S, i)) = Cardinality(UpTo(S, j)) => i = j
  <2>1. ASSUME NEW i \in S, NEW j \in S, i < j, Cardinality(UpTo(S, i)) = Cardinality(UpTo(S, j)) PROVE FALSE
    <3>0. i \in Nat /\ j \in Nat /\ \A k \in S : k <= i => k <= j
      BY <2>1
    <3>1. UpTo(S, i) \subseteq UpTo(S, j)
      BY <3>0 DEF UpTo
    <3>5. j \in UpTo(S, j) /\ j \notin UpTo(S, i)
      BY <2>1, <3>0 DEF UpTo
    <3>2. IsFiniteSet(UpTo(S, j))
      BY <1>1
    <3>3. UpTo(S, j) = UpTo(S, i)
      BY <2>1, <3>1, <3>2, FS_Subset
    <3>4. QED BY <3>3, <3>5
  <2>2. QED BY <2>1
<1>3. QED BY <1>1, <1>2

\* So a finite set of positions has its n-th, for every n up to its size ...
LEMMA NthOf ==
  ASSUME NEW S \in SUBSET Nat, IsFiniteSet(S), NEW n \in 1 .. Cardinality(S)
  PROVE  Nth(S, n) \in S /\ Cardinality(UpTo(S, Nth(S, n))) = n
<1> DEFINE f == [j \in S |-> Cardinality(UpTo(S, j))]
<1>1. f \in Injection(S, 1 .. Cardinality(S))
  <2>1. f \in [S -> 1 .. Cardinality(S)] /\ \A i, j \in S : f[i] = f[j] => i = j
    BY RankInjective
  <2>2. QED BY <2>1 DEF Injection, IsInjective
<1>2. Cardinality(S) \in Nat
  BY FS_CardinalityType
<1>3. IsFiniteSet(1 .. Cardinality(S)) /\ Cardinality(1 .. Cardinality(S)) = Cardinality(S)
  BY <1>2, FS_Interval
<1>4. f \in Surjection(S, 1 .. Cardinality(S))
  BY <1>1, <1>3, FS_Injection
<1>5. \E j \in S : Cardinality(UpTo(S, j)) = n
  BY <1>4 DEF Surjection
<1>6. QED BY <1>5 DEF Nth, UpTo

\* ... in their order ...
LEMMA NthOrdered ==
  ASSUME NEW S \in SUBSET Nat, IsFiniteSet(S), NEW m \in 1 .. Cardinality(S),
         NEW n \in 1 .. Cardinality(S), m < n
  PROVE  Nth(S, m) < Nth(S, n)
<1> DEFINE a == Nth(S, m)
           b == Nth(S, n)
<1>1. /\ a \in S /\ Cardinality(UpTo(S, a)) = m
      /\ b \in S /\ Cardinality(UpTo(S, b)) = n
  BY NthOf
<1> HIDE DEF a, b
<1>2. IsFiniteSet(UpTo(S, a))
  BY <1>1, RankInjective
<1>3. ASSUME b <= a PROVE n <= m
  <2>1. \A k \in S : k <= b => k <= a
    BY <1>1, <1>3
  <2>2. UpTo(S, b) \in SUBSET UpTo(S, a)
    BY <2>1 DEF UpTo
  <2>3. QED BY <1>1, <1>2, <2>2, FS_Subset
<1>4. a < b
  <2>1. a \in Nat /\ b \in Nat
    BY <1>1
  <2>2. QED BY <1>3, <2>1, FS_CardinalityType
<1>5. QED BY <1>4 DEF a, b

\* ... and no position is left out; a gapless beginning is numbered by itself.
LEMMA NthOnto ==
  ASSUME NEW S \in SUBSET Nat, IsFiniteSet(S), NEW j \in S
  PROVE  \E n \in 1 .. Cardinality(S) : Nth(S, n) = j
<1> DEFINE n == Cardinality(UpTo(S, j))
<1>1. n \in 1 .. Cardinality(S)
  BY RankInjective
<1>2. Nth(S, n) \in S /\ Cardinality(UpTo(S, Nth(S, n))) = n
  BY <1>1, NthOf
<1>3. Nth(S, n) = j
  <2>1. Cardinality(UpTo(S, Nth(S, n))) = Cardinality(UpTo(S, j))
    BY <1>2
  <2>2. \A i, k \in S : Cardinality(UpTo(S, i)) = Cardinality(UpTo(S, k)) => i = k
    BY RankInjective
  <2>3. QED BY <1>2, <2>1, <2>2, Zenon
<1>4. QED BY <1>1, <1>3

LEMMA NthPrefix ==
  ASSUME NEW S \in SUBSET (Nat \ {0}), IsFiniteSet(S), NEW m \in Nat, 1 .. m \subseteq S,
         NEW n \in 1 .. m
  PROVE  n \in 1 .. Cardinality(S) /\ Nth(S, n) = n
<1>1. UpTo(S, n) = 1 .. n
  <2>1. \A k \in S : k <= n => k \in 1 .. n
    OBVIOUS
  <2>2. ASSUME NEW k \in 1 .. n PROVE k \in S /\ k <= n
    <3>1. k \in 1 .. m
      OBVIOUS
    <3>2. QED BY <3>1
  <2>3. QED BY <2>1, <2>2 DEF UpTo
<1>2. Cardinality(1 .. n) = n
  BY FS_Interval
<1>3. n \in S /\ S \in SUBSET Nat
  OBVIOUS
<1>4. n \in 1 .. Cardinality(S)
  <2>1. Cardinality(UpTo(S, n)) \in 1 .. Cardinality(S)
    BY <1>3, RankInjective
  <2>2. QED BY <1>1, <1>2, <2>1
<1>5. Nth(S, n) \in S /\ Cardinality(UpTo(S, Nth(S, n))) = n
  BY <1>3, <1>4, NthOf
<1>6. QED
  <2>1. Cardinality(UpTo(S, n)) = n
    BY <1>1, <1>2
  <2>2. \A i, k \in S : Cardinality(UpTo(S, i)) = Cardinality(UpTo(S, k)) => i = k
    BY <1>3, RankInjective
  <2>3. Nth(S, n) = n
    BY <1>3, <1>5, <2>1, <2>2, Zenon
  <2>4. QED BY <1>4, <2>3

\* What is kept of a list, and where.
LEMMA KeptElements ==
  ASSUME NEW R, NEW q \in Seq(R), NEW S \in SUBSET DOMAIN q
  PROVE  /\ S \in SUBSET (Nat \ {0}) /\ IsFiniteSet(S) /\ Cardinality(S) \in Nat
         /\ Kept(q, S) \in Seq(R) /\ Len(Kept(q, S)) = Cardinality(S)
         /\ \A n \in 1 .. Cardinality(S) : Nth(S, n) \in S /\ Kept(q, S)[n] = q[Nth(S, n)]
<1>1. S \in SUBSET (1 .. Len(q)) /\ Len(q) \in Nat
  OBVIOUS
<1>2. IsFiniteSet(S) /\ Cardinality(S) \in Nat
  <2>1. IsFiniteSet(1 .. Len(q))
    BY <1>1, IntervalSize
  <2>2. QED BY <1>1, <2>1, FS_Subset, FS_CardinalityType
<1>3. \A n \in 1 .. Cardinality(S) : Nth(S, n) \in S
  <2>1. S \in SUBSET Nat
    BY <1>1
  <2>2. QED BY <1>2, <2>1, NthOf
<1>4. \A n \in 1 .. Cardinality(S) : q[Nth(S, n)] \in R
  BY <1>1, <1>3
<1>5. QED BY <1>1, <1>2, <1>3, <1>4 DEF Kept

\* A set of positions without a gap is an interval.
LEMMA Gapless ==
  ASSUME NEW n \in Nat, NEW T \in SUBSET (1 .. n), \A j \in T : \A i \in 1 .. j : i \in T
  PROVE  T = 1 .. Cardinality(T) /\ Cardinality(T) \in 0 .. n
<1> DEFINE B == {m \in 0 .. n : m + 1 \notin T}
<1>1. n \in B /\ B \in SUBSET Nat
  OBVIOUS
<1>2. PICK m \in B : \A k \in B : m <= k
  BY <1>1, LeastNumber
<1>3. T = 1 .. m
  <2>1. ASSUME NEW i \in 1 .. m PROVE i \in T
    <3>1. i - 1 \in 0 .. n /\ i - 1 \notin B
      BY <1>2
    <3>2. QED BY <3>1
  <2>2. ASSUME NEW i \in T PROVE i \in 1 .. m
    BY <1>2
  <2>3. QED BY <2>1, <2>2
<1>4. Cardinality(1 .. m) = m
  BY <1>2, FS_Interval
<1>5. QED BY <1>2, <1>3, <1>4

LEMMA InsertedAt ==
  ASSUME NEW R, NEW q \in Seq(R), NEW i \in 1 .. Len(q) + 1, NEW r \in R
  PROVE  /\ InsertAt(q, i, r) \in Seq(R) /\ Len(InsertAt(q, i, r)) = Len(q) + 1
         /\ \A n \in 1 .. Len(q) + 1 :
              InsertAt(q, i, r)[n] = IF n < i THEN q[n] ELSE IF n = i THEN r ELSE q[n - 1]
<1> DEFINE a == SubSeq(q, 1, i - 1)
           b == SubSeq(q, i, Len(q))
           ar == a \o <<r>>
<1>0. Len(q) \in Nat /\ i \in Nat /\ \A n \in 1 .. Len(q) : q[n] \in R
  OBVIOUS
<1>1. a \in Seq(R) /\ Len(a) = i - 1 /\ \A n \in 1 .. i - 1 : a[n] = q[n]
  BY <1>0, SubSeqProperties
<1>2. b \in Seq(R) /\ Len(b) = Len(q) - i + 1 /\ \A n \in 1 .. Len(q) - i + 1 : b[n] = q[i + n - 1]
  BY <1>0, SubSeqProperties
<1> HIDE DEF a, b
<1>3. ar \in Seq(R) /\ Len(ar) = i /\ \A n \in 1 .. i : ar[n] = IF n < i THEN q[n] ELSE r
  BY <1>0, <1>1
<1> HIDE DEF ar
<1>4. InsertAt(q, i, r) = ar \o b
  BY DEF InsertAt, ar, a, b
<1>5. /\ ar \o b \in Seq(R) /\ Len(ar \o b) = Len(q) + 1
      /\ \A n \in 1 .. Len(q) + 1 : (ar \o b)[n] = IF n <= i THEN ar[n] ELSE b[n - i]
  BY <1>0, <1>2, <1>3, ConcatProperties
<1>6. QED BY <1>0, <1>2, <1>3, <1>4, <1>5

------------------------------------------------------------------------------
(* The list of roots *)

\* A list in tree order; the same path may be in it twice.
Sorted(q) == \A i, k \in DOMAIN q : i < k => ~Less(q[k].path, q[i].path)

LEMMA DirPaths == Dir \subseteq Path /\ \A r \in Request : r.path \in Dir /\ r.path \in Path
BY DirAssumption DEF Path, Request

\* partition_point finds the place: what comes before r is in front of it, the
\* rest is not.
LEMMA PositionOf ==
  ASSUME roots \in Seq(Request), Sorted(roots), NEW p \in Path
  PROVE  /\ Position(p) \in 1 .. Len(roots) + 1
         /\ \A n \in DOMAIN roots : n < Position(p) <=> Less(roots[n].path, p)
<1> DEFINE T == {i \in DOMAIN roots : Less(roots[i].path, p)}
<1>1. Len(roots) \in Nat /\ T \in SUBSET (1 .. Len(roots))
  OBVIOUS
<1>2. ASSUME NEW j \in T, NEW i \in 1 .. j PROVE i \in T
  <2>1. i \in DOMAIN roots /\ j \in DOMAIN roots
    BY <1>1, <1>2
  <2>2. roots[i].path \in Path /\ roots[j].path \in Path
    BY <2>1, DirPaths
  <2>3. i = j \/ ~Less(roots[j].path, roots[i].path)
    BY <1>1, <1>2, <2>1 DEF Sorted
  <2>4. Less(roots[i].path, p)
    BY <1>2, <2>2, <2>3, LessIsTotal, LessIsTransitive
  <2>5. QED BY <2>1, <2>4
<1>3. T = 1 .. Cardinality(T) /\ Cardinality(T) \in 0 .. Len(roots)
  <2>1. \A j \in T : \A i \in 1 .. j : i \in T
    BY <1>2
  <2> HIDE DEF T
  <2>2. QED BY <1>1, <2>1, Gapless
<1>4. Position(p) = Cardinality(T) + 1
  BY DEF Position
<1>5. \A n \in DOMAIN roots : n \in T <=> Less(roots[n].path, p)
  OBVIOUS
<1> HIDE DEF T
<1>6. QED BY <1>1, <1>3, <1>4, <1>5

\* The list with r has r and, in their order, all roots but those that go.
LEMMA ListedElements ==
  ASSUME roots \in Seq(Request), Sorted(roots), NEW r \in Request, NEW f
  PROVE  LET q == Listed(r, f)
             i == Position(r.path)
             stay == DOMAIN roots \ Superseded(r, f)
         IN  /\ q \in Seq(Request) /\ i \in DOMAIN q /\ q[i] = r
             /\ \E g \in [DOMAIN q \ {i} -> stay] :
                  /\ \A n \in DOMAIN q \ {i} : q[n] = roots[g[n]]
                  /\ \A m, n \in DOMAIN q \ {i} : m < n => g[m] < g[n]
                  /\ \A j \in stay : \E n \in DOMAIN q \ {i} : g[n] = j
                  /\ \A n \in DOMAIN q \ {i} : n < i <=> g[n] < i
<1> DEFINE q == Listed(r, f)
           i == Position(r.path)
           stay == DOMAIN roots \ Superseded(r, f)
           c == Cardinality(stay)
           kept == Kept(roots, stay)
           g == [n \in (1 .. c + 1) \ {i} |-> IF n < i THEN Nth(stay, n) ELSE Nth(stay, n - 1)]
<1>1. r.path \in Path
  BY DirPaths
<1>2. i \in 1 .. Len(roots) + 1 /\ Len(roots) \in Nat
  BY <1>1, PositionOf
<1>3. Superseded(r, f) \subseteq i .. Len(roots)
  BY DEF Superseded
<1>4. stay \in SUBSET DOMAIN roots /\ 1 .. (i - 1) \subseteq stay /\ i - 1 \in Nat
  BY <1>2, <1>3
<1> HIDE DEF i, stay
<1>5. /\ stay \in SUBSET (Nat \ {0}) /\ IsFiniteSet(stay) /\ c \in Nat
      /\ kept \in Seq(Request) /\ Len(kept) = c
      /\ \A n \in 1 .. c : Nth(stay, n) \in stay /\ kept[n] = roots[Nth(stay, n)]
  BY <1>4, KeptElements
<1>6. \A n \in 1 .. i - 1 : n \in 1 .. c /\ Nth(stay, n) = n
  BY <1>4, <1>5, NthPrefix
<1>7. i \in 1 .. c + 1
  <2>1. i - 1 \in 1 .. c \/ i = 1
    BY <1>2, <1>6
  <2>2. QED BY <1>2, <1>5, <2>1
<1>8. \A m, n \in 1 .. c : m < n => Nth(stay, m) < Nth(stay, n)
  BY <1>5, NthOrdered
<1>9. \A j \in stay : \E n \in 1 .. c : Nth(stay, n) = j
  BY <1>5, NthOnto
<1> HIDE DEF c, kept
<1>10. q = InsertAt(kept, i, r)
  BY DEF Listed, i, stay, kept
<1>11. /\ q \in Seq(Request) /\ Len(q) = c + 1
       /\ \A n \in 1 .. c + 1 : q[n] = IF n < i THEN kept[n] ELSE IF n = i THEN r ELSE kept[n - 1]
  <2>1. i \in 1 .. Len(kept) + 1 /\ kept \in Seq(Request)
    BY <1>5, <1>7
  <2>2. /\ InsertAt(kept, i, r) \in Seq(Request) /\ Len(InsertAt(kept, i, r)) = Len(kept) + 1
        /\ \A n \in 1 .. Len(kept) + 1 : InsertAt(kept, i, r)[n] =
             IF n < i THEN kept[n] ELSE IF n = i THEN r ELSE kept[n - 1]
    BY <2>1, InsertedAt, SMTT(20)
  <2>3. Len(kept) = c
    BY <1>5
  <2>4. QED BY <1>10, <2>2, <2>3
<1> HIDE DEF q
<1>12. DOMAIN q = 1 .. c + 1
  BY <1>5, <1>11
<1>13. \A n \in (1 .. c + 1) \ {i} : (n < i => n \in 1 .. c) /\ (~(n < i) => n - 1 \in 1 .. c)
  BY <1>5, <1>7
<1>14. g \in [(1 .. c + 1) \ {i} -> stay]
  BY <1>5, <1>13
<1>15. \A n \in (1 .. c + 1) \ {i} : q[n] = roots[g[n]]
  BY <1>5, <1>7, <1>11, <1>13
<1>16. \A m, n \in (1 .. c + 1) \ {i} : m < n => g[m] < g[n]
  <2>1. TAKE m, n \in (1 .. c + 1) \ {i}
  <2>2. HAVE m < n
  <2>3. CASE n < i
    BY <1>5, <1>7, <1>8, <1>13, <2>2, <2>3
  <2>4. CASE m < i /\ i < n
    <3>1. m < n - 1
      BY <1>5, <1>7, <2>4
    <3>2. QED BY <1>7, <1>5, <1>8, <1>13, <2>4, <3>1
  <2>5. CASE i < m
    <3>1. m - 1 \in 1 .. c /\ n - 1 \in 1 .. c /\ m - 1 < n - 1
      BY <1>5, <1>7, <2>2, <2>5
    <3>2. QED BY <1>5, <1>7, <1>8, <2>2, <2>5, <3>1
  <2>6. QED BY <1>7, <1>5, <2>2, <2>3, <2>4, <2>5
<1>17. \A j \in stay : \E n \in (1 .. c + 1) \ {i} : g[n] = j
  <2>1. TAKE j \in stay
  <2>2. PICK n \in 1 .. c : Nth(stay, n) = j
    BY <1>9
  <2>3. CASE n < i
    BY <1>5, <1>7, <2>2, <2>3
  <2>4. CASE ~(n < i)
    <3>1. n + 1 \in (1 .. c + 1) \ {i} /\ ~(n + 1 < i) /\ (n + 1) - 1 = n
      BY <1>5, <1>7, <2>4
    <3>2. g[n + 1] = j
      BY <2>2, <3>1
    <3>3. QED BY <3>1, <3>2
  <2>5. QED BY <2>3, <2>4
<1>18. \A n \in (1 .. c + 1) \ {i} : n < i <=> g[n] < i
  <2>1. TAKE n \in (1 .. c + 1) \ {i}
  <2>2. CASE n < i
    BY <1>6, <1>7, <1>5, <2>2
  <2>3. CASE ~(n < i)
    <3>1. n - 1 \in 1 .. c /\ g[n] = Nth(stay, n - 1)
      BY <1>13, <2>3
    <3>2. ASSUME Nth(stay, n - 1) < i PROVE FALSE
      <4>1. Nth(stay, n - 1) \in 1 .. i - 1
        <5>1. Nth(stay, n - 1) \in stay
          BY <1>5, <3>1
        <5>2. Nth(stay, n - 1) \in Nat \ {0}
          BY <1>5, <5>1
        <5>3. QED BY <1>2, <3>2, <5>2
      <4>2. Nth(stay, Nth(stay, n - 1)) = Nth(stay, n - 1) /\ Nth(stay, n - 1) \in 1 .. c
        BY <1>6, <4>1
      <4>3. Nth(stay, n - 1) < n - 1
        <5>1. n \in Int /\ i \in Int /\ n # i
          BY <1>2
        <5>2. QED BY <2>3, <4>1, <5>1
      <4>4. Nth(stay, Nth(stay, n - 1)) < Nth(stay, n - 1)
        <5>1. \A m \in 1 .. c : m < n - 1 => Nth(stay, m) < Nth(stay, n - 1)
          BY <1>8, <3>1
        <5>2. QED BY <4>2, <4>3, <5>1
      <4>5. QED BY <1>2, <4>1, <4>2, <4>4
    <3>3. QED BY <2>3, <3>1, <3>2
  <2>4. QED BY <2>2, <2>3
<1> HIDE DEF g
<1>19. \E h \in [DOMAIN q \ {i} -> stay] :
         /\ \A n \in DOMAIN q \ {i} : q[n] = roots[h[n]]
         /\ \A m, n \in DOMAIN q \ {i} : m < n => h[m] < h[n]
         /\ \A j \in stay : \E n \in DOMAIN q \ {i} : h[n] = j
         /\ \A n \in DOMAIN q \ {i} : n < i <=> h[n] < i
  BY <1>12, <1>14, <1>15, <1>16, <1>17, <1>18
<1>20. q \in Seq(Request) /\ i \in DOMAIN q /\ q[i] = r
  BY <1>5, <1>7, <1>11, <1>12
<1>21. QED BY <1>19, <1>20 DEF q, i, stay

------------------------------------------------------------------------------
(* Type correctness and the order of the list *)

\* A step of the backend that answers the worker's call, or asks for a recrawl.
BackendAnswers ==
  /\ UNCHANGED workerOnly
  /\ recrawl' \in BOOLEAN /\ (recrawl => recrawl') /\ stop' \in BOOLEAN
  /\ call' = call \/ (/\ call.pc \in {"called", "resume", "create"}
                      /\ \E pc \in {"resume", "create", "done"}, ok \in BOOLEAN :
                           call' = [call EXCEPT !.pc = pc, !.ok = ok])

\* All steps there are.
RootsStep == \/ Worker
             \/ \E r \in Request : AddRoot(r)
             \/ \E f \in SUBSET Dir : SetFilter(f)
             \/ BackendAnswers

LEMMA RootsInitTypes ==
  ASSUME RootsInit
  PROVE  RootsTypes /\ RootsControl /\ Sorted(roots)
<1>1. RootsTypes
  <2>1. <<>> \in Seq(Request) /\ NoCall \in [pc : {"none", "called", "resume", "create", "done"},
                                          path : Dir \cup {<<>>}, recursive : BOOLEAN, ok : BOOLEAN]
    BY DEF NoCall
  <2>2. <<>> \in Seq([path : Dir, recursive : BOOLEAN, answer : {"known", "invalid", "failed", "yes"}])
    OBVIOUS
  <2>3. tree \in [dead : SUBSET Dir, lists : SUBSET Dir, linked : SUBSET Dir]
    BY DEF RootsInit
  <2>4. nodes \in [Dir -> {"none", "plain", "children", "recursive"}]
    BY DEF RootsInit
  <2>5. QED BY <2>1, <2>2, <2>3, <2>4 DEF RootsInit, RootsTypes
<1>2. RootsControl /\ Sorted(roots)
  BY DEF RootsInit, RootsControl, Sorted, NoCall
<1>3. QED BY <1>1, <1>2

LEMMA HeadAndTail ==
  ASSUME RootsTypes
  PROVE  /\ batch # <<>> => Head(batch) \in Request /\ Tail(batch) \in Seq(Request)
         /\ tocrawl # <<>> => Head(tocrawl) \in Request /\ Tail(tocrawl) \in Seq(Request)
BY DEF RootsTypes

LEMMA ReturnTypes ==
  ASSUME RootsTypes, Return, call.path \in Dir
  PROVE  /\ call' \in [pc : {"none", "called", "resume", "create", "done"}, path : Dir \cup {<<>>},
                       recursive : BOOLEAN, ok : BOOLEAN]
         /\ call'.pc = "none"
         /\ watched' \subseteq Dir
BY DEF RootsTypes, Return, NoCall

LEMMA CallTypes ==
  ASSUME NEW p \in Dir, NEW recursive \in BOOLEAN, CallWatchDir(p, recursive)
  PROVE  /\ call' \in [pc : {"none", "called", "resume", "create", "done"}, path : Dir \cup {<<>>},
                       recursive : BOOLEAN, ok : BOOLEAN]
         /\ call'.pc = "called" /\ call'.path = p
BY DEF CallWatchDir

LEMMA AnswerTypes ==
  ASSUME RootsTypes, batch # <<>>, NEW answer \in {"known", "invalid", "failed", "yes"}, Answer(answer)
  PROVE  /\ answers' \in Seq([path : Dir, recursive : BOOLEAN, answer : {"known", "invalid", "failed", "yes"}])
         /\ batch' \in Seq(Request) /\ wpc' \in {"loop", "batch"}
         /\ (batch' = <<>>) <=> wpc' \in {"loop", "recrawl"}
BY HeadAndTail DEF RootsTypes, Answer, Request

\* What was answered stays so; one answer is added.
LEMMA GivenTypes ==
  ASSUME RootsTypes
  PROVE  \A a \in Given : /\ a.path \in Dir /\ a.recursive \in BOOLEAN
                          /\ a.answer \in {"known", "invalid", "failed", "yes"}
<1> DEFINE R == [path : Dir, recursive : BOOLEAN, answer : {"known", "invalid", "failed", "yes"}]
<1>1. answers \in Seq(R)
  BY DEF RootsTypes
<1>2. \A n \in DOMAIN answers : answers[n] \in R
  <2> HIDE DEF R
  <2>1. QED BY <1>1
<1>3. QED BY <1>2 DEF Given

LEMMA GivenGrows ==
  ASSUME RootsTypes, batch # <<>>, NEW answer \in {"known", "invalid", "failed", "yes"}, Answer(answer)
  PROVE  Given' = Given \cup {[path |-> Head(batch).path, recursive |-> Head(batch).recursive,
                               answer |-> answer]}
<1> DEFINE R == [path : Dir, recursive : BOOLEAN, answer : {"known", "invalid", "failed", "yes"}]
           a == [path |-> Head(batch).path, recursive |-> Head(batch).recursive, answer |-> answer]
<1>1. answers \in Seq(R) /\ a \in R /\ answers' = Append(answers, a)
  BY HeadAndTail DEF RootsTypes, Answer, Request
<1> HIDE DEF R, a
<1>2. /\ Len(answers) \in Nat /\ DOMAIN answers = 1 .. Len(answers)
      /\ DOMAIN answers' = 1 .. Len(answers) + 1
      /\ \A n \in 1 .. Len(answers) : answers'[n] = answers[n]
      /\ answers'[Len(answers) + 1] = a
  BY <1>1
<1>3. \A n \in 1 .. Len(answers) + 1 : n \in 1 .. Len(answers) \/ n = Len(answers) + 1
  BY <1>2
<1>4. 1 .. Len(answers) \subseteq 1 .. Len(answers) + 1 /\ Len(answers) + 1 \in 1 .. Len(answers) + 1
  BY <1>2
<1>5. QED BY <1>2, <1>3, <1>4 DEF Given, a

LEMMA WithNewTypes ==
  ASSUME RootsTypes, NEW new \in SUBSET Dir, NEW lists \in SUBSET Dir
  PROVE  /\ WithNew(tree, new, lists) \in [dead : SUBSET Dir, lists : SUBSET Dir, linked : SUBSET Dir]
         /\ WithNew(tree, new, lists).dead = tree.dead
         /\ WithNew(tree, new, lists).linked \subseteq tree.linked \cup new
<1> DEFINE linked == {d \in new : Parent(d) \in Dir /\ (nodes[Parent(d)] # "none" \/ Parent(d) \in new)}
           parents == {Parent(d) : d \in linked}
<1>1. linked \subseteq new /\ linked \subseteq Dir
  OBVIOUS
<1>2. parents \subseteq Dir
  OBVIOUS
<1>3. WithNew(tree, new, lists)
        = [tree EXCEPT !.linked = @ \cup linked, !.lists = @ \cup lists \cup parents]
  BY DEF WithNew
<1> HIDE DEF linked, parents
<1>4. /\ tree \in [dead : SUBSET Dir, lists : SUBSET Dir, linked : SUBSET Dir]
      /\ tree.dead \subseteq Dir /\ tree.lists \subseteq Dir /\ tree.linked \subseteq Dir
  BY DEF RootsTypes
<1>5. WithNew(tree, new, lists)
        = [dead |-> tree.dead, lists |-> tree.lists \cup lists \cup parents, linked |-> tree.linked \cup linked]
  BY <1>3, <1>4
<1>6. QED BY <1>1, <1>2, <1>4, <1>5

\* What a crawl of p would come by, had it not to leave it out.
PassedOver(p, met, recursive) == {q \in Dir \ met : IsParentOf(p, q) /\ (Parent(q) = p \/ recursive)}

LEMMA CrawledTypes ==
  ASSUME RootsTypes, NEW p, NEW recursive \in BOOLEAN, NEW met \in SUBSET Dir
  PROVE  /\ Crawled(p, met, recursive) \in [dead : SUBSET Dir, lists : SUBSET Dir, linked : SUBSET Dir]
         /\ Crawled(p, met, recursive).linked \subseteq tree.linked \cup {d \in met : nodes[d] = "none"}
         /\ \A d \in Crawled(p, met, recursive).dead :
              \/ d \in tree.dead \ met
              \/ d \in tree.linked \cup met /\ \E q \in PassedOver(p, met, recursive) : Reaches(q, TRUE, d)
<1> DEFINE watching == {d \in met : recursive \/ nodes[d] \in {"children", "recursive"}}
           new == {d \in met : nodes[d] = "none"}
           t == WithNew(tree, new, watching)
           gone == UNION {DeleteRec(t, d) : d \in NotMet(t, p, met, recursive)}
<1>1. watching \in SUBSET Dir /\ new \in SUBSET Dir /\ new \subseteq met
  OBVIOUS
<1> HIDE DEF watching
<1>2. /\ t \in [dead : SUBSET Dir, lists : SUBSET Dir, linked : SUBSET Dir]
      /\ t.dead = tree.dead /\ t.linked \subseteq tree.linked \cup new
  BY <1>1, WithNewTypes
<1> HIDE DEF t, new
<1>3. ASSUME NEW q \in NotMet(t, p, met, recursive), NEW d \in DeleteRec(t, q)
      PROVE  /\ d \in Dir /\ d \in tree.linked \cup new
             /\ q \in PassedOver(p, met, recursive) /\ Reaches(q, TRUE, d)
  <2>1. /\ q \in t.linked \ met /\ IsParentOf(p, q) /\ (Parent(q) = p \/ recursive)
    BY DEF NotMet
  <2>2. d = q \/ (d \in t.linked /\ IsParentOf(q, d))
    BY DEF DeleteRec
  <2>3. QED BY <1>2, <2>1, <2>2 DEF PassedOver, Reaches
<1>4. \A d \in gone : /\ d \in Dir /\ d \in tree.linked \cup new
                      /\ \E q \in PassedOver(p, met, recursive) : Reaches(q, TRUE, d)
  BY <1>3
<1>5. Crawled(p, met, recursive) = [t EXCEPT !.dead = (@ \ met) \cup gone]
  BY DEF Crawled, t, new, watching
<1> HIDE DEF gone
<1>6. /\ Crawled(p, met, recursive).dead = (tree.dead \ met) \cup gone
      /\ Crawled(p, met, recursive).linked = t.linked /\ gone \subseteq Dir
      /\ Crawled(p, met, recursive) \in [dead : SUBSET Dir, lists : SUBSET Dir, linked : SUBSET Dir]
  BY <1>2, <1>4, <1>5
<1>7. QED BY <1>1, <1>2, <1>4, <1>6 DEF new

LEMMA WalkTypes ==
  ASSUME RootsTypes, NEW stops, NEW p, NEW recursive \in BOOLEAN
  PROVE  /\ Met(stops, p, recursive) \subseteq Dir
         /\ WithMet(nodes, Met(stops, p, recursive), recursive)
              \in [Dir -> {"none", "plain", "children", "recursive"}]
BY DEF RootsTypes, Met, WithMet

\* Where r comes into the list, nothing before it is behind it or the other way round.
LEMMA ListedSorted ==
  ASSUME roots \in Seq(Request), Sorted(roots), NEW r \in Request, NEW f
  PROVE  Listed(r, f) \in Seq(Request) /\ Sorted(Listed(r, f))
<1> DEFINE q == Listed(r, f)
           i == Position(r.path)
           stay == DOMAIN roots \ Superseded(r, f)
<1>1. /\ q \in Seq(Request) /\ i \in DOMAIN q /\ q[i] = r
      /\ \E g \in [DOMAIN q \ {i} -> stay] :
           /\ \A n \in DOMAIN q \ {i} : q[n] = roots[g[n]]
           /\ \A m, n \in DOMAIN q \ {i} : m < n => g[m] < g[n]
           /\ \A j \in stay : \E n \in DOMAIN q \ {i} : g[n] = j
           /\ \A n \in DOMAIN q \ {i} : n < i <=> g[n] < i
  BY ListedElements
<1>2. i \in Nat /\ \A n \in DOMAIN roots : n < i <=> Less(roots[n].path, r.path)
  <2>1. r.path \in Path
    BY DirPaths
  <2>2. QED BY <2>1, PositionOf
<1>3. stay \subseteq DOMAIN roots
  OBVIOUS
<1> HIDE DEF q, i, stay
<1>4. PICK g \in [DOMAIN q \ {i} -> stay] :
        /\ \A n \in DOMAIN q \ {i} : q[n] = roots[g[n]]
        /\ \A m, n \in DOMAIN q \ {i} : m < n => g[m] < g[n]
        /\ \A n \in DOMAIN q \ {i} : n < i <=> g[n] < i
  BY <1>1
<1>5. \A n \in DOMAIN q \ {i} : g[n] \in DOMAIN roots
  BY <1>3, <1>4
<1>6. ASSUME NEW m \in DOMAIN q, NEW n \in DOMAIN q, m < n PROVE ~Less(q[n].path, q[m].path)
  <2>1. CASE m # i /\ n # i
    <3>1. g[m] < g[n] /\ g[m] \in DOMAIN roots /\ g[n] \in DOMAIN roots
      BY <1>4, <1>5, <1>6, <2>1
    <3>2. ~Less(roots[g[n]].path, roots[g[m]].path)
      BY <3>1 DEF Sorted
    <3>3. QED BY <1>4, <2>1, <3>2
  <2>2. CASE m = i /\ n # i
    <3>1. ~(n < i) /\ g[n] \in DOMAIN roots
      BY <1>1, <1>5, <1>6, <2>2
    <3>2. ~Less(roots[g[n]].path, r.path)
      BY <1>2, <1>4, <2>2, <3>1
    <3>3. QED BY <1>1, <1>4, <2>2, <3>2
  <2>3. CASE n = i /\ m # i
    <3>1. m < i /\ g[m] \in DOMAIN roots
      BY <1>5, <1>6, <2>3
    <3>2. Less(roots[g[m]].path, r.path)
      BY <1>2, <1>4, <2>3, <3>1
    <3>3. roots[g[m]].path \in Path /\ r.path \in Path
      BY <3>1, DirPaths
    <3>4. ~Less(r.path, roots[g[m]].path)
      BY <3>2, <3>3, LessIsTotal, LessIsTransitive
    <3>5. QED BY <1>1, <1>4, <2>3, <3>4
  <2>4. QED BY <1>1, <1>6, <2>1, <2>2, <2>3
<1>7. QED BY <1>1, <1>6 DEF Sorted, q

LEMMA RootsTypesStep ==
  ASSUME RootsTypes, RootsControl, Sorted(roots), RootsStep
  PROVE  RootsTypes' /\ RootsControl' /\ Sorted(roots)'
<1> USE DEF RootsTypes, RootsControl
<1>1. CASE TakeRequests
  BY <1>1 DEF TakeRequests
<1>2. CASE KnownRoot \/ InvalidRoot
  <2>1. batch # <<>>
    BY <1>2 DEF KnownRoot, InvalidRoot
  <2>2. (Answer("known") \/ Answer("invalid")) /\ wpc = "batch"
    BY <1>2 DEF KnownRoot, InvalidRoot
  <2>3. QED BY <1>2, <2>1, <2>2, AnswerTypes DEF KnownRoot, InvalidRoot
<1>3. CASE NewRoot
  <2>1. batch # <<>> /\ wpc = "batch"
    BY <1>3 DEF NewRoot
  <2>2. Head(batch) \in Request /\ Head(batch).path \in Dir /\ Head(batch).recursive \in BOOLEAN
    BY <2>1, HeadAndTail DEF Request
  <2>3. tree' \in [dead : SUBSET Dir, lists : SUBSET Dir, linked : SUBSET Dir]
    <3> DEFINE new == {Head(batch).path}
    <3>1. new \in SUBSET Dir
      BY <2>2
    <3>2. tree' = WithNew(tree, new, new) \/ tree' = tree
      BY <1>3 DEF NewRoot
    <3> DEFINE with == WithNew(tree, new, new)
    <3> HIDE DEF new
    <3>3. with \in [dead : SUBSET Dir, lists : SUBSET Dir, linked : SUBSET Dir]
      BY <3>1, WithNewTypes
    <3>4. tree' = with \/ tree' = tree
      BY <3>2
    <3> HIDE DEF with
    <3>5. QED BY <3>3, <3>4
  <2>4. nodes' \in [Dir -> {"none", "plain", "children", "recursive"}]
    BY <1>3, <2>2 DEF NewRoot
  <2>5. CallWatchDir(Head(batch).path, Head(batch).recursive) /\ wpc' = "root"
        /\ UNCHANGED <<filter, recrawl, stop, todo, batch, roots, towatch, snapshot, tocrawl, answers, watched,
                       reopened>>
    BY <1>3 DEF NewRoot
  <2>6. QED BY <2>1, <2>2, <2>3, <2>4, <2>5, CallTypes DEF Sorted
<1>4. CASE RootRefused
  <2>1. batch # <<>> /\ call.path \in Dir
    BY <1>4 DEF RootRefused
  <2>2. Return /\ Answer("failed") /\ towatch = {} /\ tocrawl = <<>>
    BY <1>4 DEF RootRefused
  <2>3. QED BY <1>4, <2>1, <2>2, AnswerTypes, ReturnTypes DEF RootRefused
<1>5. CASE CrawlRoot
  <2>1. batch # <<>> /\ call.path \in Dir /\ Return
    BY <1>5 DEF CrawlRoot
  <2>2. Head(batch) \in Request /\ Head(batch).path \in Dir /\ Head(batch).recursive \in BOOLEAN
    BY <2>1, HeadAndTail DEF Request
  <2> DEFINE met == Met(CrawlRootSkips, Head(batch).path, Head(batch).recursive)
             new == {d \in met : nodes[d] = "none"}
             lists == IF Head(batch).recursive THEN new ELSE {}
  <2>3. met \subseteq Dir /\ new \subseteq Dir /\ lists \subseteq Dir
    BY <2>2, WalkTypes
  <2>4. tree' = WithNew(tree, new, lists)
    BY <1>5 DEF CrawlRoot
  <2>5. tree' \in [dead : SUBSET Dir, lists : SUBSET Dir, linked : SUBSET Dir]
    <3> HIDE DEF new, lists
    <3>1. QED BY <2>3, <2>4, WithNewTypes
  <2>6. QED BY <1>5, <2>1, <2>2, <2>5, ReturnTypes, WalkTypes DEF CrawlRoot
<1>6. CASE WatchNext
  <2>1. PICK d \in towatch : CallWatchDir(d, TRUE) /\ towatch' = towatch \ {d}
    BY <1>6 DEF WatchNext
  <2>2. QED BY <1>6, <2>1, CallTypes DEF WatchNext
<1>7. CASE Watched
  <2>1. call.path \in Dir /\ Return
    BY <1>7 DEF Watched
  <2>2. QED BY <1>7, <2>1, ReturnTypes DEF Watched
<1>8. CASE ListRoot
  <2>1. batch # <<>> /\ Answer("yes") /\ wpc = "crawl" /\ towatch = {} /\ tocrawl = <<>>
    BY <1>8 DEF ListRoot
  <2>2. roots' = Listed(Head(batch), snapshot) /\ Head(batch) \in Request
    BY <1>8, <2>1, HeadAndTail DEF ListRoot
  <2>3. roots' \in Seq(Request) /\ Sorted(roots')
    BY <2>2, ListedSorted
  <2>4. QED BY <1>8, <2>1, <2>3, AnswerTypes DEF ListRoot, Sorted
<1>9. CASE Recrawl
  BY <1>9 DEF Recrawl, TakeRecrawl, ToCrawl
<1>10. CASE CrawlNext
  <2>1. Head(tocrawl) \in Request /\ Head(tocrawl).path \in Dir /\ Tail(tocrawl) \in Seq(Request)
    BY <1>10, HeadAndTail DEF CrawlNext, Request
  <2>2. (nodes[Head(tocrawl).path] = "recursive") \in BOOLEAN
    OBVIOUS
  <2>3. tree' \in [dead : SUBSET Dir, lists : SUBSET Dir, linked : SUBSET Dir]
    <3> DEFINE p == Head(tocrawl).path
               recursive == nodes[p] = "recursive"
               met == Met(snapshot, p, recursive)
    <3>1. recursive \in BOOLEAN
      OBVIOUS
    <3>2. tree' = Crawled(p, met, recursive)
      BY <1>10 DEF CrawlNext
    <3> HIDE DEF p, recursive
    <3>3. met \in SUBSET Dir
      BY <3>1, WalkTypes
    <3> HIDE DEF met
    <3>4. QED BY <3>1, <3>2, <3>3, CrawledTypes
  <2>4. QED BY <1>10, <2>1, <2>2, <2>3, WalkTypes DEF CrawlNext
<1>11. CASE RecrawlDone
  BY <1>11 DEF RecrawlDone
<1>12. ASSUME NEW r \in Request, AddRoot(r) PROVE RootsTypes' /\ RootsControl' /\ Sorted(roots)'
  BY <1>12 DEF AddRoot, Sorted
<1>13. ASSUME NEW f \in SUBSET Dir, SetFilter(f) PROVE RootsTypes' /\ RootsControl' /\ Sorted(roots)'
  BY <1>13 DEF SetFilter, Sorted
<1>14. CASE BackendAnswers
  BY <1>14 DEF BackendAnswers, workerOnly, Sorted
<1>15. UNCHANGED roots => Sorted(roots)'
  BY DEF Sorted
<1>16. QED BY <1>1, <1>2, <1>3, <1>4, <1>5, <1>6, <1>7, <1>8, <1>9, <1>10, <1>11, <1>12, <1>13, <1>14
          DEF RootsStep, Worker

\* The list is in tree order: what is below a root follows it without a gap.
LEMMA SortedIsTreeOrder ==
  ASSUME roots \in Seq(Request), Sorted(roots)
  PROVE  TreeOrder
<1>1. SUFFICES ASSUME NEW i \in DOMAIN roots, NEW k \in DOMAIN roots,
                      IsParentOf(roots[i].path, roots[k].path)
               PROVE  i < k /\ \A j \in i .. k : Reaches(roots[i].path, TRUE, roots[j].path)
  BY DEF TreeOrder
<1>2. \A n \in DOMAIN roots : n \in Nat /\ roots[n].path \in Path
  BY DirPaths
<1>3. Less(roots[i].path, roots[k].path)
  BY <1>1, <1>2, ParentIsLess
<1>4. i < k
  <2>1. ~Less(roots[k].path, roots[i].path) /\ i # k
    BY <1>2, <1>3, LessIsTotal, LessIsTransitive
  <2>2. ~(k < i)
    BY <1>3 DEF Sorted
  <2>3. QED BY <1>2, <2>1, <2>2
<1>5. ASSUME NEW j \in i .. k PROVE Reaches(roots[i].path, TRUE, roots[j].path)
  <2>1. j \in DOMAIN roots /\ (j = i \/ i < j) /\ (j = k \/ j < k)
    BY <1>2
  <2>2. CASE j = i
    BY <2>2 DEF Reaches
  <2>3. CASE j = k
    BY <1>1, <2>3 DEF Reaches
  <2>4. CASE i < j /\ j < k
    <3>1. ~Less(roots[j].path, roots[i].path) /\ ~Less(roots[k].path, roots[j].path)
      BY <2>1, <2>4 DEF Sorted
    <3>2. \/ roots[j].path = roots[i].path
          \/ roots[j].path = roots[k].path
          \/ Less(roots[i].path, roots[j].path) /\ Less(roots[j].path, roots[k].path)
      BY <1>2, <2>1, <3>1, LessIsTotal
    <3>3. QED BY <1>1, <1>2, <2>1, <3>2, NoGap DEF Reaches
  <2>5. QED BY <2>1, <2>2, <2>3, <2>4
<1>6. QED BY <1>4, <1>5

------------------------------------------------------------------------------
(* Walks *)

LEMMA NotBelowItself == \A p : ~IsParentOf(p, p)
BY DEF IsParentOf

\* The more a walk has to leave out, the less it meets.
LEMMA MetShrinks ==
  ASSUME NEW S, NEW T, S \subseteq T, NEW p, NEW recursive
  PROVE  Met(T, p, recursive) \subseteq Met(S, p, recursive)
BY DEF Met

\* What is met below e is met below s on the way.
LEMMA MetFromBelow ==
  ASSUME NEW F \in SUBSET Dir, NEW e \in Dir, NEW s \in Dir, NEW d \in Dir,
         d \in Met(F, e, TRUE), IsParentOf(e, s), IsParentOf(s, d)
  PROVE  d \in Met(F, s, TRUE)
<1>1. \A t \in F : IsParentOf(s, t) => IsParentOf(e, t)
  BY DirPaths, BelowBelow
<1>2. QED BY <1>1 DEF Met

\* When a walk from p meets e and d is met from e, then what the walk from p leaves
\* out above d is below e.
LEMMA LeftOutBelow ==
  ASSUME NEW S \in SUBSET Dir, NEW F, NEW p \in Dir, NEW e \in Dir, NEW d \in Dir,
         e \in Met(S, p, TRUE), d \in Met(F, e, TRUE)
  PROVE  /\ IsParentOf(p, e) /\ IsParentOf(e, d) /\ IsParentOf(p, d)
         /\ \A s \in S : (IsParentOf(p, s) /\ (s = d \/ IsParentOf(s, d))) => IsParentOf(e, s)
<1>1. IsParentOf(p, e) /\ IsParentOf(e, d)
  BY DEF Met
<1>2. p \in Path /\ e \in Path /\ d \in Path /\ \A s \in S : s \in Path
  BY DirPaths
<1>3. IsParentOf(p, d)
  BY <1>1, <1>2, BelowBelow
<1>4. ASSUME NEW s \in S, IsParentOf(p, s), IsParentOf(s, d) PROVE IsParentOf(e, s)
  <2>1. s = e \/ IsParentOf(s, e) \/ IsParentOf(e, s)
    BY <1>1, <1>2, <1>4, AboveNest
  <2>2. ~(s = e \/ IsParentOf(s, e))
    BY <1>4 DEF Met
  <2>3. QED BY <2>1, <2>2
<1>5. QED BY <1>1, <1>3, <1>4

\* A refusal between s and d is one between what is above s and d.
LEMMA RefusedAbove ==
  ASSUME RootsTypes, NEW p \in Dir, NEW s \in Dir, NEW d, IsParentOf(p, s), Refused(s, d)
  PROVE  Refused(p, d)
<1>1. PICK a \in Given : /\ a.answer = "failed" /\ a.recursive
                           /\ Reaches(s, TRUE, a.path) /\ Reaches(a.path, TRUE, d)
  BY DEF Refused
<1>2. a.path \in Dir
  BY GivenTypes
<1>3. p \in Path /\ s \in Path /\ a.path \in Path
  BY <1>2, DirPaths
<1>4. Reaches(p, TRUE, a.path)
  BY <1>1, <1>3, BelowBelow DEF Reaches
<1>5. QED BY <1>1, <1>4 DEF Refused

\* All that is met below e has a recursive node, but for a refused request in between.
Marked(e) == \A d \in Met(filter, e, TRUE) : nodes[d] = "recursive" \/ Refused(e, d)

\* A recursive walk from p marks what is met below p and below all it meets, if what
\* it leaves out is ignored or has been walked before.
LEMMA WalkMarks ==
  ASSUME RootsTypes, NEW S \in SUBSET Dir, NEW p \in Dir, nodes[p] = "recursive",
         \A s \in S : s \in filter \/ nodes[s] = "recursive",
         \A e \in Dir \ {p} : nodes[e] = "recursive" => Marked(e),
         nodes' = WithMet(nodes, Met(S, p, TRUE), TRUE),
         UNCHANGED <<filter, answers>>
  PROVE  \A e \in Dir : nodes'[e] = "recursive" => Marked(e)'
<1> DEFINE met == Met(S, p, TRUE)
<1>1. met \subseteq Dir /\ Met(filter, p, TRUE) \subseteq Dir /\ filter \in SUBSET Dir
  BY DEF Met, RootsTypes
<1>2. \A d \in Dir : nodes'[d] = IF d \in met THEN "recursive" ELSE nodes[d]
  BY DEF WithMet
<1>3. \A e, d : Refused(e, d)' <=> Refused(e, d)
  BY DEF Refused, Given
<1>4. \A e : Met(filter, e, TRUE)' = Met(filter, e, TRUE) /\ Met(filter, e, TRUE) \subseteq Dir
  BY DEF Met
<1>5. ASSUME NEW e \in Dir, NEW s \in S, NEW d \in Met(filter, e, TRUE), IsParentOf(e, s),
             s = d \/ IsParentOf(s, d), s # p
      PROVE  nodes'[d] = "recursive" \/ Refused(e, d)
  <2>1. s \notin filter /\ s \in Dir /\ d \in Dir
    BY <1>5 DEF Met
  <2>2. nodes[s] = "recursive" /\ Marked(s)
    BY <1>5, <2>1
  <2>3. CASE s = d
    BY <1>2, <2>1, <2>2, <2>3
  <2>4. CASE IsParentOf(s, d)
    <3>1. d \in Met(filter, s, TRUE)
      BY <1>1, <1>5, <2>1, <2>4, MetFromBelow
    <3>2. nodes[d] = "recursive" \/ Refused(s, d)
      BY <2>2, <3>1 DEF Marked
    <3>3. QED BY <1>2, <1>5, <2>1, <3>2, RefusedAbove
  <2>5. QED BY <1>5, <2>3, <2>4
<1>6. ASSUME NEW d \in Met(filter, p, TRUE) PROVE nodes'[d] = "recursive" \/ Refused(p, d)
  <2>1. CASE d \in met
    BY <1>1, <1>2, <2>1
  <2>2. CASE d \notin met
    <3>1. PICK s \in S : IsParentOf(p, s) /\ (s = d \/ IsParentOf(s, d))
      BY <2>2 DEF Met
    <3>2. s # p
      BY <3>1, NotBelowItself
    <3>3. QED BY <1>5, <3>1, <3>2
  <2>3. QED BY <2>1, <2>2
<1>7. ASSUME NEW e \in met, NEW d \in Met(filter, e, TRUE)
      PROVE  nodes'[d] = "recursive" \/ Refused(e, d)
  <2>1. e \in Dir /\ d \in Dir
    BY <1>1, <1>4
  <2>2. /\ IsParentOf(p, e) /\ IsParentOf(p, d)
        /\ \A s \in S : (IsParentOf(p, s) /\ (s = d \/ IsParentOf(s, d))) => IsParentOf(e, s)
    BY <2>1, LeftOutBelow
  <2>3. CASE d \in met
    BY <1>2, <2>1, <2>3
  <2>4. CASE d \notin met
    <3>1. PICK s \in S : IsParentOf(p, s) /\ (s = d \/ IsParentOf(s, d))
      BY <2>1, <2>2, <2>4 DEF Met
    <3>2. IsParentOf(e, s) /\ s # p
      BY <2>2, <3>1, NotBelowItself
    <3>3. QED BY <1>5, <2>1, <3>1, <3>2
  <2>5. QED BY <2>3, <2>4
<1>8. ASSUME NEW e \in Dir, e # p, e \notin met, nodes'[e] = "recursive",
             NEW d \in Met(filter, e, TRUE)
      PROVE  nodes'[d] = "recursive" \/ Refused(e, d)
  <2>1. nodes[e] = "recursive" /\ d \in Dir
    BY <1>2, <1>4, <1>8
  <2>2. nodes[d] = "recursive" \/ Refused(e, d)
    BY <1>8, <2>1 DEF Marked
  <2>3. QED BY <1>2, <2>1, <2>2
<1> HIDE DEF met
<1>9. \A e \in Dir : nodes'[e] = "recursive" =>
        \A d \in Met(filter, e, TRUE) : nodes'[d] = "recursive" \/ Refused(e, d)
  BY <1>6, <1>7, <1>8
<1>10. QED BY <1>3, <1>4, <1>9 DEF Marked

------------------------------------------------------------------------------
(* No root is crawled twice *)

Pending == wpc \in {"root", "crawl"}

\* The node of a root says what it is.
Carries(r) == nodes[r.path] # "none" /\ (r.recursive => nodes[r.path] = "recursive")

RootsCarried == /\ \A n \in DOMAIN roots : Carries(roots[n])
                /\ Pending => Carries(Head(batch))

\* Recursive nodes are marked all the way down, but for the new root before its crawl.
DeepMarked ==
  \A e \in Dir : nodes[e] = "recursive" =>
    Marked(e) \/ (wpc = "root" /\ Head(batch).recursive /\ e = Head(batch).path)

\* A new root below a listed recursive one would have been known already.
HeadApart ==
  Pending => \A n \in DOMAIN roots :
    (roots[n].recursive /\ IsParentOf(roots[n].path, Head(batch).path)) =>
      IgnoreRec(filter, Head(batch).path) \/ Refused(roots[n].path, Head(batch).path)

\* Until a filter is taken back the marks reach as far as the walks do.
Apart == snapshot \subseteq filter /\ DeepMarked /\ HeadApart

RootsInv == /\ RootsTypes /\ RootsControl /\ Sorted(roots) /\ RootsCarried
            /\ ~reopened => Apart
            /\ NoDoubleCrawl

LEMMA SnapshotStep ==
  ASSUME snapshot \subseteq filter, RootsStep, ~reopened'
  PROVE  snapshot' \subseteq filter'
BY DEF RootsStep, Worker, TakeRequests, KnownRoot, InvalidRoot, NewRoot, RootRefused, CrawlRoot, WatchNext,
       Watched, ListRoot, Recrawl, CrawlNext, RecrawlDone, AddRoot, SetFilter, BackendAnswers,
       workerOnly

\* Nodes are not removed, recursive ones stay so; answers are not taken back, and
\* neither is a filter, as long as that is noted nowhere.
LEMMA Growth ==
  ASSUME RootsTypes, RootsControl, RootsStep
  PROVE  /\ \A d \in Dir : /\ nodes[d] # "none" => nodes'[d] # "none"
                           /\ nodes[d] = "recursive" => nodes'[d] = "recursive"
         /\ Given \subseteq Given'
         /\ ~reopened' => ~reopened /\ filter \subseteq filter'
<1> USE DEF RootsTypes
<1>0. answers' = answers => Given' = Given
  BY DEF Given
<1>1. CASE TakeRequests \/ Recrawl \/ RecrawlDone
  BY <1>0, <1>1 DEF TakeRequests, Recrawl, RecrawlDone
<1>2. CASE KnownRoot \/ InvalidRoot \/ RootRefused \/ ListRoot
  <2>1. batch # <<>> /\ \E answer \in {"known", "invalid", "failed", "yes"} : Answer(answer)
    BY <1>2 DEF KnownRoot, InvalidRoot, RootRefused, ListRoot, RootsControl
  <2>2. UNCHANGED <<nodes, filter, reopened>>
    BY <1>2 DEF KnownRoot, InvalidRoot, RootRefused, ListRoot
  <2>3. QED BY <2>1, <2>2, GivenGrows
<1>3. CASE NewRoot
  <2>1. UNCHANGED <<answers, filter, reopened>> /\ ~IsKnown(Head(batch))
    BY <1>3 DEF NewRoot
  <2>2. nodes' = [nodes EXCEPT ![Head(batch).path] = IF Head(batch).recursive THEN "recursive" ELSE "children"]
    BY <1>3 DEF NewRoot
  <2>3. QED BY <1>0, <2>1, <2>2 DEF IsKnown
<1>4. CASE CrawlRoot
  <2>1. \E met, recursive : nodes' = WithMet(nodes, met, recursive)
    BY <1>4 DEF CrawlRoot
  <2>2. UNCHANGED <<answers, filter, reopened>>
    BY <1>4 DEF CrawlRoot
  <2>3. QED BY <1>0, <2>1, <2>2 DEF WithMet
<1>5. CASE CrawlNext
  <2>1. \E met, recursive : nodes' = WithMet(nodes, met, recursive)
    BY <1>5 DEF CrawlNext
  <2>2. UNCHANGED <<answers, filter, reopened>>
    BY <1>5 DEF CrawlNext
  <2>3. QED BY <1>0, <2>1, <2>2 DEF WithMet
<1>6. CASE WatchNext \/ Watched
  BY <1>0, <1>6 DEF WatchNext, Watched
<1>7. CASE (\E r \in Request : AddRoot(r)) \/ (\E f \in SUBSET Dir : SetFilter(f)) \/ BackendAnswers
  BY <1>0, <1>7 DEF AddRoot, SetFilter, BackendAnswers, workerOnly
<1>8. QED BY <1>1, <1>2, <1>3, <1>4, <1>5, <1>6, <1>7 DEF RootsStep, Worker

LEMMA RefusedStays ==
  ASSUME Given \subseteq Given', NEW p, NEW d, Refused(p, d)
  PROVE  Refused(p, d)'
BY DEF Refused

LEMMA IgnoredStays ==
  ASSUME NEW S, NEW T, S \subseteq T, NEW d, IgnoreRec(S, d)
  PROVE  IgnoreRec(T, d)
BY DEF IgnoreRec

LEMMA MarkedStays ==
  ASSUME Given \subseteq Given', filter \subseteq filter',
         \A d \in Dir : nodes[d] = "recursive" => nodes'[d] = "recursive",
         NEW e, Marked(e)
  PROVE  Marked(e)'
<1>1. ASSUME NEW d \in Met(filter', e, TRUE) PROVE nodes'[d] = "recursive" \/ Refused(e, d)'
  <2>1. d \in Met(filter, e, TRUE)
    BY <1>1, MetShrinks
  <2>2. d \in Dir
    BY <2>1 DEF Met
  <2>3. QED BY <2>1, <2>2, RefusedStays DEF Marked
<1>2. \A S, p, recursive : Met(S, p, recursive)' = Met(S', p, recursive)
  BY DEF Met
<1>3. QED BY <1>1 DEF Marked, Met

LEMMA ListedFrom ==
  ASSUME roots \in Seq(Request), Sorted(roots), NEW r \in Request, NEW f,
         NEW n \in DOMAIN Listed(r, f)
  PROVE  Listed(r, f)[n] = r \/ \E k \in DOMAIN roots : Listed(r, f)[n] = roots[k]
<1> DEFINE q == Listed(r, f)
           i == Position(r.path)
           stay == DOMAIN roots \ Superseded(r, f)
<1>1. /\ q \in Seq(Request) /\ i \in DOMAIN q /\ q[i] = r
      /\ \E g \in [DOMAIN q \ {i} -> stay] :
           /\ \A m \in DOMAIN q \ {i} : q[m] = roots[g[m]]
           /\ \A m, k \in DOMAIN q \ {i} : m < k => g[m] < g[k]
           /\ \A j \in stay : \E m \in DOMAIN q \ {i} : g[m] = j
           /\ \A m \in DOMAIN q \ {i} : m < i <=> g[m] < i
  BY ListedElements
<1>2. n \in DOMAIN q /\ stay \subseteq DOMAIN roots
  OBVIOUS
<1> HIDE DEF q, i, stay
<1>3. q[n] = r \/ \E k \in DOMAIN roots : q[n] = roots[k]
  BY <1>1, <1>2
<1>4. QED BY <1>3 DEF q

LEMMA RootsCarriedStep ==
  ASSUME RootsInv, RootsStep
  PROVE  RootsCarried'
<1> USE DEF RootsInv, RootsTypes, RootsControl
<1>1. ASSUME NEW r \in Request, Carries(r) PROVE Carries(r)'
  <2>1. r.path \in Dir
    BY DEF Request
  <2>2. QED BY <1>1, <2>1, Growth DEF Carries
<1>2. ASSUME UNCHANGED roots, Pending' => Pending /\ Head(batch') = Head(batch)
      PROVE  RootsCarried'
  <2>1. ASSUME NEW n \in DOMAIN roots PROVE Carries(roots[n])'
    <3>1. roots[n] \in Request /\ Carries(roots[n])
      BY DEF RootsCarried
    <3>2. QED BY <1>1, <1>2, <3>1 DEF Carries
  <2>2. Pending' => Carries(Head(batch))'
    <3>1. ASSUME Pending PROVE Head(batch) \in Request
      BY <3>1, HeadAndTail DEF Pending
    <3>2. QED BY <1>1, <1>2, <3>1 DEF RootsCarried, Carries
  <2>3. QED BY <1>2, <2>1, <2>2 DEF RootsCarried, Carries
<1>3. CASE NewRoot
  <2>1. UNCHANGED <<roots, batch>> /\ Head(batch) \in Request
    BY <1>3, HeadAndTail DEF NewRoot
  <2>2. nodes' = [nodes EXCEPT ![Head(batch).path] = IF Head(batch).recursive THEN "recursive" ELSE "children"]
    BY <1>3 DEF NewRoot
  <2>3. Carries(Head(batch))'
    BY <2>1, <2>2 DEF Carries, Request
  <2>4. \A n \in DOMAIN roots : Carries(roots[n])'
    BY <1>1, <2>1 DEF RootsCarried, Carries
  <2>5. QED BY <2>1, <2>3, <2>4 DEF RootsCarried, Carries
<1>4. CASE ListRoot
  <2>1. batch # <<>> /\ Pending /\ Head(batch) \in Request /\ ~Pending'
    BY <1>4, HeadAndTail DEF ListRoot, Pending, Answer
  <2>2. roots' = Listed(Head(batch), snapshot)
    BY <1>4 DEF ListRoot
  <2>3. ASSUME NEW n \in DOMAIN roots'
        PROVE  roots'[n] = Head(batch) \/ \E k \in DOMAIN roots : roots'[n] = roots[k]
    BY <2>1, <2>2, <2>3, ListedFrom
  <2>4. ASSUME NEW n \in DOMAIN roots' PROVE Carries(roots[n])'
    <3>1. CASE roots'[n] = Head(batch)
      BY <1>1, <2>1, <3>1 DEF RootsCarried, Carries
    <3>2. ASSUME NEW k \in DOMAIN roots, roots'[n] = roots[k] PROVE Carries(roots[n])'
      BY <1>1, <3>2 DEF RootsCarried, Carries
    <3>3. QED BY <2>3, <2>4, <3>1, <3>2
  <2>5. QED BY <2>1, <2>4 DEF RootsCarried
<1>5. CASE KnownRoot \/ InvalidRoot \/ RootRefused
  BY <1>2, <1>5 DEF KnownRoot, InvalidRoot, RootRefused, Answer, Pending
<1>6. CASE CrawlRoot
  BY <1>2, <1>6 DEF CrawlRoot, Pending
<1>7. CASE TakeRequests \/ WatchNext \/ Watched \/ Recrawl \/ CrawlNext \/ RecrawlDone
  BY <1>2, <1>7 DEF TakeRequests, WatchNext, Watched, Recrawl, CrawlNext, RecrawlDone, Pending
<1>8. CASE (\E r \in Request : AddRoot(r)) \/ (\E f \in SUBSET Dir : SetFilter(f)) \/ BackendAnswers
  BY <1>2, <1>8 DEF AddRoot, SetFilter, BackendAnswers, workerOnly, Pending
<1>9. QED BY <1>3, <1>4, <1>5, <1>6, <1>7, <1>8 DEF RootsStep, Worker

LEMMA DeepMarkedStep ==
  ASSUME RootsInv, RootsStep, ~reopened, ~reopened'
  PROVE  DeepMarked'
<1> USE DEF RootsInv, Apart, RootsTypes, RootsControl
<1> DEFINE New(e) == wpc = "root" /\ Head(batch).recursive /\ e = Head(batch).path
<1>1. /\ Given \subseteq Given' /\ filter \subseteq filter'
      /\ \A d \in Dir : nodes[d] = "recursive" => nodes'[d] = "recursive"
  BY Growth
<1>2. \A e \in Dir : Marked(e) => Marked(e)'
  BY <1>1, MarkedStays
<1>3. ASSUME \A d \in Dir : nodes'[d] = "recursive" => nodes[d] = "recursive",
             \A e \in Dir : New(e) => New(e)'
      PROVE  DeepMarked'
  BY <1>2, <1>3 DEF DeepMarked
<1>4. CASE NewRoot
  <2>1. batch' = batch /\ wpc' = "root" /\ wpc = "batch"
    BY <1>4 DEF NewRoot
  <2>2. nodes' = [nodes EXCEPT ![Head(batch).path] = IF Head(batch).recursive THEN "recursive" ELSE "children"]
    BY <1>4 DEF NewRoot
  <2>3. ASSUME NEW e \in Dir, nodes'[e] = "recursive", ~New(e)' PROVE Marked(e)'
    <3>1. nodes[e] = "recursive"
      BY <2>1, <2>2, <2>3
    <3>2. QED BY <1>2, <2>1, <3>1 DEF DeepMarked
  <2>4. QED BY <2>3 DEF DeepMarked
<1>5. CASE RootRefused
  <2>1. nodes' = nodes /\ wpc = "root" /\ batch # <<>> /\ filter' = filter
    BY <1>5 DEF RootRefused
  <2>2. Head(batch) \in Request
    BY <2>1, HeadAndTail
  <2>3. [path |-> Head(batch).path, recursive |-> Head(batch).recursive, answer |-> "failed"] \in Given'
    BY <1>5, <2>1, GivenGrows DEF RootRefused
  <2>4. ASSUME NEW e \in Dir, New(e) PROVE Marked(e)'
    <3>1. ASSUME NEW d \in Met(filter', e, TRUE) PROVE Refused(e, d)'
      <4>1. IsParentOf(e, d)
        BY <3>1 DEF Met
      <4>2. Reaches(e, TRUE, e) /\ Reaches(e, TRUE, d)
        BY <4>1 DEF Reaches
      <4>3. QED BY <2>3, <2>4, <4>2 DEF Refused
    <3>2. QED BY <3>1 DEF Marked, Met
  <2>5. ASSUME NEW e \in Dir, nodes'[e] = "recursive" PROVE Marked(e)'
    BY <1>2, <2>1, <2>4, <2>5 DEF DeepMarked
  <2>6. QED BY <2>5 DEF DeepMarked
<1>6. CASE CrawlRoot
  <2> DEFINE r == Head(batch)
  <2>1. batch # <<>> /\ wpc = "root" /\ UNCHANGED <<filter, answers>>
    BY <1>6 DEF CrawlRoot
  <2>2. r \in Request /\ r.path \in Dir /\ r.recursive \in BOOLEAN /\ Carries(r)
    BY <2>1, HeadAndTail DEF Request, RootsCarried, Pending
  <2>3. nodes' = WithMet(nodes, Met(CrawlRootSkips, r.path, r.recursive), r.recursive)
    BY <1>6 DEF CrawlRoot
  <2>4. CrawlRootSkips \in SUBSET Dir /\ \A s \in CrawlRootSkips : s \in filter \/ nodes[s] = "recursive"
    BY DEF CrawlRootSkips
  <2>5. \A e \in Dir \ {r.path} : nodes[e] = "recursive" => Marked(e)
    BY DEF DeepMarked
  <2> HIDE DEF r
  <2>6. CASE r.recursive
    <3>1. nodes[r.path] = "recursive"
      BY <2>2, <2>6 DEF Carries
    <3>2. nodes' = WithMet(nodes, Met(CrawlRootSkips, r.path, TRUE), TRUE)
      BY <2>2, <2>3, <2>6
    <3>3. \A e \in Dir : nodes'[e] = "recursive" => Marked(e)'
      BY <2>1, <2>2, <2>4, <2>5, <3>1, <3>2, WalkMarks
    <3>4. QED BY <3>3 DEF DeepMarked
  <2>7. CASE ~r.recursive
    <3>1. \A d \in Dir : nodes'[d] = "recursive" => nodes[d] = "recursive"
      BY <2>2, <2>3, <2>7 DEF WithMet
    <3>2. \A e : ~New(e)
      BY <2>7 DEF r
    <3>3. QED BY <1>3, <3>1, <3>2
  <2>8. QED BY <2>6, <2>7
<1>7. CASE CrawlNext
  <2> DEFINE p == Head(tocrawl).path
  <2>1. UNCHANGED <<filter, answers, wpc>> /\ wpc = "recrawl"
    BY <1>7 DEF CrawlNext
  <2>2. p \in Dir
    BY <1>7, HeadAndTail DEF CrawlNext, Request
  <2>3. nodes' = WithMet(nodes, Met(snapshot, p, nodes[p] = "recursive"), nodes[p] = "recursive")
    BY <1>7 DEF CrawlNext
  <2>4. \A e \in Dir : nodes[e] = "recursive" => Marked(e)
    BY <2>1 DEF DeepMarked
  <2> HIDE DEF p
  <2>5. CASE nodes[p] = "recursive"
    <3>1. (nodes[p] = "recursive") = TRUE
      BY <2>5
    <3>2. nodes' = WithMet(nodes, Met(snapshot, p, TRUE), TRUE)
      BY <2>3, <3>1
    <3>3. \A e \in Dir : nodes'[e] = "recursive" => Marked(e)'
      BY <2>1, <2>2, <2>4, <2>5, <3>2, WalkMarks
    <3>4. QED BY <3>3 DEF DeepMarked
  <2>6. CASE nodes[p] # "recursive"
    <3>1. \A d \in Dir : nodes'[d] = "recursive" => nodes[d] = "recursive"
      BY <2>3, <2>6 DEF WithMet
    <3>2. \A e : ~New(e)
      BY <2>1
    <3>3. QED BY <1>3, <3>1, <3>2
  <2>7. QED BY <2>5, <2>6
<1>8. CASE TakeRequests \/ KnownRoot \/ InvalidRoot \/ ListRoot \/ Recrawl \/ RecrawlDone
  <2>1. nodes' = nodes /\ wpc # "root"
    BY <1>8 DEF TakeRequests, KnownRoot, InvalidRoot, ListRoot, Recrawl, RecrawlDone
  <2>2. QED BY <1>3, <2>1
<1>9. CASE WatchNext \/ Watched
  BY <1>3, <1>9 DEF WatchNext, Watched
<1>10. CASE (\E r \in Request : AddRoot(r)) \/ (\E f \in SUBSET Dir : SetFilter(f)) \/ BackendAnswers
  <2>1. UNCHANGED <<nodes, wpc, batch>>
    BY <1>10 DEF AddRoot, SetFilter, BackendAnswers, workerOnly
  <2>2. QED BY <1>3, <2>1
<1>11. QED BY <1>4, <1>5, <1>6, <1>7, <1>8, <1>9, <1>10 DEF RootsStep, Worker

LEMMA HeadApartStep ==
  ASSUME RootsInv, RootsStep, ~reopened, ~reopened'
  PROVE  HeadApart'
<1> USE DEF RootsInv, Apart, RootsTypes, RootsControl
<1>1. Given \subseteq Given' /\ filter \subseteq filter'
  BY Growth
<1>2. \A d : IgnoreRec(filter, d) => IgnoreRec(filter', d)
  BY <1>1, IgnoredStays
<1>3. \A p, d : Refused(p, d) => Refused(p, d)'
  BY <1>1, RefusedStays
<1>4. ASSUME UNCHANGED roots, Pending' => Pending /\ Head(batch') = Head(batch)
      PROVE  HeadApart'
  <2>1. ASSUME Pending', NEW n \in DOMAIN roots, roots[n].recursive,
               IsParentOf(roots[n].path, Head(batch).path)
        PROVE  IgnoreRec(filter', Head(batch).path) \/ Refused(roots[n].path, Head(batch).path)'
    <3>1. Pending
      BY <1>4, <2>1
    <3>2. IgnoreRec(filter, Head(batch).path) \/ Refused(roots[n].path, Head(batch).path)
      BY <2>1, <3>1 DEF HeadApart
    <3>3. roots'[n] = roots[n] /\ Head(batch') = Head(batch)
      BY <1>4, <2>1
    <3>4. QED BY <1>2, <1>3, <3>2, <3>3
  <2>2. ASSUME Pending', NEW n \in DOMAIN roots', roots'[n].recursive,
               IsParentOf(roots'[n].path, Head(batch').path)
        PROVE  IgnoreRec(filter', Head(batch').path) \/ Refused(roots[n].path, Head(batch).path)'
    <3>1. n \in DOMAIN roots /\ roots'[n] = roots[n] /\ Head(batch') = Head(batch)
      BY <1>4, <2>2
    <3>2. IgnoreRec(filter', Head(batch).path) \/ Refused(roots[n].path, Head(batch).path)'
      BY <2>1, <2>2, <3>1
    <3>3. QED BY <3>1, <3>2
  <2>3. QED BY <2>2 DEF HeadApart, IgnoreRec
<1>5. CASE NewRoot
  <2> DEFINE r == Head(batch)
  <2>1. UNCHANGED <<roots, batch, filter, answers>> /\ wpc = "batch" /\ ~IsKnown(r) /\ r \in Request
    BY <1>5, HeadAndTail DEF NewRoot
  <2>2. ASSUME NEW n \in DOMAIN roots, roots[n].recursive, IsParentOf(roots[n].path, r.path)
        PROVE  IgnoreRec(filter, r.path) \/ Refused(roots[n].path, r.path)
    <3>1. roots[n] \in Request /\ roots[n].path \in Dir /\ r.path \in Dir
      BY <2>1, DirPaths
    <3>2. nodes[roots[n].path] = "recursive"
      BY <2>2 DEF RootsCarried, Carries
    <3>3. Marked(roots[n].path)
      BY <2>1, <3>1, <3>2 DEF DeepMarked
    <3>4. nodes[r.path] # "recursive"
      BY <2>1 DEF IsKnown
    <3>5. CASE r.path \in Met(filter, roots[n].path, TRUE)
      BY <3>3, <3>4, <3>5 DEF Marked
    <3>6. CASE r.path \notin Met(filter, roots[n].path, TRUE)
      BY <2>2, <3>1, <3>6 DEF Met, IgnoreRec
    <3>7. QED BY <3>5, <3>6
  <2>3. ASSUME NEW n \in DOMAIN roots', roots'[n].recursive, IsParentOf(roots'[n].path, Head(batch').path)
        PROVE  IgnoreRec(filter', Head(batch').path) \/ Refused(roots[n].path, Head(batch).path)'
    <3>1. n \in DOMAIN roots /\ roots'[n] = roots[n] /\ batch' = batch /\ filter' = filter
      BY <2>1, <2>3
    <3>2. IsParentOf(roots[n].path, r.path) /\ roots[n].recursive
      BY <2>3, <3>1
    <3>3. IgnoreRec(filter, r.path) \/ Refused(roots[n].path, r.path)
      BY <2>2, <3>1, <3>2
    <3>4. QED BY <1>3, <3>1, <3>3
  <2>4. QED BY <2>3 DEF HeadApart, IgnoreRec
<1>6. CASE ListRoot \/ KnownRoot \/ InvalidRoot \/ RootRefused
  <2>1. ~Pending'
    BY <1>6 DEF ListRoot, KnownRoot, InvalidRoot, RootRefused, Answer, Pending
  <2>2. QED BY <2>1 DEF HeadApart
<1>7. CASE CrawlRoot
  BY <1>4, <1>7 DEF CrawlRoot, Pending
<1>8. CASE TakeRequests \/ WatchNext \/ Watched \/ Recrawl \/ CrawlNext \/ RecrawlDone
  BY <1>4, <1>8 DEF TakeRequests, WatchNext, Watched, Recrawl, CrawlNext, RecrawlDone, Pending
<1>9. CASE (\E r \in Request : AddRoot(r)) \/ (\E f \in SUBSET Dir : SetFilter(f)) \/ BackendAnswers
  BY <1>4, <1>9 DEF AddRoot, SetFilter, BackendAnswers, workerOnly, Pending
<1>10. QED BY <1>5, <1>6, <1>7, <1>8, <1>9 DEF RootsStep, Worker

\* The children that stay with a recursive root are ignored, or the root was listed
\* before: up to that entry nothing has been removed.
LEMMA ChildrenThatStay ==
  ASSUME RootsTypes, Sorted(roots), NEW r \in Request, r.recursive, NEW f,
         NEW k \in DOMAIN roots \ Superseded(r, f), IsParentOf(r.path, roots[k].path)
  PROVE  \/ IgnoreRec(f, roots[k].path)
         \/ \E m \in DOMAIN roots \ Superseded(r, f) : roots[m].path = r.path
<1> DEFINE i == Position(r.path)
<1>0. roots \in Seq(Request)
  BY DEF RootsTypes
<1>1. r.path \in Path /\ \A n \in DOMAIN roots : n \in Nat /\ roots[n].path \in Path
  BY <1>0, DirPaths
<1>2. i \in 1 .. Len(roots) + 1 /\ \A n \in DOMAIN roots : n < i <=> Less(roots[n].path, r.path)
  BY <1>0, <1>1, PositionOf
<1>3. k \in DOMAIN roots /\ Less(r.path, roots[k].path)
  BY <1>1, ParentIsLess
<1>4. ~(k < i)
  BY <1>1, <1>2, <1>3, LessIsTotal, LessIsTransitive
<1>5. k \in i .. Len(roots)
  BY <1>0, <1>1, <1>2, <1>3, <1>4
<1>6. \A n \in i .. Len(roots) : n \in DOMAIN roots
  BY <1>0, <1>2
<1>7. IgnoreRec(f, roots[k].path) \/ \E m \in i .. k : ~IsParentOf(r.path, roots[m].path)
  BY <1>5 DEF Superseded
<1>8. ASSUME NEW m \in i .. k, ~IsParentOf(r.path, roots[m].path)
      PROVE  \E n \in DOMAIN roots \ Superseded(r, f) : roots[n].path = r.path
  <2>1. m \in i .. Len(roots) /\ m \in DOMAIN roots /\ m <= k /\ m # k
    BY <1>0, <1>1, <1>2, <1>5, <1>6, <1>8
  <2>2. ~Less(roots[k].path, roots[m].path) /\ ~Less(roots[m].path, r.path)
    BY <1>1, <1>2, <1>3, <2>1 DEF Sorted
  <2>3. roots[m].path # roots[k].path
    BY <1>8
  <2>4. Less(roots[m].path, roots[k].path)
    BY <1>1, <1>3, <2>1, <2>2, <2>3, LessIsTotal
  <2>5. ~Less(r.path, roots[m].path)
    BY <1>1, <1>3, <1>8, <2>1, <2>4, NoGap
  <2>6. roots[m].path = r.path
    BY <1>1, <2>1, <2>2, <2>5, LessIsTotal
  <2>7. m \notin Superseded(r, f)
    BY <1>8, <2>1 DEF Superseded
  <2>8. QED BY <2>1, <2>6, <2>7
<1>9. QED BY <1>7, <1>8

\* Of two entries with the same path both are removed or none.
LEMMA DuplicatesGoTogether ==
  ASSUME RootsTypes, Sorted(roots), NEW r \in Request, NEW f,
         NEW j \in Superseded(r, f), NEW n \in DOMAIN roots, roots[n].path = roots[j].path
  PROVE  n \in Superseded(r, f)
<1> DEFINE i == Position(r.path)
<1>0. roots \in Seq(Request)
  BY DEF RootsTypes
<1>1. r.path \in Path /\ \A m \in DOMAIN roots : m \in Nat /\ roots[m].path \in Path
  BY <1>0, DirPaths
<1>2. i \in 1 .. Len(roots) + 1 /\ \A m \in DOMAIN roots : m < i <=> Less(roots[m].path, r.path)
  BY <1>0, <1>1, PositionOf
<1>3. /\ j \in i .. Len(roots) /\ r.recursive /\ ~IgnoreRec(f, roots[j].path)
      /\ \A k \in i .. j : IsParentOf(r.path, roots[k].path)
  BY DEF Superseded
<1>4. IsParentOf(r.path, roots[j].path)
  BY <1>2, <1>3
<1>5. ~(n < i)
  BY <1>1, <1>2, <1>4, ParentIsLess, LessIsTotal, LessIsTransitive
<1>6. n \in i .. Len(roots)
  BY <1>0, <1>1, <1>2, <1>5
<1>7. ASSUME NEW k \in i .. n PROVE IsParentOf(r.path, roots[k].path)
  <2>1. CASE k <= j
    BY <1>3, <2>1
  <2>2. CASE j < k /\ k # n
    <3>1. k \in DOMAIN roots /\ j \in DOMAIN roots /\ k < n
      BY <1>0, <1>2, <1>3, <1>6, <2>2
    <3>2. ~Less(roots[k].path, roots[j].path) /\ ~Less(roots[n].path, roots[k].path)
      BY <2>2, <3>1 DEF Sorted
    <3>3. roots[k].path = roots[j].path
      BY <1>1, <3>1, <3>2, LessIsTotal
    <3>4. QED BY <1>4, <3>3
  <2>3. CASE k = n
    BY <1>4, <2>3
  <2>4. QED BY <1>2, <1>3, <1>6, <2>1, <2>2, <2>3
<1>8. QED BY <1>3, <1>6, <1>7 DEF Superseded

LEMMA NoDoubleCrawlListed ==
  ASSUME RootsInv, ListRoot, ~reopened
  PROVE  NoDoubleCrawl'
<1> USE DEF RootsInv, Apart
<1> DEFINE r == Head(batch)
           q == Listed(r, snapshot)
           i == Position(r.path)
           stay == DOMAIN roots \ Superseded(r, snapshot)
<1>1. /\ batch # <<>> /\ Pending /\ r \in Request /\ roots' = q /\ filter' = filter
      /\ Given \subseteq Given' /\ roots \in Seq(Request)
  <2>1. batch # <<>> /\ Answer("yes")
    BY DEF ListRoot, RootsControl
  <2>2. Given \subseteq Given'
    BY <2>1, GivenGrows
  <2>3. QED BY <2>1, <2>2, HeadAndTail DEF ListRoot, RootsTypes, Pending
<1> HIDE DEF r
<1>2. /\ q \in Seq(Request) /\ i \in DOMAIN q /\ q[i] = r
      /\ \E g \in [DOMAIN q \ {i} -> stay] :
           /\ \A n \in DOMAIN q \ {i} : q[n] = roots[g[n]]
           /\ \A m, n \in DOMAIN q \ {i} : m < n => g[m] < g[n]
           /\ \A j \in stay : \E n \in DOMAIN q \ {i} : g[n] = j
           /\ \A n \in DOMAIN q \ {i} : n < i <=> g[n] < i
  BY <1>1, ListedElements
<1>3. stay \subseteq DOMAIN roots
  OBVIOUS
<1>4. \A k \in stay : (r.recursive /\ IsParentOf(r.path, roots[k].path)) =>
        IgnoreRec(filter, roots[k].path) \/ \E m \in stay : roots[m].path = r.path
  BY <1>1, ChildrenThatStay, IgnoredStays
<1>5. \A j \in DOMAIN roots, n \in stay : roots[n].path = roots[j].path => j \in stay
  BY <1>1, DuplicatesGoTogether
<1>6. \A n \in DOMAIN roots : (roots[n].recursive /\ IsParentOf(roots[n].path, r.path)) =>
        IgnoreRec(filter, r.path) \/ Refused(roots[n].path, r.path)
  BY <1>1 DEF HeadApart, r
<1> HIDE DEF q, i, stay
<1>7. PICK g \in [DOMAIN q \ {i} -> stay] :
        /\ \A n \in DOMAIN q \ {i} : q[n] = roots[g[n]]
        /\ \A j \in stay : \E n \in DOMAIN q \ {i} : g[n] = j
  BY <1>2
<1>8. ASSUME NEW m \in DOMAIN q, NEW n \in DOMAIN q, q[m].recursive, IsParentOf(q[m].path, q[n].path)
      PROVE  \/ IgnoreRec(filter, q[n].path)
             \/ \E j \in DOMAIN q : j # m /\ q[j].path = q[m].path
             \/ Refused(q[m].path, q[n].path)
  <2>1. m # n
    BY <1>8, NotBelowItself
  <2>2. CASE m # i /\ n # i
    <3>1. g[m] \in stay /\ g[n] \in DOMAIN roots /\ q[m] = roots[g[m]] /\ q[n] = roots[g[n]]
      BY <1>3, <1>7, <2>2
    <3>2. \/ IgnoreRec(filter, roots[g[n]].path)
          \/ \E j \in DOMAIN roots : j # g[m] /\ roots[j].path = roots[g[m]].path
          \/ Refused(roots[g[m]].path, roots[g[n]].path)
      BY <1>3, <1>8, <3>1 DEF NoDoubleCrawl
    <3>3. ASSUME NEW j \in DOMAIN roots, j # g[m], roots[j].path = roots[g[m]].path
          PROVE  \E k \in DOMAIN q : k # m /\ q[k].path = q[m].path
      <4>1. j \in stay
        BY <1>5, <3>1, <3>3
      <4>2. PICK k \in DOMAIN q \ {i} : g[k] = j
        BY <1>7, <4>1
      <4>3. q[k].path = q[m].path /\ k # m
        BY <1>7, <3>1, <3>3, <4>2
      <4>4. QED BY <4>2, <4>3
    <3>4. QED BY <3>1, <3>2, <3>3
  <2>3. CASE m # i /\ n = i
    <3>1. g[m] \in DOMAIN roots /\ q[m] = roots[g[m]] /\ q[n] = r
      BY <1>2, <1>3, <1>7, <2>3
    <3>2. QED BY <1>6, <1>8, <3>1
  <2>4. CASE m = i
    <3>1. g[n] \in stay /\ q[n] = roots[g[n]] /\ q[m] = r
      BY <1>2, <1>7, <2>1, <2>4
    <3>2. IgnoreRec(filter, q[n].path) \/ \E j \in stay : roots[j].path = r.path
      BY <1>4, <1>8, <3>1
    <3>3. ASSUME NEW j \in stay, roots[j].path = r.path
          PROVE  \E k \in DOMAIN q : k # m /\ q[k].path = q[m].path
      <4>1. PICK k \in DOMAIN q \ {i} : g[k] = j
        BY <1>7
      <4>2. q[k].path = q[m].path /\ k # m
        BY <1>7, <2>4, <3>1, <3>3, <4>1
      <4>3. QED BY <4>1, <4>2
    <3>4. QED BY <3>2, <3>3
  <2>5. QED BY <2>1, <2>2, <2>3, <2>4
<1>9. \A p, d : Refused(p, d) => Refused(p, d)'
  BY <1>1, RefusedStays
<1>10. \A d : IgnoreRec(filter, d)' <=> IgnoreRec(filter, d)
  BY <1>1 DEF IgnoreRec
<1>11. ASSUME NEW m \in DOMAIN roots', NEW n \in DOMAIN roots', roots'[m].recursive,
              IsParentOf(roots'[m].path, roots'[n].path)
       PROVE  \/ IgnoreRec(filter, roots[n].path)'
              \/ \E j \in DOMAIN roots' : j # m /\ roots'[j].path = roots'[m].path
              \/ Refused(roots[m].path, roots[n].path)'
  <2>1. \/ IgnoreRec(filter, q[n].path)
        \/ \E j \in DOMAIN q : j # m /\ q[j].path = q[m].path
        \/ Refused(q[m].path, q[n].path)
    BY <1>1, <1>8, <1>11
  <2>2. QED BY <1>1, <1>9, <1>10, <2>1
<1>12. QED BY <1>11 DEF NoDoubleCrawl

LEMMA NoDoubleCrawlStep ==
  ASSUME RootsInv, RootsStep, ~reopened, ~reopened'
  PROVE  NoDoubleCrawl'
<1> USE DEF RootsInv, Apart
<1>1. Given \subseteq Given' /\ filter \subseteq filter'
  BY Growth
<1>2. \A p, d : Refused(p, d) => Refused(p, d)'
  BY <1>1, RefusedStays
<1>3. \A d : IgnoreRec(filter, d) => IgnoreRec(filter', d)
  BY <1>1, IgnoredStays
<1>4. ASSUME UNCHANGED roots PROVE NoDoubleCrawl'
  <2>1. ASSUME NEW i \in DOMAIN roots, NEW k \in DOMAIN roots, roots[i].recursive,
               IsParentOf(roots[i].path, roots[k].path)
        PROVE  \/ IgnoreRec(filter', roots[k].path)
               \/ \E j \in DOMAIN roots : j # i /\ roots[j].path = roots[i].path
               \/ Refused(roots[i].path, roots[k].path)'
    <3>1. \/ IgnoreRec(filter, roots[k].path)
          \/ \E j \in DOMAIN roots : j # i /\ roots[j].path = roots[i].path
          \/ Refused(roots[i].path, roots[k].path)
      BY <2>1 DEF NoDoubleCrawl
    <3>2. QED BY <1>2, <1>3, <1>4, <3>1
  <2>2. QED BY <1>4, <2>1 DEF NoDoubleCrawl, IgnoreRec
<1>5. CASE TakeRequests \/ KnownRoot \/ InvalidRoot \/ NewRoot \/ RootRefused \/ CrawlRoot \/ WatchNext
           \/ Watched
  BY <1>4, <1>5 DEF TakeRequests, KnownRoot, InvalidRoot, NewRoot, RootRefused, CrawlRoot, WatchNext, Watched
<1>6. CASE Recrawl \/ CrawlNext \/ RecrawlDone
  BY <1>4, <1>6 DEF Recrawl, CrawlNext, RecrawlDone
<1>7. CASE (\E r \in Request : AddRoot(r)) \/ (\E f \in SUBSET Dir : SetFilter(f)) \/ BackendAnswers
  BY <1>4, <1>7 DEF AddRoot, SetFilter, BackendAnswers, workerOnly
<1>8. QED BY <1>5, <1>6, <1>7, NoDoubleCrawlListed DEF RootsStep, Worker

------------------------------------------------------------------------------
\* The invariant of the worker and its list.
LEMMA RootsInvInit ==
  ASSUME RootsInit
  PROVE  RootsInv
<1>1. RootsTypes /\ RootsControl /\ Sorted(roots)
  BY RootsInitTypes
<1>2. Apart /\ RootsCarried /\ NoDoubleCrawl
  BY DEF RootsInit, RootsCarried, Apart, Pending, DeepMarked, HeadApart, NoDoubleCrawl
<1>3. QED BY <1>1, <1>2 DEF RootsInv

LEMMA RootsInvStep ==
  ASSUME RootsInv, RootsStep
  PROVE  RootsInv'
<1>1. RootsTypes' /\ RootsControl' /\ Sorted(roots)'
  BY RootsTypesStep DEF RootsInv
<1>2. ASSUME ~reopened' PROVE Apart' /\ NoDoubleCrawl'
  <2>1. ~reopened
    BY <1>2, Growth DEF RootsInv
  <2>2. snapshot' \subseteq filter'
    BY <1>2, <2>1, SnapshotStep DEF RootsInv, Apart
  <2>3. QED BY <1>2, <2>1, <2>2, DeepMarkedStep, HeadApartStep, NoDoubleCrawlStep DEF Apart
<1>3. NoDoubleCrawl'
  BY <1>2 DEF NoDoubleCrawl
<1>4. QED BY <1>1, <1>2, <1>3, RootsCarriedStep DEF RootsInv

------------------------------------------------------------------------------
(* What the worker asks the backend to watch, as long as the backend does not refuse *)
(* (call.ok). Each recursive node is below a recursive root (RecursiveRooted), and   *)
(* all that is below one of these and not ignored was asked for, unless a recrawl of *)
(* it is due or ahead (DeepAsked). The rest says why no crawl passes over a          *)
(* directory: crawl_root takes no deleted node for a directory and enters no         *)
(* recursive one, and deleted is only what the filter ignored when it was last       *)
(* crawled (DeadPlain).                                                              *)

\* The listed roots and the one that is being crawled for the first time.
Rooted == {p \in Dir : InList(p) \/ (wpc = "crawl" /\ p = Head(batch).path)}

\* Those whose directories are all watched, or will be.
DeepRoots == {p \in Rooted : nodes[p] = "recursive" /\ ~(wpc = "root" /\ p = Head(batch).path)}

Open(d) == ~IgnoreRec(filter, d)

\* The backend was asked to watch d, or will be by the crawl that runs.
Asked(d) == d \in watched \cup towatch \/ (call.pc # "none" /\ d = call.path)

\* The recrawl that runs has p before it.
Ahead(p) == \E n \in DOMAIN tocrawl : tocrawl[n].path = p

\* A crawl of p comes by d.
Below(p, d) == IsParentOf(p, d) /\ (Parent(d) = p \/ nodes[p] = "recursive")

RecursiveRooted ==
  \A d \in Dir : nodes[d] = "recursive" =>
    (\E p \in DeepRoots : Reaches(p, TRUE, d)) \/ (wpc = "root" /\ d = Head(batch).path)

DeepAsked ==
  \A p \in DeepRoots, d \in Dir : Reaches(p, TRUE, d) /\ Open(d) => Asked(d) \/ recrawl \/ Ahead(p)

\* A node that is watched for nobody is there because a root is crawled.
PlainRooted == \A d \in Dir : nodes[d] = "plain" => \E p \in Rooted : Below(p, d)

\* Such a node is deleted only as long as it is ignored, or until the next recrawl.
DeadPlain ==
  \A d \in tree.dead : nodes[d] = "plain" /\ Open(d) => recrawl \/ \E p \in Dir : Ahead(p) /\ Below(p, d)

ChildrenAsked == \A d \in Dir : nodes[d] = "children" => Asked(d)

NodesInTree == \A d \in tree.dead \cup tree.linked : nodes[d] # "none"

ToCrawlListed == \A n \in DOMAIN tocrawl : InList(tocrawl[n].path)

\* A recrawl that the filter has changed under is followed by another.
SnapshotFresh == wpc = "recrawl" /\ ~recrawl => snapshot = filter

HeadMarked == wpc = "root" => (nodes[Head(batch).path] = "recursive" <=> Head(batch).recursive)

AskedInv == /\ RecursiveRooted /\ DeepAsked /\ PlainRooted /\ DeadPlain /\ ChildrenAsked
            /\ NodesInTree /\ ToCrawlListed /\ SnapshotFresh /\ HeadMarked

------------------------------------------------------------------------------
LEMMA ReachesTwice ==
  ASSUME NEW p \in Dir, NEW q \in Dir, NEW d \in Dir, Reaches(p, TRUE, q), Reaches(q, TRUE, d)
  PROVE  Reaches(p, TRUE, d)
BY DirPaths, BelowBelow DEF Reaches

LEMMA IgnoredBelow ==
  ASSUME NEW f \in SUBSET Dir, NEW q \in Dir, NEW d \in Dir, IgnoreRec(f, q), Reaches(q, TRUE, d)
  PROVE  IgnoreRec(f, d)
<1>1. PICK e \in f : e = q \/ IsParentOf(e, q)
  BY DEF IgnoreRec
<1>2. Reaches(e, TRUE, d)
  BY <1>1, ReachesTwice DEF Reaches
<1>3. QED BY <1>2 DEF Reaches, IgnoreRec

\* A walk that enters all but what is ignored meets all that is not.
LEMMA MetOrIgnored ==
  ASSUME NEW f, NEW p, NEW recursive, NEW d \in Dir, IsParentOf(p, d), recursive \/ Parent(d) = p
  PROVE  d \in Met(f, p, recursive) \/ IgnoreRec(f, d)
BY DEF Met, IgnoreRec

LEMMA WithMetIs ==
  ASSUME NEW met \in SUBSET Dir, NEW recursive \in BOOLEAN, nodes' = WithMet(nodes, met, recursive),
         NEW d \in Dir
  PROVE  nodes'[d] = IF d \notin met THEN nodes[d]
                     ELSE IF recursive THEN "recursive"
                     ELSE IF nodes[d] = "none" THEN "plain" ELSE nodes[d]
BY DEF WithMet

\* Which roots are in the list once r is: those of before, but for some below r if r is
\* recursive.
LEMMA ListedPaths ==
  ASSUME RootsTypes, Sorted(roots), NEW r \in Request, NEW f, roots' = Listed(r, f)
  PROVE  /\ InList(r.path)'
         /\ \A p : InList(p)' => InList(p) \/ p = r.path
         /\ \A p : InList(p) => InList(p)' \/ (r.recursive /\ IsParentOf(r.path, p))
<1> DEFINE i == Position(r.path)
           stay == DOMAIN roots \ Superseded(r, f)
<1>1. /\ i \in DOMAIN roots' /\ roots'[i] = r
      /\ \E g \in [DOMAIN roots' \ {i} -> stay] :
           /\ \A n \in DOMAIN roots' \ {i} : roots'[n] = roots[g[n]]
           /\ \A j \in stay : \E n \in DOMAIN roots' \ {i} : g[n] = j
  <2>1. roots \in Seq(Request)
    BY DEF RootsTypes
  <2> DEFINE q == Listed(r, f)
  <2>2. /\ i \in DOMAIN q /\ q[i] = r
        /\ \E g \in [DOMAIN q \ {i} -> stay] :
             /\ \A n \in DOMAIN q \ {i} : q[n] = roots[g[n]]
             /\ \A m, n \in DOMAIN q \ {i} : m < n => g[m] < g[n]
             /\ \A j \in stay : \E n \in DOMAIN q \ {i} : g[n] = j
             /\ \A n \in DOMAIN q \ {i} : n < i <=> g[n] < i
    BY <2>1, ListedElements
  <2> HIDE DEF q, i, stay
  <2>3. roots' = q
    BY DEF q
  <2>4. QED BY <2>2, <2>3
<1>2. \A j \in Superseded(r, f) : r.recursive /\ (j \in DOMAIN roots => IsParentOf(r.path, roots[j].path))
  <2>1. ASSUME NEW j \in Superseded(r, f), j \in DOMAIN roots PROVE IsParentOf(r.path, roots[j].path)
    <3>1. i \in 1 .. Len(roots) + 1
      BY DirPaths, PositionOf DEF RootsTypes
    <3>4. j \in i .. Len(roots) /\ i \in Nat /\ j \in Nat
      BY <2>1, <3>1 DEF Superseded, RootsTypes
    <3>2. j \in i .. j
      BY <3>4
    <3>3. QED BY <3>2 DEF Superseded
  <2>2. QED BY <2>1 DEF Superseded
<1> HIDE DEF i, stay
<1>3. PICK g \in [DOMAIN roots' \ {i} -> stay] :
           /\ \A n \in DOMAIN roots' \ {i} : roots'[n] = roots[g[n]]
           /\ \A j \in stay : \E n \in DOMAIN roots' \ {i} : g[n] = j
  BY <1>1
<1>4. InList(r.path)'
  BY <1>1 DEF InList
<1>5. ASSUME NEW p, InList(p)' PROVE InList(p) \/ p = r.path
  <2>1. PICK n \in DOMAIN roots' : roots'[n].path = p
    BY <1>5 DEF InList
  <2>2. CASE n = i
    BY <1>1, <2>1, <2>2
  <2>3. CASE n # i
    <3>1. g[n] \in DOMAIN roots /\ roots[g[n]].path = p
      BY <1>3, <2>1, <2>3 DEF stay
    <3>2. QED BY <3>1 DEF InList
  <2>4. QED BY <2>2, <2>3
<1>6. ASSUME NEW p, InList(p), ~(r.recursive /\ IsParentOf(r.path, p)) PROVE InList(p)'
  <2>1. PICK j \in DOMAIN roots : roots[j].path = p
    BY <1>6 DEF InList
  <2>2. j \in stay
    BY <1>2, <1>6, <2>1 DEF stay
  <2>3. PICK n \in DOMAIN roots' \ {i} : g[n] = j
    BY <1>3, <2>2
  <2>4. QED BY <1>3, <2>1, <2>3 DEF InList
<1>7. QED BY <1>4, <1>5, <1>6
------------------------------------------------------------------------------
(* Steps that make no roots and meet no directories *)

LEMMA AskedFrame ==
  ASSUME RootsTypes, AskedInv, UNCHANGED <<nodes, tree, roots, tocrawl, snapshot, filter>>,
         recrawl => recrawl', \A d \in Dir : Asked(d) => Asked(d)',
         wpc \in {"root", "crawl"} \/ wpc' \in {"root", "crawl"} => wpc' = wpc /\ Head(batch') = Head(batch),
         wpc' = "recrawl" => wpc = "recrawl"
  PROVE  AskedInv'
<1>1. Rooted' = Rooted /\ DeepRoots' = DeepRoots
  BY DEF Rooted, DeepRoots, InList
<1>2. \A p, d : (Ahead(p)' <=> Ahead(p)) /\ (Below(p, d)' <=> Below(p, d))
  BY DEF Ahead, Below
<1>3. \A d : Open(d)' <=> Open(d)
  BY DEF Open, IgnoreRec
<1>4. RecursiveRooted'
  BY <1>1 DEF AskedInv, RecursiveRooted, Reaches
<1>5. DeepAsked'
  <2>1. ASSUME NEW p \in DeepRoots, NEW d \in Dir, Reaches(p, TRUE, d), Open(d)
        PROVE  Asked(d)' \/ recrawl' \/ Ahead(p)
    BY <2>1 DEF AskedInv, DeepAsked
  <2>2. QED BY <1>1, <1>2, <1>3, <2>1 DEF DeepAsked, Reaches
<1>6. PlainRooted'
  BY <1>1, <1>2 DEF AskedInv, PlainRooted
<1>7. DeadPlain'
  <2>1. ASSUME NEW d \in tree.dead, nodes[d] = "plain", Open(d)
        PROVE  recrawl' \/ \E p \in Dir : Ahead(p) /\ Below(p, d)
    BY <2>1 DEF AskedInv, DeadPlain
  <2>2. QED BY <1>2, <1>3, <2>1 DEF DeadPlain
<1>8. ChildrenAsked' /\ NodesInTree' /\ ToCrawlListed'
  BY DEF AskedInv, ChildrenAsked, NodesInTree, ToCrawlListed, InList
<1>9. SnapshotFresh' /\ HeadMarked'
  BY DEF AskedInv, SnapshotFresh, HeadMarked
<1>10. QED BY <1>4, <1>5, <1>6, <1>7, <1>8, <1>9 DEF AskedInv

LEMMA SetFilterAsks ==
  ASSUME RootsTypes, AskedInv, NEW f, SetFilter(f)
  PROVE  AskedInv'
<1>1. recrawl' /\ UNCHANGED <<todo, batch, nodes, tree, roots, wpc, towatch, tocrawl, call, answers, watched>>
  BY DEF SetFilter
<1>2. Rooted' = Rooted /\ DeepRoots' = DeepRoots
  BY <1>1 DEF Rooted, DeepRoots, InList
<1>3. \A d : Asked(d)' <=> Asked(d)
  BY <1>1 DEF Asked
<1>4. RecursiveRooted' /\ PlainRooted' /\ ChildrenAsked'
  BY <1>1, <1>2, <1>3 DEF AskedInv, RecursiveRooted, PlainRooted, ChildrenAsked, Below
<1>5. DeepAsked' /\ DeadPlain' /\ SnapshotFresh'
  BY <1>1 DEF DeepAsked, DeadPlain, SnapshotFresh
<1>6. NodesInTree' /\ ToCrawlListed' /\ HeadMarked'
  BY <1>1 DEF AskedInv, NodesInTree, ToCrawlListed, InList, HeadMarked
<1>7. QED BY <1>4, <1>5, <1>6 DEF AskedInv

\* A recrawl has all before it that is rooted.
LEMMA RecrawlAsks ==
  ASSUME RootsTypes, AskedInv, Recrawl
  PROVE  AskedInv'
<1>1. /\ wpc = "loop" /\ wpc' = "recrawl" /\ tocrawl' = roots /\ snapshot' = filter
      /\ UNCHANGED <<filter, batch, nodes, tree, roots, towatch, call, watched>>
  BY DEF Recrawl, ToCrawl
<1>2. Rooted' = Rooted /\ DeepRoots' = DeepRoots /\ DeepRoots \subseteq Rooted
  BY <1>1 DEF Rooted, DeepRoots, InList
<1>3. \A p \in Rooted : p \in Dir /\ Ahead(p)'
  BY <1>1 DEF Rooted, Ahead, InList
<1>4. \A p, d : Below(p, d)' <=> Below(p, d)
  BY <1>1 DEF Below
<1>5. RecursiveRooted' /\ PlainRooted'
  BY <1>1, <1>2, <1>4 DEF AskedInv, RecursiveRooted, PlainRooted
<1>6. DeepAsked'
  BY <1>2, <1>3 DEF DeepAsked
<1>7. DeadPlain'
  <2>1. ASSUME NEW d \in tree.dead, nodes[d] = "plain" PROVE \E p \in Dir : Ahead(p)' /\ Below(p, d)
    <3>1. PICK p \in Rooted : Below(p, d)
      BY <2>1 DEF AskedInv, PlainRooted, RootsTypes
    <3>2. QED BY <1>3, <3>1
  <2>2. QED BY <1>1, <1>4, <2>1 DEF DeadPlain
<1>8. ChildrenAsked' /\ NodesInTree'
  BY <1>1 DEF AskedInv, ChildrenAsked, NodesInTree, Asked
<1>9. ToCrawlListed' /\ SnapshotFresh' /\ HeadMarked'
  BY <1>1 DEF ToCrawlListed, InList, SnapshotFresh, HeadMarked
<1>10. QED BY <1>5, <1>6, <1>7, <1>8, <1>9 DEF AskedInv

------------------------------------------------------------------------------
(* Steps that do *)

\* A new root is not deleted, and the backend is asked for it.
LEMMA NewRootAsks ==
  ASSUME RootsTypes, RootsControl, AskedInv, NewRoot
  PROVE  AskedInv'
<1> DEFINE r == Head(batch)
<1>1. /\ wpc = "batch" /\ wpc' = "root" /\ ~IsKnown(r)
      /\ UNCHANGED <<filter, recrawl, batch, roots, towatch, snapshot, tocrawl, watched>>
  BY DEF NewRoot
<1>2. batch # <<>> /\ tocrawl = <<>> /\ call.pc = "none"
  BY <1>1 DEF RootsControl, RootsTypes
<1>3. r \in Request /\ r.path \in Dir /\ r.recursive \in BOOLEAN
  BY <1>2, HeadAndTail DEF Request
<1>4. call'.pc = "called" /\ call'.path = r.path
  BY DEF NewRoot, CallWatchDir
<1>5. nodes' = [nodes EXCEPT ![r.path] = IF r.recursive THEN "recursive" ELSE "children"]
  BY DEF NewRoot
<1>6. nodes \in [Dir -> {"none", "plain", "children", "recursive"}]
  BY DEF RootsTypes
<1>7. tree'.dead = tree.dead /\ tree'.linked \subseteq tree.linked \cup {r.path}
  <2> DEFINE new == {r.path}
  <2>1. new \in SUBSET Dir
    BY <1>3
  <2>2. tree' = WithNew(tree, new, new) \/ tree' = tree
    BY DEF NewRoot
  <2> HIDE DEF new
  <2>3. /\ WithNew(tree, new, new).dead = tree.dead
        /\ WithNew(tree, new, new).linked \subseteq tree.linked \cup new
    BY <2>1, WithNewTypes
  <2>4. tree'.dead = tree.dead /\ tree'.linked \subseteq tree.linked \cup new
    BY <2>2, <2>3
  <2>5. QED BY <2>4 DEF new
<1> HIDE DEF r
<1>8. /\ nodes'[r.path] # "none" /\ (nodes'[r.path] = "recursive" <=> r.recursive)
      /\ \A d \in Dir \ {r.path} : nodes'[d] = nodes[d]
      /\ nodes[r.path] # "recursive" /\ nodes'[r.path] # "plain"
  BY <1>1, <1>3, <1>5, <1>6 DEF IsKnown
<1>9. Rooted' = Rooted /\ Rooted \subseteq Dir
  BY <1>1 DEF Rooted, InList
<1>10. DeepRoots' = DeepRoots
  <2>1. \A p \in Rooted : p \in DeepRoots' <=> p \in DeepRoots
    BY <1>1, <1>8, <1>9 DEF DeepRoots, r
  <2>2. QED BY <1>9, <2>1 DEF DeepRoots
<1>11. \A d \in Dir : Asked(d) => Asked(d)'
  BY <1>1, <1>2 DEF Asked
<1>12. \A p \in Dir, d \in Dir : Below(p, d) => Below(p, d)'
  BY <1>8 DEF Below
<1>13. RecursiveRooted'
  <2>1. ASSUME NEW d \in Dir, nodes'[d] = "recursive"
        PROVE  (\E p \in DeepRoots : Reaches(p, TRUE, d)) \/ d = r.path
    BY <1>1, <1>8, <2>1 DEF AskedInv, RecursiveRooted
  <2>2. QED BY <1>1, <1>10, <2>1 DEF RecursiveRooted, Reaches, r
<1>14. DeepAsked'
  <2>1. ASSUME NEW p \in DeepRoots, NEW d \in Dir, Reaches(p, TRUE, d), Open(d) PROVE Asked(d)' \/ recrawl
    <3>1. ~Ahead(p)
      BY <1>2 DEF Ahead
    <3>2. QED BY <1>11, <2>1, <3>1 DEF AskedInv, DeepAsked
  <2>2. QED BY <1>1, <1>10, <2>1 DEF DeepAsked, Reaches, Open, IgnoreRec
<1>15. PlainRooted'
  <2>1. ASSUME NEW d \in Dir, nodes'[d] = "plain" PROVE \E p \in Rooted : Below(p, d)'
    <3>1. nodes[d] = "plain"
      BY <1>8, <2>1
    <3>2. PICK p \in Rooted : Below(p, d)
      BY <3>1 DEF AskedInv, PlainRooted
    <3>3. QED BY <1>9, <1>12, <3>2
  <2>2. QED BY <1>9, <2>1 DEF PlainRooted
<1>16. DeadPlain'
  <2>1. ASSUME NEW d \in tree.dead, nodes'[d] = "plain", Open(d) PROVE recrawl
    <3>1. d \in Dir /\ nodes[d] = "plain"
      BY <1>8, <2>1 DEF RootsTypes
    <3>2. \A p \in Dir : ~Ahead(p)
      BY <1>2 DEF Ahead
    <3>3. QED BY <2>1, <3>1, <3>2 DEF AskedInv, DeadPlain
  <2>2. QED BY <1>1, <1>7, <2>1 DEF DeadPlain, Open, IgnoreRec
<1>17. ChildrenAsked'
  <2>1. ASSUME NEW d \in Dir, nodes'[d] = "children" PROVE Asked(d)'
    <3>1. CASE d = r.path
      BY <1>4, <3>1 DEF Asked
    <3>2. CASE d # r.path
      BY <1>8, <1>11, <2>1, <3>2 DEF AskedInv, ChildrenAsked
    <3>3. QED BY <3>1, <3>2
  <2>2. QED BY <2>1 DEF ChildrenAsked
<1>18. NodesInTree'
  <2>1. ASSUME NEW d \in tree.dead \cup tree.linked \cup {r.path} PROVE nodes'[d] # "none"
    <3>1. CASE d # r.path
      <4>1. d \in Dir /\ nodes[d] # "none"
        BY <2>1, <3>1 DEF AskedInv, NodesInTree, RootsTypes
      <4>2. QED BY <1>8, <3>1, <4>1
    <3>2. QED BY <1>8, <3>1
  <2>2. QED BY <1>7, <2>1 DEF NodesInTree
<1>19. ToCrawlListed' /\ SnapshotFresh'
  BY <1>1, <1>2 DEF ToCrawlListed, SnapshotFresh
<1>20. HeadMarked'
  BY <1>1, <1>8 DEF HeadMarked, r
<1>21. QED BY <1>13, <1>14, <1>15, <1>16, <1>17, <1>18, <1>19, <1>20 DEF AskedInv
\* crawl_root of a recursive root comes by all that is below it, but for what is ignored
\* and what is below a recursive node on the way; what it meets and leaves out as deleted
\* was ignored until a moment ago.
LEMMA CrawlRootMeets ==
  ASSUME RootsTypes, RootsControl, AskedInv, CrawlRoot, call.ok, Head(batch).recursive,
         NEW d \in Dir, Reaches(Head(batch).path, TRUE, d), Open(d)
  PROVE  Asked(d)' \/ recrawl
<1> DEFINE r == Head(batch)
           met == Met(CrawlRootSkips, r.path, r.recursive)
<1>1. /\ wpc = "root" /\ batch # <<>> /\ tocrawl = <<>> /\ towatch = {} /\ call.path = r.path
      /\ towatch' = met \ tree.dead /\ watched' = watched \cup {r.path}
  BY DEF CrawlRoot, Return, RootsControl
<1>2. r.path \in Dir
  BY <1>1, HeadAndTail DEF Request
<1>3. \A e \in Dir : Asked(e) => Asked(e)'
  BY <1>1 DEF Asked
<1>4. \A p : ~Ahead(p)
  BY <1>1 DEF Ahead
<1>5. CASE d = r.path
  BY <1>1, <1>5 DEF Asked
<1>6. CASE d \in met
  <2>1. nodes[d] # "recursive"
    BY <1>6 DEF Met, CrawlRootSkips
  <2>2. CASE d \notin tree.dead
    BY <1>1, <1>6, <2>2 DEF Asked
  <2>3. CASE d \in tree.dead
    <3>1. nodes[d] \in {"plain", "children"}
      BY <2>1, <2>3 DEF AskedInv, NodesInTree, RootsTypes
    <3>2. nodes[d] = "plain" => recrawl
      BY <1>4, <2>3 DEF AskedInv, DeadPlain
    <3>3. nodes[d] = "children" => Asked(d)'
      BY <1>3 DEF AskedInv, ChildrenAsked
    <3>4. QED BY <3>1, <3>2, <3>3
  <2>4. QED BY <2>2, <2>3
<1>7. CASE IsParentOf(r.path, d) /\ d \notin met
  <2>1. PICK e \in CrawlRootSkips : IsParentOf(r.path, e) /\ (e = d \/ IsParentOf(e, d))
    BY <1>7 DEF Met
  <2>2. e \notin filter
    BY <2>1 DEF Open, IgnoreRec
  <2>3. e \in Dir /\ nodes[e] = "recursive"
    BY <2>1, <2>2 DEF CrawlRootSkips
  <2>4. e # r.path
    BY <2>1, NotBelowItself
  <2>5. PICK p \in DeepRoots : Reaches(p, TRUE, e)
    BY <2>3, <2>4 DEF AskedInv, RecursiveRooted
  <2>6. p \in Dir /\ Reaches(e, TRUE, d)
    BY <2>1 DEF DeepRoots, Rooted, Reaches
  <2>7. Reaches(p, TRUE, d)
    BY <2>3, <2>5, <2>6, ReachesTwice
  <2>8. QED BY <1>3, <1>4, <2>7 DEF AskedInv, DeepAsked
<1>8. QED BY <1>5, <1>6, <1>7 DEF Reaches

LEMMA CrawlRootAsks ==
  ASSUME RootsTypes, RootsControl, RootsCarried, AskedInv, CrawlRoot, call.ok
  PROVE  AskedInv'
<1> DEFINE r == Head(batch)
           met == Met(CrawlRootSkips, r.path, r.recursive)
           new == {d \in met : nodes[d] = "none"}
<1>1. /\ wpc = "root" /\ wpc' = "crawl" /\ batch # <<>> /\ tocrawl = <<>> /\ towatch = {}
      /\ call.path = r.path /\ watched' = watched \cup {r.path}
      /\ UNCHANGED <<filter, recrawl, batch, roots, tocrawl>>
  BY DEF CrawlRoot, Return, RootsControl
<1>2. r.path \in Dir /\ r.recursive \in BOOLEAN
  BY <1>1, HeadAndTail DEF Request
<1>3. met \in SUBSET Dir /\ nodes' = WithMet(nodes, met, r.recursive)
  BY DEF CrawlRoot, Met
<1>4. r.path \notin met /\ \A d \in met : IsParentOf(r.path, d) /\ (r.recursive \/ Parent(d) = r.path)
  BY NotBelowItself DEF Met
<1>5. tree'.dead = tree.dead /\ tree'.linked \subseteq tree.linked \cup met
  <2> DEFINE lists == IF r.recursive THEN new ELSE {}
  <2>1. new \in SUBSET Dir /\ lists \in SUBSET Dir /\ new \subseteq met
    BY <1>3
  <2>2. tree' = WithNew(tree, new, lists)
    BY DEF CrawlRoot
  <2> HIDE DEF new, lists
  <2>3. QED BY <2>1, <2>2, WithNewTypes
<1>6. r.recursive => \A d \in Dir : Reaches(r.path, TRUE, d) /\ Open(d) => Asked(d)' \/ recrawl
  BY CrawlRootMeets
<1>7. nodes \in [Dir -> {"none", "plain", "children", "recursive"}]
  BY DEF RootsTypes
<1>8. nodes[r.path] = "recursive" <=> r.recursive
  BY <1>1 DEF AskedInv, HeadMarked
<1> HIDE DEF r, met
<1>9. \A d \in Dir : nodes'[d] = IF d \notin met THEN nodes[d]
                                 ELSE IF r.recursive THEN "recursive"
                                 ELSE IF nodes[d] = "none" THEN "plain" ELSE nodes[d]
  BY <1>2, <1>3, WithMetIs
<1>10. \A d \in Dir : /\ nodes[d] # "none" => nodes'[d] # "none"
                      /\ nodes[d] = "recursive" => nodes'[d] = "recursive"
                      /\ d \in met => nodes'[d] # "none"
  BY <1>7, <1>9
<1>11. Rooted' = Rooted \cup {r.path} /\ Rooted \subseteq Dir
  BY <1>1, <1>2 DEF Rooted, InList, r
<1>12. DeepRoots \subseteq DeepRoots' /\ (r.recursive => r.path \in DeepRoots')
  <2>1. \A p \in Rooted : nodes[p] = "recursive" => p \in DeepRoots'
    BY <1>1, <1>10, <1>11 DEF DeepRoots
  <2>2. r.recursive => r.path \in DeepRoots'
    BY <1>1, <1>2, <1>8, <1>10, <1>11 DEF DeepRoots
  <2>3. QED BY <2>1, <2>2 DEF DeepRoots
<1>13. \A p \in DeepRoots' : p \in DeepRoots \/ (r.recursive /\ Reaches(r.path, TRUE, p) /\ p \in Dir)
  <2>1. ASSUME NEW p \in DeepRoots', p # r.path, p \notin met PROVE p \in DeepRoots
    BY <1>1, <1>9, <1>11, <2>1 DEF DeepRoots, r
  <2>2. ASSUME r.path \in DeepRoots' PROVE r.recursive
    BY <1>2, <1>4, <1>8, <1>9, <2>2 DEF DeepRoots
  <2>3. ASSUME NEW p \in DeepRoots', p \in met PROVE p \in DeepRoots \/ r.recursive
    <3>1. ASSUME ~r.recursive PROVE nodes[p] = "recursive" /\ p # r.path /\ p \in Rooted
      BY <1>3, <1>4, <1>9, <1>11, <2>3, <3>1 DEF DeepRoots
    <3>2. QED BY <3>1 DEF DeepRoots, r
  <2>4. \A p \in DeepRoots' : p \in Dir
    BY <1>2, <1>11 DEF DeepRoots
  <2>5. QED BY <1>4, <2>1, <2>2, <2>3, <2>4 DEF Reaches
<1>14. \A d \in Dir : Asked(d) => Asked(d)'
  BY <1>1 DEF Asked
<1>15. \A p : ~Ahead(p)
  BY <1>1 DEF Ahead
<1>16. RecursiveRooted'
  <2>1. ASSUME NEW d \in Dir, nodes'[d] = "recursive" PROVE \E p \in DeepRoots' : Reaches(p, TRUE, d)
    <3>1. CASE nodes[d] = "recursive" /\ d # r.path
      BY <1>12, <3>1 DEF AskedInv, RecursiveRooted, r
    <3>2. CASE d = r.path
      BY <1>4, <1>8, <1>9, <1>12, <2>1, <3>2 DEF Reaches
    <3>3. CASE d \in met /\ nodes[d] # "recursive"
      <4>1. r.recursive
        BY <1>9, <2>1, <3>3
      <4>2. QED BY <1>4, <1>12, <3>3, <4>1 DEF Reaches
    <3>4. QED BY <1>9, <2>1, <3>1, <3>2, <3>3
  <2>2. QED BY <2>1 DEF RecursiveRooted, Reaches
<1>17. DeepAsked'
  <2>1. ASSUME NEW p \in DeepRoots', NEW d \in Dir, Reaches(p, TRUE, d), Open(d) PROVE Asked(d)' \/ recrawl
    <3>1. CASE p \in DeepRoots
      BY <1>14, <1>15, <2>1, <3>1 DEF AskedInv, DeepAsked
    <3>2. CASE r.recursive /\ Reaches(r.path, TRUE, p) /\ p \in Dir
      BY <1>2, <1>6, <2>1, <3>2, ReachesTwice
    <3>3. QED BY <1>13, <3>1, <3>2
  <2>2. QED BY <1>1, <2>1 DEF DeepAsked, Reaches, Open, IgnoreRec
<1>18. PlainRooted'
  <2>1. ASSUME NEW d \in Dir, nodes'[d] = "plain" PROVE \E p \in Rooted' : Below(p, d)'
    <3>1. CASE nodes[d] = "plain"
      <4>1. PICK p \in Rooted : Below(p, d)
        BY <3>1 DEF AskedInv, PlainRooted
      <4>2. QED BY <1>10, <1>11, <4>1 DEF Below
    <3>2. CASE nodes[d] # "plain"
      <4>1. d \in met /\ ~r.recursive
        BY <1>9, <2>1, <3>2
      <4>2. QED BY <1>4, <1>11, <4>1 DEF Below
    <3>3. QED BY <3>1, <3>2
  <2>2. QED BY <2>1 DEF PlainRooted
<1>19. DeadPlain'
  <2>1. ASSUME NEW d \in tree.dead, nodes'[d] = "plain", Open(d) PROVE recrawl
    <3>1. d \in Dir /\ nodes[d] # "none"
      BY DEF AskedInv, NodesInTree, RootsTypes
    <3>2. nodes[d] = "plain"
      BY <1>9, <2>1, <3>1
    <3>3. QED BY <1>15, <2>1, <3>2 DEF AskedInv, DeadPlain
  <2>2. QED BY <1>1, <1>5, <2>1 DEF DeadPlain, Open, IgnoreRec
<1>20. ChildrenAsked'
  <2>1. \A d \in Dir : nodes'[d] = "children" => nodes[d] = "children"
    BY <1>9
  <2>2. QED BY <1>14, <2>1 DEF AskedInv, ChildrenAsked
<1>21. NodesInTree'
  <2>1. ASSUME NEW d \in tree.dead \cup tree.linked \cup met PROVE nodes'[d] # "none"
    <3>1. d \in Dir /\ (d \in met \/ nodes[d] # "none")
      BY <1>3, <2>1 DEF AskedInv, NodesInTree, RootsTypes
    <3>2. QED BY <1>10, <3>1
  <2>2. QED BY <1>5, <2>1 DEF NodesInTree
<1>22. ToCrawlListed' /\ SnapshotFresh' /\ HeadMarked'
  BY <1>1 DEF ToCrawlListed, SnapshotFresh, HeadMarked
<1>23. QED BY <1>16, <1>17, <1>18, <1>19, <1>20, <1>21, <1>22 DEF AskedInv
\* A recrawl of a recursive root comes by all that is not ignored; what it makes a deleted
\* node of is.
LEMMA CrawlNextAsks ==
  ASSUME RootsTypes, RootsControl, AskedInv, CrawlNext
  PROVE  AskedInv'
<1> DEFINE p == Head(tocrawl).path
           recursive == nodes[p] = "recursive"
           met == Met(snapshot, p, recursive)
<1>1. /\ wpc = "recrawl" /\ wpc' = wpc /\ tocrawl # <<>> /\ tocrawl' = Tail(tocrawl) /\ towatch = {}
      /\ UNCHANGED <<filter, recrawl, batch, roots, snapshot, call, watched>>
  BY DEF CrawlNext
<1>2. p \in Dir /\ recursive \in BOOLEAN /\ InList(p)
  <2>1. p \in Dir /\ Head(tocrawl) = tocrawl[1] /\ 1 \in DOMAIN tocrawl
    BY <1>1, HeadAndTail DEF Request, RootsTypes
  <2>2. QED BY <2>1 DEF AskedInv, ToCrawlListed
<1>3. /\ met \in SUBSET Dir /\ nodes' = WithMet(nodes, met, recursive)
      /\ tree' = Crawled(p, met, recursive) /\ towatch' = {p} \cup (IF recursive THEN met ELSE {})
  BY DEF CrawlNext, Met
<1>4. p \notin met /\ \A d \in met : IsParentOf(p, d) /\ (recursive \/ Parent(d) = p)
  BY NotBelowItself DEF Met
<1>5. \A d \in Dir : IsParentOf(p, d) /\ (recursive \/ Parent(d) = p) => d \in met \/ IgnoreRec(snapshot, d)
  BY MetOrIgnored
<1>6. nodes \in [Dir -> {"none", "plain", "children", "recursive"}] /\ recursive = (nodes[p] = "recursive")
  BY DEF RootsTypes
<1>7. /\ \A q : Ahead(q) => q = p \/ Ahead(q)'
      /\ \A q : Ahead(q)' => Ahead(q)
  <2>1. tocrawl \in Seq(Request)
    BY DEF RootsTypes
  <2>2. /\ Len(tocrawl) \in Nat \ {0} /\ DOMAIN tocrawl = 1 .. Len(tocrawl) /\ Head(tocrawl) = tocrawl[1]
        /\ DOMAIN tocrawl' = 1 .. Len(tocrawl) - 1
        /\ \A n \in 1 .. Len(tocrawl) - 1 : tocrawl'[n] = tocrawl[n + 1]
    BY <1>1, <2>1
  <2>3. \A n \in 2 .. Len(tocrawl) : n - 1 \in 1 .. Len(tocrawl) - 1 /\ tocrawl'[n - 1] = tocrawl[n]
    BY <2>2
  <2>4. \A n \in DOMAIN tocrawl : n = 1 \/ n \in 2 .. Len(tocrawl)
    BY <2>2
  <2>5. \A n \in 1 .. Len(tocrawl) - 1 : n + 1 \in 1 .. Len(tocrawl)
    BY <2>2
  <2>6. QED BY <2>2, <2>3, <2>4, <2>5 DEF Ahead
<1> HIDE DEF p, met, recursive
<1>8. \A d \in tree'.dead :
        \/ d \in tree.dead \ met
        \/ d \in tree.linked \cup met /\ \E q \in PassedOver(p, met, recursive) : Reaches(q, TRUE, d)
  BY <1>2, <1>3, CrawledTypes
<1>9. tree'.linked \subseteq tree.linked \cup met
  <2>1. tree'.linked \subseteq tree.linked \cup {d \in met : nodes[d] = "none"}
    BY <1>2, <1>3, CrawledTypes
  <2>2. QED BY <2>1
<1>10. \A d \in tree'.dead : d \in Dir /\ d \in tree.dead \cup tree.linked \cup met
  BY <1>3, <1>8 DEF RootsTypes
<1>11. \A d \in Dir : nodes'[d] = IF d \notin met THEN nodes[d]
                                  ELSE IF recursive THEN "recursive"
                                  ELSE IF nodes[d] = "none" THEN "plain" ELSE nodes[d]
  BY <1>2, <1>3, WithMetIs
<1>12. \A d \in Dir : /\ nodes[d] # "none" => nodes'[d] # "none"
                      /\ nodes[d] = "recursive" => nodes'[d] = "recursive"
                      /\ d \in met => nodes'[d] # "none"
  BY <1>6, <1>11
<1>13. Rooted' = Rooted /\ Rooted \subseteq Dir /\ p \in Rooted
  BY <1>1, <1>2 DEF Rooted, InList
<1>14. DeepRoots \subseteq DeepRoots' /\ (recursive => p \in DeepRoots')
  BY <1>1, <1>2, <1>6, <1>12, <1>13 DEF DeepRoots
<1>15. \A q \in DeepRoots' : q \in Dir /\ (q \in DeepRoots \/ (recursive /\ IsParentOf(p, q)))
  <2>1. ASSUME NEW q \in DeepRoots', nodes[q] # "recursive" PROVE recursive /\ IsParentOf(p, q)
    BY <1>4, <1>11, <1>13, <2>1 DEF DeepRoots
  <2>2. QED BY <1>1, <1>13, <2>1 DEF DeepRoots
<1>16. \A d \in Dir : Asked(d) => Asked(d)'
  BY <1>1 DEF Asked
<1>17. recrawl \/ snapshot = filter
  BY <1>1 DEF AskedInv, SnapshotFresh
<1>18. ASSUME recursive, NEW d \in Dir, Reaches(p, TRUE, d), Open(d) PROVE Asked(d)' \/ recrawl
  <2>1. d = p \/ d \in met \/ IgnoreRec(snapshot, d)
    BY <1>5, <1>18 DEF Reaches
  <2>2. QED BY <1>3, <1>17, <1>18, <2>1 DEF Asked, Open
<1>19. RecursiveRooted'
  <2>1. ASSUME NEW d \in Dir, nodes'[d] = "recursive" PROVE \E q \in DeepRoots' : Reaches(q, TRUE, d)
    <3>1. CASE nodes[d] = "recursive"
      BY <1>1, <1>14, <3>1 DEF AskedInv, RecursiveRooted
    <3>2. CASE nodes[d] # "recursive"
      <4>1. recursive /\ d \in met
        BY <1>11, <2>1, <3>2
      <4>2. QED BY <1>4, <1>14, <4>1 DEF Reaches
    <3>3. QED BY <3>1, <3>2
  <2>2. QED BY <2>1 DEF RecursiveRooted, Reaches
<1>20. DeepAsked'
  <2>1. ASSUME NEW q \in DeepRoots', NEW d \in Dir, Reaches(q, TRUE, d), Open(d)
        PROVE  Asked(d)' \/ recrawl \/ Ahead(q)'
    <3>1. CASE q \in DeepRoots
      <4>1. Asked(d)' \/ recrawl \/ Ahead(q)' \/ q = p
        BY <1>7, <1>16, <2>1, <3>1 DEF AskedInv, DeepAsked
      <4>2. q = p => recursive
        BY <1>6, <3>1 DEF DeepRoots
      <4>3. QED BY <1>18, <2>1, <4>1, <4>2
    <3>2. CASE recursive /\ IsParentOf(p, q)
      <4>1. Reaches(p, TRUE, d)
        BY <1>2, <1>15, <2>1, <3>2, ReachesTwice DEF Reaches
      <4>2. QED BY <1>18, <2>1, <3>2, <4>1
    <3>3. QED BY <1>15, <3>1, <3>2
  <2>2. QED BY <1>1, <2>1 DEF DeepAsked, Reaches, Open, IgnoreRec
<1>21. PlainRooted'
  <2>1. ASSUME NEW d \in Dir, nodes'[d] = "plain" PROVE \E q \in Rooted : Below(q, d)'
    <3>1. CASE nodes[d] = "plain"
      <4>1. PICK q \in Rooted : Below(q, d)
        BY <3>1 DEF AskedInv, PlainRooted
      <4>2. QED BY <1>12, <1>13, <4>1 DEF Below
    <3>2. CASE nodes[d] # "plain"
      <4>1. d \in met /\ ~recursive
        BY <1>11, <2>1, <3>2
      <4>2. QED BY <1>4, <1>13, <4>1 DEF Below
    <3>3. QED BY <3>1, <3>2
  <2>2. QED BY <1>13, <2>1 DEF PlainRooted
<1>22. DeadPlain'
  <2>1. ASSUME NEW d \in tree'.dead, nodes'[d] = "plain", Open(d), ~recrawl
        PROVE  \E q \in Dir : Ahead(q)' /\ Below(q, d)'
    <3>1. d \in Dir /\ ~IgnoreRec(snapshot, d)
      BY <1>10, <1>17, <2>1 DEF Open
    <3>2. d \in tree.dead \ met
      <4>1. ASSUME NEW q \in PassedOver(p, met, recursive), Reaches(q, TRUE, d) PROVE FALSE
        <5>1. q \in Dir /\ IgnoreRec(snapshot, q)
          BY <1>5 DEF PassedOver
        <5>2. snapshot \in SUBSET Dir
          BY DEF RootsTypes
        <5>3. QED BY <3>1, <4>1, <5>1, <5>2, IgnoredBelow
      <4>2. QED BY <1>8, <4>1
    <3>3. nodes[d] = "plain"
      BY <1>11, <2>1, <3>1, <3>2
    <3>4. PICK q \in Dir : Ahead(q) /\ Below(q, d)
      BY <2>1, <3>2, <3>3 DEF AskedInv, DeadPlain
    <3>5. q # p
      BY <1>5, <1>6, <3>1, <3>2, <3>4 DEF Below
    <3>6. QED BY <1>7, <1>12, <3>4, <3>5 DEF Below
  <2>2. QED BY <1>1, <2>1 DEF DeadPlain, Open, IgnoreRec
<1>23. ChildrenAsked'
  <2>1. \A d \in Dir : nodes'[d] = "children" => nodes[d] = "children"
    BY <1>11
  <2>2. QED BY <1>16, <2>1 DEF AskedInv, ChildrenAsked
<1>24. NodesInTree'
  <2>1. ASSUME NEW d \in tree.dead \cup tree.linked \cup met PROVE nodes'[d] # "none"
    <3>1. d \in Dir /\ (d \in met \/ nodes[d] # "none")
      BY <1>3, <2>1 DEF AskedInv, NodesInTree, RootsTypes
    <3>2. QED BY <1>12, <3>1
  <2>2. QED BY <1>9, <1>10, <2>1 DEF NodesInTree
<1>25. ToCrawlListed'
  <2>1. \A q : Ahead(q) => InList(q)
    BY DEF Ahead, AskedInv, ToCrawlListed
  <2>2. QED BY <1>1, <1>7, <2>1 DEF ToCrawlListed, Ahead, InList
<1>26. SnapshotFresh' /\ HeadMarked'
  BY <1>1 DEF AskedInv, SnapshotFresh, HeadMarked
<1>27. QED BY <1>19, <1>20, <1>21, <1>22, <1>23, <1>24, <1>25, <1>26 DEF AskedInv

\* The roots that leave the list are below the one that comes into it.
LEMMA ListRootAsks ==
  ASSUME RootsTypes, RootsControl, Sorted(roots), RootsCarried, AskedInv, ListRoot
  PROVE  AskedInv'
<1> DEFINE r == Head(batch)
<1>1. /\ wpc = "crawl" /\ wpc' \in {"loop", "batch"} /\ batch # <<>> /\ tocrawl = <<>>
      /\ roots' = Listed(r, snapshot)
      /\ UNCHANGED <<filter, recrawl, nodes, tree, towatch, tocrawl, call, watched>>
  BY DEF ListRoot, Answer, RootsControl
<1>2. r \in Request /\ r.path \in Dir /\ (r.recursive => nodes[r.path] = "recursive")
  BY <1>1, HeadAndTail DEF Request, RootsCarried, Pending, Carries
<1> DEFINE NowInList(p) == \E n \in DOMAIN roots' : roots'[n].path = p
<1> HIDE DEF r
<1>3. /\ NowInList(r.path)
      /\ \A p : NowInList(p) => InList(p) \/ p = r.path
      /\ \A p : InList(p) => NowInList(p) \/ (r.recursive /\ IsParentOf(r.path, p))
  BY <1>1, <1>2, ListedPaths DEF InList
<1>30. Rooted' = {p \in Dir : NowInList(p)} /\ r.path \in Rooted
  BY <1>1, <1>2 DEF Rooted, InList, r
<1> HIDE DEF NowInList
<1>4. /\ Rooted' \subseteq Rooted /\ r.path \in Rooted' /\ Rooted \subseteq Dir
      /\ \A p \in Rooted : p \in Rooted' \/ (r.recursive /\ IsParentOf(r.path, p))
  BY <1>1, <1>2, <1>3, <1>30 DEF Rooted, r
<1>5. /\ DeepRoots' \subseteq DeepRoots /\ DeepRoots \subseteq Dir /\ (r.recursive => r.path \in DeepRoots')
      /\ \A p \in DeepRoots : p \in DeepRoots' \/ (r.recursive /\ IsParentOf(r.path, p))
  BY <1>1, <1>2, <1>4 DEF DeepRoots
<1>6. \A d : Asked(d)' <=> Asked(d)
  BY <1>1 DEF Asked
<1>7. \A p, d : (Ahead(p)' <=> Ahead(p)) /\ (Below(p, d)' <=> Below(p, d))
  BY <1>1 DEF Ahead, Below
<1>8. RecursiveRooted'
  <2>1. ASSUME NEW d \in Dir, nodes[d] = "recursive" PROVE \E p \in DeepRoots' : Reaches(p, TRUE, d)
    <3>1. PICK p \in DeepRoots : Reaches(p, TRUE, d)
      BY <1>1, <2>1 DEF AskedInv, RecursiveRooted
    <3>2. CASE r.recursive /\ IsParentOf(r.path, p)
      <4>1. Reaches(r.path, TRUE, d)
        BY <1>2, <1>5, <3>1, <3>2, ReachesTwice DEF Reaches
      <4>2. QED BY <1>5, <3>2, <4>1
    <3>3. QED BY <1>5, <3>1, <3>2
  <2>2. QED BY <1>1, <2>1 DEF RecursiveRooted, Reaches
<1>9. DeepAsked'
  <2>1. ASSUME NEW p \in DeepRoots', NEW d \in Dir, Reaches(p, TRUE, d), Open(d)
        PROVE  Asked(d) \/ recrawl \/ Ahead(p)
    BY <1>5, <2>1 DEF AskedInv, DeepAsked
  <2>2. QED BY <1>1, <1>6, <1>7, <2>1 DEF DeepAsked, Reaches, Open, IgnoreRec
<1>10. PlainRooted'
  <2>1. ASSUME NEW d \in Dir, nodes[d] = "plain" PROVE \E p \in Rooted' : Below(p, d)
    <3>1. PICK p \in Rooted : Below(p, d)
      BY <2>1 DEF AskedInv, PlainRooted
    <3>2. CASE r.recursive /\ IsParentOf(r.path, p)
      <4>1. IsParentOf(r.path, d)
        BY <1>2, <1>4, <2>1, <3>1, <3>2, DirPaths, BelowBelow DEF Below
      <4>2. QED BY <1>2, <1>4, <3>2, <4>1 DEF Below
    <3>3. QED BY <1>4, <3>1, <3>2
  <2>2. QED BY <1>1, <1>7, <2>1 DEF PlainRooted
<1>11. DeadPlain'
  <2>1. ASSUME NEW d \in tree.dead, nodes[d] = "plain", Open(d)
        PROVE  recrawl \/ \E p \in Dir : Ahead(p) /\ Below(p, d)
    BY <2>1 DEF AskedInv, DeadPlain
  <2>2. QED BY <1>1, <1>7, <2>1 DEF DeadPlain, Open, IgnoreRec
<1>12. ChildrenAsked' /\ NodesInTree'
  BY <1>1, <1>6 DEF AskedInv, ChildrenAsked, NodesInTree
<1>13. ToCrawlListed' /\ SnapshotFresh' /\ HeadMarked'
  BY <1>1 DEF ToCrawlListed, SnapshotFresh, HeadMarked
<1>14. QED BY <1>8, <1>9, <1>10, <1>11, <1>12, <1>13 DEF AskedInv

------------------------------------------------------------------------------
LEMMA AskedInvInit ==
  ASSUME RootsInit
  PROVE  AskedInv
<1> USE DEF RootsInit
<1>1. \A d \in Dir : nodes[d] = "none"
  OBVIOUS
<1>2. Rooted = {} /\ DeepRoots = {}
  BY DEF Rooted, DeepRoots, InList
<1>3. QED BY <1>1, <1>2 DEF AskedInv, RecursiveRooted, DeepAsked, PlainRooted, DeadPlain, ChildrenAsked,
                            NodesInTree, ToCrawlListed, SnapshotFresh, HeadMarked

LEMMA AskedInvStep ==
  ASSUME RootsInv, AskedInv, RootsStep, call.ok
  PROVE  AskedInv'
<1>1. RootsTypes /\ RootsControl /\ Sorted(roots) /\ RootsCarried
  BY DEF RootsInv
<1>2. CASE TakeRequests \/ KnownRoot \/ InvalidRoot \/ RecrawlDone \/ \E r \in Request : AddRoot(r)
  <2>1. UNCHANGED <<nodes, tree, roots, tocrawl, snapshot, filter, recrawl, watched, towatch, call>>
    BY <1>2 DEF TakeRequests, KnownRoot, InvalidRoot, RecrawlDone, AddRoot
  <2>2. \A d \in Dir : Asked(d) => Asked(d)'
    BY <2>1 DEF Asked
  <2>3. /\ wpc \in {"root", "crawl"} \/ wpc' \in {"root", "crawl"} => wpc' = wpc /\ Head(batch') = Head(batch)
        /\ wpc' = "recrawl" => wpc = "recrawl"
    BY <1>2 DEF TakeRequests, KnownRoot, InvalidRoot, RecrawlDone, AddRoot, Answer
  <2>4. QED BY <1>1, <2>1, <2>2, <2>3, AskedFrame
<1>3. CASE WatchNext \/ Watched
  <2>1. UNCHANGED <<nodes, tree, roots, tocrawl, snapshot, filter, recrawl, wpc, batch>>
    BY <1>3 DEF WatchNext, Watched
  <2>2. \A d \in Dir : Asked(d) => Asked(d)'
    <3>1. CASE WatchNext
      <4>1. PICK e \in towatch : CallWatchDir(e, TRUE) /\ towatch' = towatch \ {e}
        BY <3>1 DEF WatchNext
      <4>2. call.pc = "none" /\ call'.pc = "called" /\ call'.path = e /\ watched' = watched
        BY <3>1, <4>1 DEF WatchNext, CallWatchDir
      <4>3. QED BY <4>1, <4>2 DEF Asked
    <3>2. CASE Watched
      BY <3>2 DEF Watched, Return, Asked
    <3>3. QED BY <1>3, <3>1, <3>2
  <2>3. QED BY <1>1, <2>1, <2>2, AskedFrame
<1>4. CASE BackendAnswers
  <2>1. UNCHANGED <<nodes, tree, roots, tocrawl, snapshot, filter, wpc, batch>> /\ (recrawl => recrawl')
    BY <1>4 DEF BackendAnswers, workerOnly
  <2>2. call.pc # "none" => call'.pc # "none" /\ call'.path = call.path
    BY <1>1, <1>4 DEF BackendAnswers, RootsTypes
  <2>3. \A d \in Dir : Asked(d) => Asked(d)'
    BY <1>4, <2>2 DEF BackendAnswers, workerOnly, Asked
  <2>4. QED BY <1>1, <2>1, <2>3, AskedFrame
<1>5. CASE RootRefused
  BY <1>5 DEF RootRefused
<1>6. QED BY <1>1, <1>2, <1>3, <1>4, <1>5, SetFilterAsks, RecrawlAsks, NewRootAsks, CrawlRootAsks,
             CrawlNextAsks, ListRootAsks DEF RootsStep, Worker
==============================================================================
