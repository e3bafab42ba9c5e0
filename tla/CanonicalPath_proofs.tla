------------------------ MODULE CanonicalPath_proofs -------------------------
(***************************************************************************)
(* The order of canonical paths, for paths of any length over any bytes:   *)
(* it is a strict total order in which what is below a directory follows   *)
(* it without a gap. The list of roots relies on all of it (binary search, *)
(* removal of children up to the first root that is none), as does the     *)
(* order in which directories are watched.                                 *)
(***************************************************************************)
EXTENDS CanonicalPath, TLAPS, WellFoundedInduction, SequenceTheorems

Path == Seq(Nat)

LEMMA BytesOf == \A p \in Path : Len(p) \in Nat /\ \A i \in 1 .. Len(p) : p[i] \in Nat
BY ElementOfSeq DEF Path

\* Stands for induction: whatever holds at some place holds at a first one.
LEMMA LeastNumber ==
  ASSUME NEW T \in SUBSET Nat, T # {}
  PROVE  \E n \in T : \A m \in T : n <= m
<1> DEFINE R == OpToRel(<, Nat)
<1>1. IsWellFoundedOn(R, Nat)
  BY NatLessThanWellFounded
<1> HIDE DEF R
<1>2. PICK x \in T : \A y \in T : ~(<<y, x>> \in R)
  BY <1>1, WFMin, Zenon
<1>3. \A y \in T : y \in Nat /\ x \in Nat /\ ~(y < x)
  BY <1>2 DEF R, OpToRel
<1>4. QED BY <1>3

\* The separator is below every other byte and no two bytes have the same rank.
LEMMA RankOrder ==
  \A b, c \in Nat : /\ Rank(b) \in Nat
                    /\ (Rank(b) < Rank(c) \/ b = c \/ Rank(c) < Rank(b))
                    /\ ~(Rank(c) < Rank(Sep))
                    /\ \A d \in Nat : Rank(b) < Rank(c) /\ Rank(c) < Rank(d) => Rank(b) < Rank(d) /\ b # d
BY DEF Rank, Sep

\* Two paths agree up to a first difference or one is the beginning of the other.
LEMMA FirstDifference ==
  ASSUME NEW p \in Path, NEW q \in Path
  PROVE  \/ \E i \in 1 .. Len(p) : i <= Len(q) /\ SameUpTo(p, q, i - 1) /\ p[i] # q[i]
         \/ Len(p) < Len(q) /\ SameUpTo(p, q, Len(p))
         \/ Len(q) < Len(p) /\ SameUpTo(q, p, Len(q))
         \/ p = q
<1> DEFINE T == {i \in 1 .. Len(p) : i <= Len(q) /\ p[i] # q[i]}
<1>1. CASE T = {}
  <2>1. \A i \in 1 .. Len(p) : i <= Len(q) => p[i] = q[i]
    BY <1>1
  <2>2. CASE Len(p) = Len(q)
    <3>1. \A i \in 1 .. Len(p) : p[i] = q[i]
      BY <2>1, <2>2
    <3>2. QED BY <2>2, <3>1, SeqEqual DEF Path
  <2>3. CASE Len(p) # Len(q)
    BY <2>1, <2>3 DEF Path, SameUpTo
  <2>4. QED BY <2>2, <2>3
<1>2. CASE T # {}
  <2>1. T \in SUBSET Nat
    BY DEF Path
  <2>2. PICK n \in T : \A m \in T : n <= m
    BY <1>2, <2>1, LeastNumber
  <2>3. ASSUME NEW i \in 1 .. n - 1 PROVE p[i] = q[i]
    <3>1. i \notin T
      BY <2>1, <2>2
    <3>n. Len(p) \in Nat /\ Len(q) \in Nat
      BY BytesOf
    <3>0. n \in Nat /\ n <= Len(p) /\ n <= Len(q)
      BY <2>2, <3>n
    <3>2. i \in 1 .. Len(p) /\ i <= Len(q)
      BY <2>3, <3>n, <3>0
    <3>3. QED BY <3>1, <3>2
  <2>4. QED BY <2>2, <2>3 DEF SameUpTo
<1>3. QED BY <1>1, <1>2

\* The order at the first difference, spelled out.
LEMMA LessAt ==
  ASSUME NEW p \in Path, NEW q \in Path, NEW i \in 1 .. Len(p), i <= Len(q),
         SameUpTo(p, q, i - 1), p[i] # q[i]
  PROVE  Less(p, q) <=> Rank(p[i]) < Rank(q[i])
<1>1. p[i] \in Nat /\ q[i] \in Nat
  BY BytesOf
<1>2. ASSUME Less(p, q) PROVE Rank(p[i]) < Rank(q[i])
  <2>1. CASE Len(p) < Len(q) /\ SameUpTo(p, q, Len(p))
    BY <2>1 DEF SameUpTo
  <2>2. ASSUME NEW k \in 1 .. Len(p), k <= Len(q), SameUpTo(p, q, k - 1), p[k] # q[k],
               Rank(p[k]) < Rank(q[k])
        PROVE  Rank(p[i]) < Rank(q[i])
    <3>1. ~(k < i)
      <4>1. k < i => k \in 1 .. i - 1
        BY DEF Path
      <4>2. QED BY <2>2, <4>1 DEF SameUpTo
    <3>2. ~(i < k)
      <4>1. i < k => i \in 1 .. k - 1
        BY DEF Path
      <4>2. QED BY <2>2, <4>1 DEF SameUpTo
    <3>3. k = i
      BY <3>1, <3>2 DEF Path
    <3>4. QED BY <2>2, <3>3
  <2>3. QED BY <1>2, <2>1, <2>2 DEF Less
<1>3. QED BY <1>2 DEF Less

\* No path comes before itself and of two paths one comes first (Ord for
\* CannonicalPath): what the binary searches in worker.rs and tree.rs need.
THEOREM LessIsTotal ==
  ASSUME NEW p \in Path, NEW q \in Path
  PROVE  /\ ~Less(p, p)
         /\ Less(p, q) \/ p = q \/ Less(q, p)
<1>1. ~Less(p, p)
  BY DEF Less, Path
<1>2. Less(p, q) \/ p = q \/ Less(q, p)
  <2>1. ASSUME NEW i \in 1 .. Len(p), i <= Len(q), SameUpTo(p, q, i - 1), p[i] # q[i]
        PROVE  Less(p, q) \/ Less(q, p)
    <3>1. p[i] \in Nat /\ q[i] \in Nat /\ i \in 1 .. Len(q) /\ SameUpTo(q, p, i - 1)
      BY <2>1 DEF Path, SameUpTo
    <3>2. Rank(p[i]) < Rank(q[i]) \/ Rank(q[i]) < Rank(p[i])
      BY <2>1, <3>1, RankOrder
    <3>3. QED BY <2>1, <3>1, <3>2 DEF Less
  <2>2. QED BY <2>1, FirstDifference DEF Less
<1>3. QED BY <1>1, <1>2

LEMMA SameTogether ==
  ASSUME NEW p, NEW q, NEW r, NEW n \in Int, NEW m \in Int, NEW k \in Int, k <= n, k <= m,
         SameUpTo(p, q, n), SameUpTo(q, r, m)
  PROVE  SameUpTo(p, r, k)
<1>1. \A i \in 1 .. k : i \in 1 .. n /\ i \in 1 .. m
  OBVIOUS
<1>2. QED BY <1>1 DEF SameUpTo

LEMMA SameAt ==
  ASSUME NEW p, NEW q, NEW n \in Int, NEW i \in 1 .. n, SameUpTo(p, q, n)
  PROVE  p[i] = q[i]
BY DEF SameUpTo

\* The order is transitive.
THEOREM LessIsTransitive ==
  ASSUME NEW p \in Path, NEW q \in Path, NEW r \in Path, Less(p, q), Less(q, r)
  PROVE  Less(p, r)
<1>n. Len(p) \in Nat /\ Len(q) \in Nat /\ Len(r) \in Nat
  BY BytesOf
<1>1. ASSUME NEW i \in 1 .. Len(p), i <= Len(q), SameUpTo(p, q, i - 1), p[i] # q[i],
             Rank(p[i]) < Rank(q[i])
      PROVE  Less(p, r)
  <2>n. i \in Nat /\ i <= Len(p) /\ i - 1 \in Int
    BY <1>n, <1>1
  <2>1. ASSUME NEW k \in 1 .. Len(q), k <= Len(r), SameUpTo(q, r, k - 1), q[k] # r[k],
               Rank(q[k]) < Rank(r[k])
        PROVE  Less(p, r)
    <3>n. k \in Nat /\ k <= Len(q) /\ k - 1 \in Int
      BY <1>n, <2>1
    <3>1. CASE i < k
      <4>1. i <= Len(r) /\ i \in 1 .. k - 1 /\ i - 1 <= k - 1
        BY <1>n, <1>1, <2>n, <2>1, <3>n, <3>1
      <4>2. SameUpTo(p, r, i - 1)
        BY <1>1, <2>1, <2>n, <3>n, <4>1, SameTogether
      <4>3. r[i] = q[i]
        BY <2>1, <3>n, <4>1, SameAt
      <4>4. QED BY <1>1, <4>1, <4>2, <4>3 DEF Less
    <3>2. CASE k < i
      <4>1. k \in 1 .. Len(p) /\ k \in 1 .. i - 1 /\ k - 1 <= i - 1
        BY <1>n, <1>1, <2>n, <2>1, <3>n, <3>2
      <4>2. SameUpTo(p, r, k - 1)
        BY <1>1, <2>1, <2>n, <3>n, <4>1, SameTogether
      <4>3. p[k] = q[k]
        BY <1>1, <2>n, <4>1, SameAt
      <4>4. QED BY <2>1, <4>1, <4>2, <4>3 DEF Less
    <3>3. CASE i = k
      <4>1. i \in 1 .. Len(p) /\ i \in 1 .. Len(q) /\ i \in 1 .. Len(r)
        BY <1>1, <2>1, <2>n, <3>3
      <4>2. p[i] \in Nat /\ q[i] \in Nat /\ r[i] \in Nat
        BY <4>1, BytesOf
      <4>3. Rank(p[i]) < Rank(q[i]) /\ Rank(q[i]) < Rank(r[i])
        BY <1>1, <2>1, <3>3
      <4>4. SameUpTo(p, r, i - 1)
        BY <1>1, <2>1, <2>n, <3>3, SameTogether
      <4>5. Rank(p[i]) < Rank(r[i]) /\ p[i] # r[i]
        BY <4>2, <4>3, RankOrder
      <4>6. i <= Len(r)
        BY <2>1, <3>3
      <4>7. QED BY <4>1, <4>4, <4>5, <4>6 DEF Less
    <3>4. QED BY <2>n, <3>n, <3>1, <3>2, <3>3
  <2>2. ASSUME Len(q) < Len(r), SameUpTo(q, r, Len(q)) PROVE Less(p, r)
    <3>1. i <= Len(r) /\ i \in 1 .. Len(q) /\ i - 1 <= Len(q)
      BY <1>n, <1>1, <2>n, <2>2
    <3>2. SameUpTo(p, r, i - 1)
      BY <1>n, <1>1, <2>2, <2>n, <3>1, SameTogether
    <3>3. r[i] = q[i]
      BY <1>n, <2>2, <3>1, SameAt
    <3>4. QED BY <1>1, <3>1, <3>2, <3>3 DEF Less
  <2>3. QED BY <2>1, <2>2 DEF Less
<1>2. ASSUME Len(p) < Len(q), SameUpTo(p, q, Len(p)) PROVE Less(p, r)
  <2>1. ASSUME NEW k \in 1 .. Len(q), k <= Len(r), SameUpTo(q, r, k - 1), q[k] # r[k],
               Rank(q[k]) < Rank(r[k])
        PROVE  Less(p, r)
    <3>n. k \in Nat /\ k - 1 \in Int
      BY <1>n, <2>1
    <3>1. CASE k <= Len(p)
      <4>1. k \in 1 .. Len(p) /\ k - 1 <= Len(p)
        BY <1>n, <2>1, <3>n, <3>1
      <4>2. SameUpTo(p, r, k - 1)
        BY <1>n, <1>2, <2>1, <3>n, <4>1, SameTogether
      <4>3. p[k] = q[k]
        BY <1>n, <1>2, <4>1, SameAt
      <4>4. QED BY <2>1, <4>1, <4>2, <4>3 DEF Less
    <3>2. CASE Len(p) < k
      <4>1. Len(p) < Len(r) /\ Len(p) <= k - 1
        BY <1>n, <2>1, <3>n, <3>2
      <4>2. SameUpTo(p, r, Len(p))
        BY <1>n, <1>2, <2>1, <3>n, <4>1, SameTogether
      <4>3. QED BY <4>1, <4>2 DEF Less
    <3>3. QED BY <1>n, <3>n, <3>1, <3>2
  <2>2. ASSUME Len(q) < Len(r), SameUpTo(q, r, Len(q)) PROVE Less(p, r)
    <3>1. Len(p) < Len(r) /\ Len(p) <= Len(q)
      BY <1>n, <1>2, <2>2
    <3>2. SameUpTo(p, r, Len(p))
      BY <1>n, <1>2, <2>2, <3>1, SameTogether
    <3>3. QED BY <3>1, <3>2 DEF Less
  <2>3. QED BY <2>1, <2>2 DEF Less
<1>3. QED BY <1>1, <1>2 DEF Less

\* What is below what is below a directory is below it (is_parent_of).
LEMMA BelowBelow ==
  ASSUME NEW p \in Path, NEW q \in Path, NEW r \in Path, IsParentOf(p, q), IsParentOf(q, r)
  PROVE  IsParentOf(p, r)
<1>n. Len(p) \in Nat /\ Len(q) \in Nat /\ Len(r) \in Nat
  BY BytesOf
<1>1. /\ Len(p) < Len(r) /\ Len(p) + 1 \in 1 .. Len(q)
      /\ \A i \in 1 .. Len(p) : i \in 1 .. Len(q) /\ p[i] = q[i]
  BY <1>n DEF IsParentOf, SameUpTo
<1>2. \A i \in 1 .. Len(q) : q[i] = r[i]
  BY DEF IsParentOf, SameUpTo
<1>3. q[Len(p) + 1] = Sep
  BY DEF IsParentOf
<1>4. QED BY <1>1, <1>2, <1>3 DEF IsParentOf, SameUpTo

\* A directory comes before all that is below it.
LEMMA ParentIsLess ==
  ASSUME NEW p \in Path, NEW q \in Path, IsParentOf(p, q)
  PROVE  Less(p, q)
BY DEF IsParentOf, Less

\* Between a directory and what is below it there is only what is below it: the
\* separator must be the smallest byte for that, else "/a!" would be between "/a"
\* and "/a/b" (Ord for CannonicalPath, path.rs).
THEOREM NoGap ==
  ASSUME NEW p \in Path, NEW q \in Path, NEW r \in Path,
         IsParentOf(p, r), Less(p, q), Less(q, r)
  PROVE  IsParentOf(p, q)
<1>n. Len(p) \in Nat /\ Len(q) \in Nat /\ Len(r) \in Nat
  BY BytesOf
<1>1. Len(p) < Len(r) /\ SameUpTo(p, r, Len(p)) /\ r[Len(p) + 1] = Sep
  BY DEF IsParentOf
<1>2. Len(p) < Len(q) /\ SameUpTo(p, q, Len(p))
  <2>1. ASSUME NEW i \in 1 .. Len(p), i <= Len(q), SameUpTo(p, q, i - 1), p[i] # q[i],
               Rank(p[i]) < Rank(q[i])
        PROVE  FALSE
    <3>n. i \in Nat /\ i \in 1 .. Len(q) /\ i <= Len(r) /\ i - 1 \in Int /\ i - 1 <= Len(p)
      BY <1>n, <1>1, <2>1
    <3>0. SameUpTo(q, p, i - 1)
      BY <2>1 DEF SameUpTo
    <3>1. /\ i \in 1 .. Len(q) /\ i <= Len(r) /\ r[i] = p[i]
          /\ SameUpTo(q, r, i - 1)
      BY <1>n, <1>1, <2>1, <3>n, <3>0, SameAt, SameTogether
    <3>2. Rank(q[i]) < Rank(r[i])
      BY <2>1, <3>1, LessAt
    <3>3. p[i] \in Nat /\ q[i] \in Nat
      BY <2>1, <3>1, BytesOf
    <3>4. QED BY <1>1, <2>1, <3>1, <3>2, <3>3 DEF Rank, Sep
  <2>2. QED BY <2>1 DEF Less
<1>3. q[Len(p) + 1] = Sep
  <2>1. ASSUME q[Len(p) + 1] # Sep PROVE FALSE
    <3>1. /\ Len(p) + 1 \in 1 .. Len(q) /\ Len(p) + 1 <= Len(r) /\ q[Len(p) + 1] # r[Len(p) + 1]
          /\ SameUpTo(q, r, (Len(p) + 1) - 1) /\ q[Len(p) + 1] \in Nat
      <4>1. Len(p) + 1 \in 1 .. Len(q) /\ Len(p) + 1 <= Len(r) /\ (Len(p) + 1) - 1 = Len(p)
        BY <1>n, <1>1, <1>2
      <4>2. SameUpTo(q, r, Len(p))
        BY <1>1, <1>2 DEF SameUpTo
      <4>3. QED BY <1>1, <2>1, <4>1, <4>2 DEF Path
    <3>2. Rank(q[Len(p) + 1]) < Rank(r[Len(p) + 1])
      BY <3>1, LessAt
    <3>3. Sep \in Nat
      BY DEF Sep
    <3>4. QED BY <1>1, <3>1, <3>2, <3>3, RankOrder
  <2>2. QED BY <2>1
<1>4. QED BY <1>2, <1>3 DEF IsParentOf

\* Of two directories above the same path one is above the other.
LEMMA AboveNest ==
  ASSUME NEW p \in Path, NEW q \in Path, NEW r \in Path, IsParentOf(p, r), IsParentOf(q, r)
  PROVE  p = q \/ IsParentOf(p, q) \/ IsParentOf(q, p)
<1> USE DEF Path
<1>1. CASE Less(p, q)
  BY <1>1, NoGap, ParentIsLess
<1>2. CASE Less(q, p)
  BY <1>2, NoGap, ParentIsLess
<1>3. QED BY <1>1, <1>2, LessIsTotal
==============================================================================
