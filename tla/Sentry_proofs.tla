----------------------------- MODULE Sentry_proofs ----------------------------
(***************************************************************************)
(* Proofs about Sentry, for any paths, disks, queue lengths and filters:   *)
(* TypeCorrect and IgnoredIsLeftAlone for all that other programs do,      *)
(* GrowingStaysInSync and GrowingStaysCovered while things only appear or  *)
(* are written.                                                            *)
(*                                                                         *)
(* A crawl and a transaction are folds over paths. Such a fold is had by   *)
(* dealing with the latest path of those left: the lemmas ...Fold say what *)
(* the empty set and one more path give (LatestExists, OneByOne), ...Stays *)
(* that whatever each step keeps the fold keeps. The disk after a move is  *)
(* MovedOnce and AboveMoved: every path has at most one source.            *)
(*                                                                         *)
(* TypeInv is TypeOK with what it rests on. GrowBase is why nothing is     *)
(* missed: what is visible but not in the tree as it is on the disk is     *)
(* told by an event that can be placed, or pending, or there will be a     *)
(* recrawl. A reconciliation settles what was pending (Grown, Settled). It *)
(* touches only what it asked the filter about (Touches, Clean).           *)
(***************************************************************************)
EXTENDS Sentry, TLAPS, SequenceTheorems, FiniteSetTheorems, WellFoundedInduction

------------------------------------------------------------------------------
(* Paths *)

\* Stands for induction: whatever holds at some number holds at a first one.
LEMMA FirstNumber ==
  ASSUME NEW T \in SUBSET Nat, T # {}
  PROVE  \E n \in T : \A m \in T : n <= m
<1> DEFINE R == OpToRel(<, Nat)
<1>1. IsWellFoundedOn(R, Nat)
  BY NatLessThanWellFounded
<1> HIDE DEF R
<1>2. PICK x \in T : \A y \in T : ~(<<y, x>> \in R)
  BY <1>1, WFMin, Zenon
<1>3. \A y \in T : y \in Nat /\ x \in Nat /\ ~(y < x)
  BY <1>2 DEF R, OpToRel
<1>4. QED BY <1>3

LEMMA PathTypes ==
  \A p \in Path : /\ p \in Seq(Nat) /\ Len(p) \in Nat /\ DOMAIN p = 1 .. Len(p)
                  /\ \A i \in 1 .. Len(p) : p[i] \in Nat
BY PathAssumption, ElementOfSeq, LenProperties

LEMMA UnderMeans ==
  \A p, q \in Path : q \in Under(p) <=> Len(p) < Len(q) /\ \A i \in 1 .. Len(p) : p[i] = q[i]
<1> TAKE p, q \in Path
<1>1. p \in Seq(Nat) /\ q \in Seq(Nat) /\ Len(p) \in Nat /\ Len(q) \in Nat
  BY PathTypes
<1>2. CASE Len(p) <= Len(q)
  <2> DEFINE s == SubSeq(p, 1, Len(p))
             t == SubSeq(q, 1, Len(p))
  <2>1. /\ s \in Seq(Nat) /\ Len(s) = Len(p) /\ \A i \in 1 .. Len(p) : s[i] = p[i]
        /\ t \in Seq(Nat) /\ Len(t) = Len(p) /\ \A i \in 1 .. Len(p) : t[i] = q[i]
    BY <1>1, <1>2
  <2> HIDE DEF s, t
  <2>2. s = t <=> \A i \in 1 .. Len(p) : p[i] = q[i]
    BY <1>1, <2>1, SeqEqual
  <2>3. (\A i \in 1 .. Len(p) : p[i] = q[i]) /\ p # q => Len(p) < Len(q)
    BY <1>1, <1>2, SeqEqual
  <2>4. QED BY <1>1, <1>2, <2>2, <2>3 DEF Under, IsStrictPrefix, IsPrefix, s, t
<1>3. CASE ~(Len(p) <= Len(q))
  BY <1>1, <1>3 DEF Under, IsStrictPrefix, IsPrefix
<1>4. QED BY <1>2, <1>3

LEMMA ParentMeans ==
  \A p \in Path \ {Root} :
    /\ Len(p) > 0 /\ Parent(p) \in Path /\ Len(Parent(p)) = Len(p) - 1
    /\ \A i \in 1 .. Len(p) - 1 : Parent(p)[i] = p[i]
    /\ p \in Under(Parent(p)) /\ Parent(p) \o <<p[Len(p)]>> = p
<1> TAKE p \in Path \ {Root}
<1>1. p \in Seq(Nat) /\ Len(p) \in Nat
  BY PathTypes
<1>2. Len(p) > 0
  BY <1>1, EmptySeq DEF Root
<1>3. Parent(p) \in Path
  BY PathAssumption
<1>4. /\ Len(Parent(p)) = Len(p) - 1 /\ Parent(p) \in Seq(Nat)
      /\ \A i \in 1 .. Len(p) - 1 : Parent(p)[i] = p[i]
  <2> DEFINE n == Len(p) - 1
             s == SubSeq(p, 1, n)
  <2>1. n \in 0 .. Len(p) /\ \A i \in 1 .. n : i \in 1 .. Len(p)
    BY <1>1, <1>2
  <2> HIDE DEF n
  <2>2. s \in Seq(Nat) /\ Len(s) = n /\ \A i \in 1 .. n : s[i] = p[i]
    BY <1>1, <2>1
  <2>3. QED BY <2>2 DEF Parent, Front, n
<1>5. p \in Under(Parent(p))
  <2>1. Len(Parent(p)) < Len(p) /\ 1 .. Len(Parent(p)) = 1 .. Len(p) - 1
    BY <1>1, <1>4
  <2>2. QED BY <1>3, <1>4, <2>1, UnderMeans
<1>6. Parent(p) \o <<p[Len(p)]>> = p
  <2> DEFINE s == Parent(p) \o <<p[Len(p)]>>
  <2>1. <<p[Len(p)]>> \in Seq(Nat) /\ Len(<<p[Len(p)]>>) = 1
    BY <1>1, <1>2
  <2>2. s \in Seq(Nat) /\ Len(s) = Len(p)
    BY <1>1, <1>4, <2>1
  <2>3. ASSUME NEW i \in 1 .. Len(p) PROVE s[i] = p[i]
    <3>1. CASE i = Len(p)
      BY <1>1, <1>2, <1>4, <2>1, <3>1
    <3>2. CASE i # Len(p)
      <4>1. i \in 1 .. Len(Parent(p)) /\ i \in 1 .. Len(p) - 1
        BY <1>1, <1>4, <3>2
      <4>2. s[i] = Parent(p)[i]
        BY <1>4, <2>1, <4>1
      <4>3. QED BY <1>4, <4>1, <4>2
    <3>3. QED BY <3>1, <3>2
  <2> HIDE DEF s
  <2>4. s = p
    BY <1>1, <2>2, <2>3, SeqEqual
  <2>5. QED BY <2>4 DEF s
<1>7. QED BY <1>2, <1>3, <1>4, <1>5, <1>6

LEMMA UnderParent ==
  \A p, q \in Path : p \in Under(q) <=> p # Root /\ (Parent(p) = q \/ Parent(p) \in Under(q))
<1> TAKE p, q \in Path
<1>1. Len(p) \in Nat /\ Len(q) \in Nat /\ q \in Seq(Nat) /\ p \in Seq(Nat)
  BY PathTypes
<1>2. CASE p = Root
  <2>1. Len(p) = 0
    BY <1>2 DEF Root
  <2>2. QED BY <1>1, <1>2, <2>1, UnderMeans
<1>3. CASE p # Root
  <2> DEFINE r == Parent(p)
  <2>1. /\ r \in Path /\ Len(r) = Len(p) - 1 /\ \A i \in 1 .. Len(p) - 1 : r[i] = p[i]
        /\ r \in Seq(Nat)
    BY <1>3, ParentMeans, PathTypes
  <2> HIDE DEF r
  <2>2. ASSUME p \in Under(q) PROVE r = q \/ r \in Under(q)
    <3>1. Len(q) < Len(p) /\ \A i \in 1 .. Len(q) : q[i] = p[i]
      BY <2>2, UnderMeans
    <3>2. \A i \in 1 .. Len(q) : i \in 1 .. Len(p) - 1
      BY <1>1, <3>1
    <3>3. \A i \in 1 .. Len(q) : q[i] = r[i]
      BY <2>1, <3>1, <3>2
    <3>4. CASE Len(q) = Len(r)
      BY <1>1, <2>1, <3>3, <3>4, SeqEqual
    <3>5. CASE Len(q) # Len(r)
      <4>1. Len(q) < Len(r)
        BY <1>1, <2>1, <3>1, <3>5
      <4>2. QED BY <2>1, <3>3, <4>1, UnderMeans
    <3>6. QED BY <3>4, <3>5
  <2>3. ASSUME r \in Under(q) PROVE p \in Under(q)
    <3>1. Len(q) < Len(r) /\ \A i \in 1 .. Len(q) : q[i] = r[i]
      BY <2>1, <2>3, UnderMeans
    <3>2. Len(q) < Len(p) /\ \A i \in 1 .. Len(q) : i \in 1 .. Len(p) - 1
      BY <1>1, <2>1, <3>1
    <3>3. \A i \in 1 .. Len(q) : q[i] = p[i]
      BY <2>1, <3>1, <3>2
    <3>4. QED BY <3>2, <3>3, UnderMeans
  <2>4. r = q => p \in Under(q)
    BY <1>3, ParentMeans DEF r
  <2>5. QED BY <1>3, <2>2, <2>3, <2>4 DEF r
<1>4. QED BY <1>2, <1>3

LEMMA UnderTransitive ==
  \A p, q, r \in Path : p \in Under(q) /\ q \in Under(r) => p \in Under(r)
<1> TAKE p, q, r \in Path
<1> HAVE p \in Under(q) /\ q \in Under(r)
<1>1. Len(p) \in Nat /\ Len(q) \in Nat /\ Len(r) \in Nat
  BY PathTypes
<1>2. /\ Len(q) < Len(p) /\ \A i \in 1 .. Len(q) : q[i] = p[i]
      /\ Len(r) < Len(q) /\ \A i \in 1 .. Len(r) : r[i] = q[i]
  BY UnderMeans
<1>3. \A i \in 1 .. Len(r) : i \in 1 .. Len(q)
  BY <1>1, <1>2
<1>4. Len(r) < Len(p)
  BY <1>1, <1>2
<1>5. QED BY <1>2, <1>3, <1>4, UnderMeans

LEMMA NotUnderItself == \A p \in Path : p \notin Under(p)
BY PathTypes, UnderMeans

\* Below q one comes by a child of q.
LEMMA ByAChild ==
  ASSUME NEW p \in Path, NEW q \in Path, p \in Under(q)
  PROVE  \E r \in Path \ {Root} : Parent(r) = q /\ (r = p \/ p \in Under(r))
<1> DEFINE On(r) == r \in Under(q) /\ (r = p \/ p \in Under(r))
           T == {Len(r) : r \in {r \in Path : On(r)}}
<1>1. T \in SUBSET Nat /\ Len(p) \in T
  BY PathTypes
<1>2. PICK n \in T : \A m \in T : n <= m
  BY <1>1, FirstNumber
<1>3. PICK r \in Path : On(r) /\ \A s \in Path : On(s) => Len(r) <= Len(s)
  BY <1>2
<1>4. r # Root /\ (Parent(r) = q \/ Parent(r) \in Under(q))
  BY <1>3, UnderParent
<1>5. ASSUME Parent(r) \in Under(q) PROVE FALSE
  <2>1. Parent(r) \in Path /\ r \in Under(Parent(r)) /\ Len(Parent(r)) = Len(r) - 1
    BY <1>4, ParentMeans
  <2>2. p \in Under(Parent(r))
    BY <1>3, <2>1, UnderTransitive
  <2>3. Len(r) <= Len(Parent(r)) /\ Len(r) \in Nat
    BY <1>3, <1>5, <2>1, <2>2, PathTypes
  <2>4. QED BY <2>1, <2>3
<1>6. QED BY <1>3, <1>4, <1>5

------------------------------------------------------------------------------
(* The order of paths, and folds in that order *)

LEMMA BeforeMeans ==
  \A p, q \in Path : Before(p, q) <=>
    \/ q \in Under(p)
    \/ \E i \in 1 .. Len(p) : /\ i \in 1 .. Len(q) /\ p[i] < q[i]
                              /\ \A j \in 1 .. Len(p) : j < i => p[j] = q[j]
<1> TAKE p, q \in Path
<1>1. /\ DOMAIN p = 1 .. Len(p) /\ DOMAIN q = 1 .. Len(q) /\ Len(p) \in Nat /\ Len(q) \in Nat
  BY PathTypes
<1>2. \A i \in 1 .. Len(p) : (\A j \in 1 .. i - 1 : p[j] = q[j]) <=> \A j \in 1 .. Len(p) : j < i => p[j] = q[j]
  BY <1>1
<1>3. QED BY <1>1, <1>2 DEF Before, Under

LEMMA BeforeTotal == \A p, q \in Path : p = q \/ Before(p, q) \/ Before(q, p)
<1> TAKE p, q \in Path
<1> DEFINE T == {i \in 1 .. Len(p) : i \in 1 .. Len(q) /\ p[i] # q[i]}
<1>1. /\ Len(p) \in Nat /\ Len(q) \in Nat /\ p \in Seq(Nat) /\ q \in Seq(Nat)
      /\ \A i \in 1 .. Len(p) : p[i] \in Nat
      /\ \A i \in 1 .. Len(q) : q[i] \in Nat
  BY PathTypes
<1>2. CASE T = {}
  <2>1. \A i \in 1 .. Len(p) : i \in 1 .. Len(q) => p[i] = q[i]
    BY <1>2
  <2>2. CASE Len(p) < Len(q)
    <3>1. \A i \in 1 .. Len(p) : i \in 1 .. Len(q)
      BY <1>1, <2>2
    <3>2. q \in Under(p)
      BY <2>1, <2>2, <3>1, UnderMeans
    <3>3. QED BY <3>2, BeforeMeans
  <2>3. CASE Len(q) < Len(p)
    <3>1. \A i \in 1 .. Len(q) : i \in 1 .. Len(p)
      BY <1>1, <2>3
    <3>2. p \in Under(q)
      BY <2>1, <2>3, <3>1, UnderMeans
    <3>3. QED BY <3>2, BeforeMeans
  <2>4. CASE Len(p) = Len(q)
    BY <1>1, <2>1, <2>4, SeqEqual
  <2>5. QED BY <1>1, <2>2, <2>3, <2>4
<1>3. CASE T # {}
  <2>1. T \in SUBSET Nat
    OBVIOUS
  <2>2. PICK i \in T : \A j \in T : i <= j
    BY <1>3, <2>1, FirstNumber
  <2>3. i \in 1 .. Len(p) /\ i \in 1 .. Len(q) /\ p[i] # q[i]
    OBVIOUS
  <2>4. \A j \in 1 .. Len(p) : j < i => p[j] = q[j] /\ j \in 1 .. Len(q)
    BY <1>1, <2>2, <2>3
  <2>5. ASSUME NEW j \in 1 .. Len(q), j < i PROVE q[j] = p[j]
    <3>1. j \in 1 .. Len(p)
      BY <1>1, <2>3, <2>5
    <3>2. QED BY <2>4, <2>5, <3>1
  <2>6. p[i] < q[i] \/ q[i] < p[i]
    BY <1>1, <2>3
  <2>7. QED BY <2>3, <2>4, <2>5, <2>6, BeforeMeans
<1>4. QED BY <1>2, <1>3

LEMMA BeforeTransitive == \A p, q, r \in Path : Before(p, q) /\ Before(q, r) => Before(p, r)
<1> TAKE p, q, r \in Path
<1> HAVE Before(p, q) /\ Before(q, r)
<1> DEFINE At(a, b, i) == /\ i \in 1 .. Len(a) /\ i \in 1 .. Len(b) /\ a[i] < b[i]
                          /\ \A j \in 1 .. Len(a) : j < i => a[j] = b[j]
<1>1. /\ Len(p) \in Nat /\ Len(q) \in Nat /\ Len(r) \in Nat
      /\ \A i \in 1 .. Len(p) : p[i] \in Nat
      /\ \A i \in 1 .. Len(q) : q[i] \in Nat
      /\ \A i \in 1 .. Len(r) : r[i] \in Nat
  BY PathTypes
<1>2. \A i : At(p, r, i) => Before(p, r)
  BY BeforeMeans
<1>3. (q \in Under(p) \/ \E i : At(p, q, i)) /\ (r \in Under(q) \/ \E i : At(q, r, i))
  BY BeforeMeans
<1>4. CASE q \in Under(p) /\ r \in Under(q)
  BY <1>4, UnderTransitive, BeforeMeans
<1>5. ASSUME q \in Under(p), NEW i, At(q, r, i) PROVE Before(p, r)
  <2>1. Len(p) < Len(q) /\ \A j \in 1 .. Len(p) : p[j] = q[j] /\ j \in 1 .. Len(q)
    BY <1>1, <1>5, UnderMeans
  <2>2. CASE i \in 1 .. Len(p)
    <3>1. At(p, r, i)
      BY <1>5, <2>1, <2>2
    <3>2. QED BY <1>2, <3>1
  <2>3. CASE i \notin 1 .. Len(p)
    <3>1. Len(p) < i /\ i <= Len(r)
      BY <1>1, <1>5, <2>3
    <3>2. \A j \in 1 .. Len(p) : j < i /\ p[j] = r[j]
      BY <1>1, <1>5, <2>1, <3>1
    <3>3. r \in Under(p)
      BY <1>1, <1>5, <3>1, <3>2, UnderMeans
    <3>4. QED BY <3>3, BeforeMeans
  <2>4. QED BY <2>2, <2>3
<1>6. ASSUME NEW i, At(p, q, i), r \in Under(q) PROVE Before(p, r)
  <2>1. \A j \in 1 .. Len(q) : q[j] = r[j] /\ j \in 1 .. Len(r)
    BY <1>1, <1>6, UnderMeans
  <2>2. \A j \in 1 .. Len(p) : j < i => p[j] = r[j]
    <3>1. \A j \in 1 .. Len(p) : j < i => j \in 1 .. Len(q)
      BY <1>1, <1>6
    <3>2. QED BY <1>6, <2>1, <3>1
  <2>3. At(p, r, i)
    BY <1>6, <2>1, <2>2
  <2>4. QED BY <1>2, <2>3
<1>7. ASSUME NEW i, At(p, q, i), NEW j, At(q, r, j) PROVE Before(p, r)
  <2>1. CASE i <= j
    <3>1. i \in 1 .. Len(r) /\ p[i] < r[i]
      <4>1. i \in 1 .. Len(r)
        BY <1>1, <1>7, <2>1
      <4>2. i = j \/ (i < j /\ q[i] = r[i])
        BY <1>1, <1>7, <2>1
      <4>3. p[i] \in Nat /\ q[i] \in Nat /\ r[i] \in Nat
        BY <1>1, <1>7, <4>1
      <4>4. QED BY <1>7, <4>1, <4>2, <4>3
    <3>2. \A k \in 1 .. Len(p) : k < i => p[k] = r[k]
      BY <1>1, <1>7, <2>1
    <3>3. At(p, r, i)
      BY <1>7, <3>1, <3>2
    <3>4. QED BY <1>2, <3>3
  <2>2. CASE j < i
    <3>1. j \in 1 .. Len(p) /\ p[j] = q[j]
      BY <1>1, <1>7, <2>2
    <3>2. \A k \in 1 .. Len(p) : k < j => p[k] = r[k]
      BY <1>1, <1>7, <2>2
    <3>3. At(p, r, j)
      BY <1>7, <3>1, <3>2
    <3>4. QED BY <1>2, <3>3
  <2>3. i \in Int /\ j \in Int
    BY <1>7
  <2>4. QED BY <2>1, <2>2, <2>3
<1>8. QED BY <1>3, <1>4, <1>5, <1>6, <1>7

LEMMA NotBeforeItself == \A p \in Path : ~Before(p, p)
<1> TAKE p \in Path
<1>1. \A i \in 1 .. Len(p) : ~(p[i] < p[i])
  BY PathTypes
<1>2. QED BY <1>1, NotUnderItself, BeforeMeans

IsLatest(p, R) == p \in R /\ \A q \in R \ {p} : Before(q, p)

Latest(R) == CHOOSE p \in R : \A q \in R \ {p} : Before(q, p)

LEMMA LatestExists == \A R \in SUBSET Path : R # {} => IsLatest(Latest(R), R)
<1> DEFINE Bad == {R \in SUBSET Path : R # {} /\ \A p \in R : ~IsLatest(p, R)}
           T == {Cardinality(R) : R \in Bad}
<1>1. \A R \in SUBSET Path : IsFiniteSet(R) /\ Cardinality(R) \in Nat
  BY PathAssumption, FS_Subset, FS_CardinalityType
<1>2. Bad = {}
  <2> SUFFICES ASSUME Bad # {} PROVE FALSE
    OBVIOUS
  <2>1. T \in SUBSET Nat /\ T # {}
    BY <1>1
  <2>2. PICK n \in T : \A m \in T : n <= m
    BY <2>1, FirstNumber
  <2>3. PICK R \in Bad : \A S \in Bad : Cardinality(R) <= Cardinality(S)
    BY <2>2
  <2>4. PICK p \in R : TRUE
    BY <2>3
  <2> DEFINE S == R \ {p}
  <2>5. S \notin Bad
    <3>1. Cardinality(S) = Cardinality(R) - 1
      BY <1>1, <2>3, FS_RemoveElement
    <3>2. Cardinality(S) \in Nat /\ Cardinality(R) \in Nat
      BY <1>1, <2>3
    <3>3. QED BY <2>3, <3>1, <3>2
  <2>6. CASE S = {}
    <3>1. R = {p}
      BY <2>6
    <3>2. IsLatest(p, R)
      BY <3>1 DEF IsLatest
    <3>3. QED BY <2>3, <3>2
  <2>7. CASE S # {}
    <3>1. PICK q \in S : IsLatest(q, S)
      BY <2>3, <2>5, <2>7
    <3>2. p \in Path /\ q \in Path /\ p # q /\ R \subseteq Path /\ q \in R
      BY <2>3, <3>1
    <3>3. CASE Before(p, q)
      <4>1. IsLatest(q, R)
        BY <3>1, <3>2, <3>3 DEF IsLatest
      <4>2. QED BY <2>3, <3>2, <4>1
    <3>4. CASE Before(q, p)
      <4>1. \A r \in R \ {p} : Before(r, p)
        <5> TAKE r \in R \ {p}
        <5>1. r = q \/ Before(r, q)
          BY <3>1 DEF IsLatest
        <5>2. QED BY <3>2, <3>4, <5>1, BeforeTransitive
      <4>2. QED BY <2>3, <2>4, <4>1 DEF IsLatest
    <3>5. QED BY <3>2, <3>3, <3>4, BeforeTotal
  <2>8. QED BY <2>6, <2>7
<1>3. QED
  <2> TAKE R \in SUBSET Path
  <2> HAVE R # {}
  <2>1. \E p \in R : \A q \in R \ {p} : Before(q, p)
    BY <1>2 DEF IsLatest
  <2>2. QED BY <2>1 DEF Latest, IsLatest

\* Stands for induction over a set: what holds of no path and, if it holds without
\* the latest one, of more, holds of all of ps.
LEMMA OneByOne ==
  ASSUME NEW ps \in SUBSET Path, NEW T \in SUBSET (SUBSET ps), {} \in T,
         \A R \in SUBSET ps : R # {} /\ R \ {Latest(R)} \in T => R \in T
  PROVE  ps \in T
<1> DEFINE Bad == (SUBSET ps) \ T
           N == {Cardinality(R) : R \in Bad}
<1>1. \A R \in SUBSET ps : R \in SUBSET Path /\ IsFiniteSet(R) /\ Cardinality(R) \in Nat
  BY PathAssumption, FS_Subset, FS_CardinalityType
<1>2. SUFFICES ASSUME Bad # {} PROVE FALSE
  OBVIOUS
<1>3. N \in SUBSET Nat /\ N # {}
  BY <1>1, <1>2
<1>4. PICK n \in N : \A m \in N : n <= m
  BY <1>3, FirstNumber
<1>5. PICK R \in Bad : \A S \in Bad : Cardinality(R) <= Cardinality(S)
  BY <1>4
<1>6. R # {} /\ R \in SUBSET ps
  BY <1>5
<1>7. Latest(R) \in R
  BY <1>1, <1>6, LatestExists DEF IsLatest
<1>8. R \ {Latest(R)} \in Bad
  BY <1>5, <1>6
<1>9. Cardinality(R \ {Latest(R)}) = Cardinality(R) - 1
  BY <1>1, <1>6, <1>7, FS_RemoveElement
<1>10. QED BY <1>1, <1>5, <1>6, <1>8, <1>9

\* g folds F over ps, from b on.
Folding(g, F, b, ps) ==
  g = [R \in SUBSET ps |-> IF R = {} THEN b ELSE F[<<Latest(R), g[R \ {Latest(R)}]>>]]

LEMMA FoldExists ==
  ASSUME NEW ps \in SUBSET Path, NEW X, NEW b \in X, NEW F \in [ps \X X -> X]
  PROVE  \E g \in [SUBSET ps -> X] : Folding(g, F, b, ps)
<1> DEFINE Rest(R) == R \ {Latest(R)}
           Next1(g) == [R \in SUBSET ps |-> IF R = {} THEN b ELSE F[<<Latest(R), g[Rest(R)]>>]]
           Good(g, n) == \A R \in SUBSET ps : Cardinality(R) <= n => g[R] = Next1(g)[R]
           T == {n \in Nat : \A g \in [SUBSET ps -> X] : ~Good(g, n)}
<1>1. \A R \in SUBSET ps : R \in SUBSET Path /\ IsFiniteSet(R) /\ Cardinality(R) \in Nat
  BY PathAssumption, FS_Subset, FS_CardinalityType
<1>2. \A R \in SUBSET ps : R # {} => /\ Latest(R) \in ps /\ Rest(R) \in SUBSET ps
                                     /\ Cardinality(Rest(R)) = Cardinality(R) - 1
  <2> TAKE R \in SUBSET ps
  <2> HAVE R # {}
  <2>1. Latest(R) \in R
    BY <1>1, LatestExists DEF IsLatest
  <2>2. Cardinality(Rest(R)) = Cardinality(R) - 1
    BY <1>1, <2>1, FS_RemoveElement
  <2>3. QED BY <2>1, <2>2
<1> HIDE DEF Rest
<1>3. \A g \in [SUBSET ps -> X] : Next1(g) \in [SUBSET ps -> X]
  <2> TAKE g \in [SUBSET ps -> X]
  <2>1. \A R \in SUBSET ps : R # {} => F[<<Latest(R), g[Rest(R)]>>] \in X
    BY <1>2
  <2>2. QED BY <2>1
<1>4. 0 \notin T
  <2> DEFINE g == [R \in SUBSET ps |-> b]
  <2>1. g \in [SUBSET ps -> X]
    OBVIOUS
  <2>2. \A R \in SUBSET ps : Cardinality(R) <= 0 => R = {}
    BY <1>1, FS_EmptySet
  <2>3. Good(g, 0)
    BY <2>2
  <2>4. QED BY <2>1, <2>3
<1>5. ASSUME NEW n \in Nat, n \notin T PROVE n + 1 \notin T
  <2>1. PICK g \in [SUBSET ps -> X] : Good(g, n)
    BY <1>5
  <2> DEFINE h == Next1(g)
  <2>2. h \in [SUBSET ps -> X]
    BY <1>3
  <2>3. ASSUME NEW R \in SUBSET ps, Cardinality(R) <= n + 1 PROVE h[R] = Next1(h)[R]
    <3>1. CASE R = {}
      BY <3>1
    <3>2. CASE R # {}
      <4>1. Rest(R) \in SUBSET ps /\ Cardinality(Rest(R)) <= n
        BY <1>1, <1>2, <2>3, <3>2
      <4>2. g[Rest(R)] = h[Rest(R)]
        BY <2>1, <4>1
      <4>3. h[R] = F[<<Latest(R), g[Rest(R)]>>]
        BY <3>2
      <4> HIDE DEF h
      <4>4. Next1(h)[R] = F[<<Latest(R), h[Rest(R)]>>]
        BY <3>2
      <4>5. QED BY <4>2, <4>3, <4>4
    <3>3. QED BY <3>1, <3>2
  <2> HIDE DEF h
  <2>4. Good(h, n + 1)
    BY <2>3
  <2>5. QED BY <2>2, <2>4
<1>6. T = {}
  <2> HIDE DEF T
  <2> SUFFICES ASSUME T # {} PROVE FALSE
    OBVIOUS
  <2>1. T \in SUBSET Nat
    BY DEF T
  <2>2. PICK n \in T : \A m \in T : n <= m
    BY <2>1, FirstNumber
  <2>3. n \in Nat /\ n # 0
    BY <1>4, <2>1, <2>2
  <2>4. n - 1 \in Nat /\ n - 1 \notin T /\ (n - 1) + 1 = n
    BY <2>1, <2>2, <2>3
  <2>5. QED BY <1>5, <2>2, <2>4
<1>7. Cardinality(ps) \in Nat /\ \A R \in SUBSET ps : Cardinality(R) <= Cardinality(ps)
  BY <1>1, FS_Subset
<1>8. PICK g \in [SUBSET ps -> X] : Good(g, Cardinality(ps))
  <2>1. Cardinality(ps) \in Nat /\ Cardinality(ps) \notin T
    BY <1>6, <1>7
  <2> HIDE DEF Good
  <2>2. QED BY <2>1
<1>9. \A R \in SUBSET ps : g[R] = Next1(g)[R]
  BY <1>7, <1>8
<1>10. g = Next1(g)
  <2> HIDE DEF Good, T
  <2>1. Next1(g) \in [SUBSET ps -> X]
    BY <1>3
  <2> HIDE DEF Next1
  <2>2. QED BY <1>9, <2>1
<1>11. QED BY <1>10 DEF Rest, Folding
------------------------------------------------------------------------------
(* The folds of the model, with names. T is what is kept: a relation between *)
(* the paths that were dealt with and what came out.                         *)

Visited(fs, s, recursive, ps) == FoldPaths(LAMBDA q, acc : Visit(fs, q, acc, recursive), s, ps)

VisitedIn(fs, recursive, s, ps, X) ==
  ps \in SUBSET Path /\ s \in X /\ \A p \in ps, a \in X : Visit(fs, p, a, recursive) \in X

VisitedKeeps(fs, recursive, s, ps, X, T) ==
  /\ T \in SUBSET ((SUBSET ps) \X X) /\ <<{}, s>> \in T
  /\ \A R \in SUBSET ps, a \in X : R # {} /\ <<R \ {Latest(R)}, a>> \in T => <<R, Visit(fs, Latest(R), a, recursive)>> \in T

LEMMA VisitedFold ==
  ASSUME NEW fs, NEW recursive, NEW s, NEW ps, NEW X, NEW T, VisitedIn(fs, recursive, s, ps, X), VisitedKeeps(fs, recursive, s, ps, X, T)
  PROVE  <<ps, Visited(fs, s, recursive, ps)>> \in T
<1> DEFINE Folds(g) == g = [R \in SUBSET ps |->
                              IF R = {} THEN s ELSE Visit(fs, Latest(R), g[R \ {Latest(R)}], recursive)]
           iter == CHOOSE g : Folds(g)
           F == [x \in ps \X X |-> Visit(fs, x[1], x[2], recursive)]
<1> USE DEF VisitedIn
<1>1. Visited(fs, s, recursive, ps) = iter[ps]
  BY Zenon DEF Visited, FoldPaths, MapThenFoldSet, Latest
<1>2. F \in [ps \X X -> X]
  OBVIOUS
<1>3. \A R \in SUBSET ps, a \in X : R # {} => F[<<Latest(R), a>>] = Visit(fs, Latest(R), a, recursive)
  BY LatestExists DEF IsLatest
<1> HIDE DEF F
<1>4. PICK g \in [SUBSET ps -> X] : Folding(g, F, s, ps)
  BY <1>2, FoldExists
<1>5. Folds(g)
  BY <1>3, <1>4 DEF Folding
<1>6. iter = [R \in SUBSET ps |-> IF R = {} THEN s ELSE Visit(fs, Latest(R), iter[R \ {Latest(R)}], recursive)]
  BY <1>5, Zenon
<1> HIDE DEF Folds, iter
<1> DEFINE Done == {R \in SUBSET ps : <<R, iter[R]>> \in T}
<1>7. {} \in Done
  BY <1>6 DEF VisitedKeeps
<1>8. \A R \in SUBSET ps : R # {} /\ R \ {Latest(R)} \in Done => R \in Done
  <2> TAKE R \in SUBSET ps
  <2> HAVE R # {} /\ R \ {Latest(R)} \in Done
  <2>1. <<R \ {Latest(R)}, iter[R \ {Latest(R)}]>> \in T
    BY Zenon
  <2> HIDE DEF Done
  <2>2. iter[R \ {Latest(R)}] \in X
    BY <2>1 DEF VisitedKeeps
  <2>3. iter[R] = Visit(fs, Latest(R), iter[R \ {Latest(R)}], recursive)
    BY <1>6
  <2>4. <<R, iter[R]>> \in T
    BY <2>1, <2>2, <2>3 DEF VisitedKeeps
  <2>5. QED BY <2>4 DEF Done
<1> HIDE DEF Done
<1>9. Done \in SUBSET (SUBSET ps)
  BY DEF Done
<1>10. ps \in Done
  BY <1>7, <1>8, <1>9, OneByOne
<1>11. QED BY <1>1, <1>10 DEF Done

LEMMA VisitedStays ==
  ASSUME NEW fs, NEW recursive, NEW s, NEW ps, NEW X, VisitedIn(fs, recursive, s, ps, X)
  PROVE  Visited(fs, s, recursive, ps) \in X
<1> DEFINE T == (SUBSET ps) \X X
<1>1. VisitedKeeps(fs, recursive, s, ps, X, T)
  <2>1. \A R \in SUBSET ps : R # {} => Latest(R) \in ps
    BY LatestExists DEF IsLatest, VisitedIn
  <2>2. QED BY <2>1 DEF VisitedIn, VisitedKeeps
<1> HIDE DEF T
<1>2. <<ps, Visited(fs, s, recursive, ps)>> \in T
  BY <1>1, VisitedFold
<1>3. QED BY <1>2 DEF T

ReportGone(q, acc) == DeleteRec(Emit(acc, q, IF IsFile(acc.tree[q].meta) THEN "Delete" ELSE NoEvent), q)

Removed(s, ps) == FoldPaths(ReportGone, s, ps)

RemovedIn(s, ps, X) ==
  ps \in SUBSET Path /\ s \in X /\ \A p \in ps, a \in X : ReportGone(p, a) \in X

RemovedKeeps(s, ps, X, T) ==
  /\ T \in SUBSET ((SUBSET ps) \X X) /\ <<{}, s>> \in T
  /\ \A R \in SUBSET ps, a \in X : R # {} /\ <<R \ {Latest(R)}, a>> \in T => <<R, ReportGone(Latest(R), a)>> \in T

LEMMA RemovedFold ==
  ASSUME NEW s, NEW ps, NEW X, NEW T, RemovedIn(s, ps, X), RemovedKeeps(s, ps, X, T)
  PROVE  <<ps, Removed(s, ps)>> \in T
<1> DEFINE Folds(g) == g = [R \in SUBSET ps |->
                              IF R = {} THEN s ELSE ReportGone(Latest(R), g[R \ {Latest(R)}])]
           iter == CHOOSE g : Folds(g)
           F == [x \in ps \X X |-> ReportGone(x[1], x[2])]
<1> USE DEF RemovedIn
<1>1. Removed(s, ps) = iter[ps]
  BY Zenon DEF Removed, FoldPaths, MapThenFoldSet, Latest
<1>2. F \in [ps \X X -> X]
  OBVIOUS
<1>3. \A R \in SUBSET ps, a \in X : R # {} => F[<<Latest(R), a>>] = ReportGone(Latest(R), a)
  BY LatestExists DEF IsLatest
<1> HIDE DEF F
<1>4. PICK g \in [SUBSET ps -> X] : Folding(g, F, s, ps)
  BY <1>2, FoldExists
<1>5. Folds(g)
  BY <1>3, <1>4 DEF Folding
<1>6. iter = [R \in SUBSET ps |-> IF R = {} THEN s ELSE ReportGone(Latest(R), iter[R \ {Latest(R)}])]
  BY <1>5, Zenon
<1> HIDE DEF Folds, iter
<1> DEFINE Done == {R \in SUBSET ps : <<R, iter[R]>> \in T}
<1>7. {} \in Done
  BY <1>6 DEF RemovedKeeps
<1>8. \A R \in SUBSET ps : R # {} /\ R \ {Latest(R)} \in Done => R \in Done
  <2> TAKE R \in SUBSET ps
  <2> HAVE R # {} /\ R \ {Latest(R)} \in Done
  <2>1. <<R \ {Latest(R)}, iter[R \ {Latest(R)}]>> \in T
    BY Zenon
  <2> HIDE DEF Done
  <2>2. iter[R \ {Latest(R)}] \in X
    BY <2>1 DEF RemovedKeeps
  <2>3. iter[R] = ReportGone(Latest(R), iter[R \ {Latest(R)}])
    BY <1>6
  <2>4. <<R, iter[R]>> \in T
    BY <2>1, <2>2, <2>3 DEF RemovedKeeps
  <2>5. QED BY <2>4 DEF Done
<1> HIDE DEF Done
<1>9. Done \in SUBSET (SUBSET ps)
  BY DEF Done
<1>10. ps \in Done
  BY <1>7, <1>8, <1>9, OneByOne
<1>11. QED BY <1>1, <1>10 DEF Done

LEMMA RemovedStays ==
  ASSUME NEW s, NEW ps, NEW X, RemovedIn(s, ps, X)
  PROVE  Removed(s, ps) \in X
<1> DEFINE T == (SUBSET ps) \X X
<1>1. RemovedKeeps(s, ps, X, T)
  <2>1. \A R \in SUBSET ps : R # {} => Latest(R) \in ps
    BY LatestExists DEF IsLatest, RemovedIn
  <2>2. QED BY <2>1 DEF RemovedIn, RemovedKeeps
<1> HIDE DEF T
<1>2. <<ps, Removed(s, ps)>> \in T
  BY <1>1, RemovedFold
<1>3. QED BY <1>2 DEF T

Mark(t, q, acc) == [Emit(acc, q, IF IsFile(t[q].meta) THEN "Delete" ELSE NoEvent) EXCEPT !.tree[q].meta = Deleted]

MarkedGone(t, s, ps) == FoldPaths(LAMBDA q, acc : Mark(t, q, acc), s, ps)

MarkedGoneIn(t, s, ps, X) ==
  ps \in SUBSET Path /\ s \in X /\ \A p \in ps, a \in X : Mark(t, p, a) \in X

MarkedGoneKeeps(t, s, ps, X, T) ==
  /\ T \in SUBSET ((SUBSET ps) \X X) /\ <<{}, s>> \in T
  /\ \A R \in SUBSET ps, a \in X : R # {} /\ <<R \ {Latest(R)}, a>> \in T => <<R, Mark(t, Latest(R), a)>> \in T

LEMMA MarkedGoneFold ==
  ASSUME NEW t, NEW s, NEW ps, NEW X, NEW T, MarkedGoneIn(t, s, ps, X), MarkedGoneKeeps(t, s, ps, X, T)
  PROVE  <<ps, MarkedGone(t, s, ps)>> \in T
<1> DEFINE Folds(g) == g = [R \in SUBSET ps |->
                              IF R = {} THEN s ELSE Mark(t, Latest(R), g[R \ {Latest(R)}])]
           iter == CHOOSE g : Folds(g)
           F == [x \in ps \X X |-> Mark(t, x[1], x[2])]
<1> USE DEF MarkedGoneIn
<1>1. MarkedGone(t, s, ps) = iter[ps]
  BY Zenon DEF MarkedGone, FoldPaths, MapThenFoldSet, Latest
<1>2. F \in [ps \X X -> X]
  OBVIOUS
<1>3. \A R \in SUBSET ps, a \in X : R # {} => F[<<Latest(R), a>>] = Mark(t, Latest(R), a)
  BY LatestExists DEF IsLatest
<1> HIDE DEF F
<1>4. PICK g \in [SUBSET ps -> X] : Folding(g, F, s, ps)
  BY <1>2, FoldExists
<1>5. Folds(g)
  BY <1>3, <1>4 DEF Folding
<1>6. iter = [R \in SUBSET ps |-> IF R = {} THEN s ELSE Mark(t, Latest(R), iter[R \ {Latest(R)}])]
  BY <1>5, Zenon
<1> HIDE DEF Folds, iter
<1> DEFINE Done == {R \in SUBSET ps : <<R, iter[R]>> \in T}
<1>7. {} \in Done
  BY <1>6 DEF MarkedGoneKeeps
<1>8. \A R \in SUBSET ps : R # {} /\ R \ {Latest(R)} \in Done => R \in Done
  <2> TAKE R \in SUBSET ps
  <2> HAVE R # {} /\ R \ {Latest(R)} \in Done
  <2>1. <<R \ {Latest(R)}, iter[R \ {Latest(R)}]>> \in T
    BY Zenon
  <2> HIDE DEF Done
  <2>2. iter[R \ {Latest(R)}] \in X
    BY <2>1 DEF MarkedGoneKeeps
  <2>3. iter[R] = Mark(t, Latest(R), iter[R \ {Latest(R)}])
    BY <1>6
  <2>4. <<R, iter[R]>> \in T
    BY <2>1, <2>2, <2>3 DEF MarkedGoneKeeps
  <2>5. QED BY <2>4 DEF Done
<1> HIDE DEF Done
<1>9. Done \in SUBSET (SUBSET ps)
  BY DEF Done
<1>10. ps \in Done
  BY <1>7, <1>8, <1>9, OneByOne
<1>11. QED BY <1>1, <1>10 DEF Done

LEMMA MarkedGoneStays ==
  ASSUME NEW t, NEW s, NEW ps, NEW X, MarkedGoneIn(t, s, ps, X)
  PROVE  MarkedGone(t, s, ps) \in X
<1> DEFINE T == (SUBSET ps) \X X
<1>1. MarkedGoneKeeps(t, s, ps, X, T)
  <2>1. \A R \in SUBSET ps : R # {} => Latest(R) \in ps
    BY LatestExists DEF IsLatest, MarkedGoneIn
  <2>2. QED BY <2>1 DEF MarkedGoneIn, MarkedGoneKeeps
<1> HIDE DEF T
<1>2. <<ps, MarkedGone(t, s, ps)>> \in T
  BY <1>1, MarkedGoneFold
<1>3. QED BY <1>2 DEF T

\* One pending change of a transaction.
Change(fs, c, p, acc) ==
  IF Skipped(p, acc.skip) THEN acc
  ELSE LET a == ApplyChange(fs, acc.s, p, {"origin"} \cup ({"crawl"} \cap {c[p]}))
           enter == HasNode(a.s.tree, p) /\ IsDir(a.s.tree[p].meta) /\ p \notin Ignored
       IN  IF a.recurse
             THEN [s |-> IF enter THEN Crawl(fs, a.s, p) ELSE a.s,
                   skip |-> acc.skip \cup {p}]
             ELSE [acc EXCEPT !.s = a.s]

Changed(fs, c, s, ps) == FoldPaths(LAMBDA p, acc : Change(fs, c, p, acc), s, ps)

ChangedIn(fs, c, s, ps, X) ==
  ps \in SUBSET Path /\ s \in X /\ \A p \in ps, a \in X : Change(fs, c, p, a) \in X

ChangedKeeps(fs, c, s, ps, X, T) ==
  /\ T \in SUBSET ((SUBSET ps) \X X) /\ <<{}, s>> \in T
  /\ \A R \in SUBSET ps, a \in X : R # {} /\ <<R \ {Latest(R)}, a>> \in T => <<R, Change(fs, c, Latest(R), a)>> \in T

LEMMA ChangedFold ==
  ASSUME NEW fs, NEW c, NEW s, NEW ps, NEW X, NEW T, ChangedIn(fs, c, s, ps, X), ChangedKeeps(fs, c, s, ps, X, T)
  PROVE  <<ps, Changed(fs, c, s, ps)>> \in T
<1> DEFINE Folds(g) == g = [R \in SUBSET ps |->
                              IF R = {} THEN s ELSE Change(fs, c, Latest(R), g[R \ {Latest(R)}])]
           iter == CHOOSE g : Folds(g)
           F == [x \in ps \X X |-> Change(fs, c, x[1], x[2])]
<1> USE DEF ChangedIn
<1>1. Changed(fs, c, s, ps) = iter[ps]
  BY Zenon DEF Changed, FoldPaths, MapThenFoldSet, Latest
<1>2. F \in [ps \X X -> X]
  OBVIOUS
<1>3. \A R \in SUBSET ps, a \in X : R # {} => F[<<Latest(R), a>>] = Change(fs, c, Latest(R), a)
  BY LatestExists DEF IsLatest
<1> HIDE DEF F
<1>4. PICK g \in [SUBSET ps -> X] : Folding(g, F, s, ps)
  BY <1>2, FoldExists
<1>5. Folds(g)
  BY <1>3, <1>4 DEF Folding
<1>6. iter = [R \in SUBSET ps |-> IF R = {} THEN s ELSE Change(fs, c, Latest(R), iter[R \ {Latest(R)}])]
  BY <1>5, Zenon
<1> HIDE DEF Folds, iter
<1> DEFINE Done == {R \in SUBSET ps : <<R, iter[R]>> \in T}
<1>7. {} \in Done
  BY <1>6 DEF ChangedKeeps
<1>8. \A R \in SUBSET ps : R # {} /\ R \ {Latest(R)} \in Done => R \in Done
  <2> TAKE R \in SUBSET ps
  <2> HAVE R # {} /\ R \ {Latest(R)} \in Done
  <2>1. <<R \ {Latest(R)}, iter[R \ {Latest(R)}]>> \in T
    BY Zenon
  <2> HIDE DEF Done
  <2>2. iter[R \ {Latest(R)}] \in X
    BY <2>1 DEF ChangedKeeps
  <2>3. iter[R] = Change(fs, c, Latest(R), iter[R \ {Latest(R)}])
    BY <1>6
  <2>4. <<R, iter[R]>> \in T
    BY <2>1, <2>2, <2>3 DEF ChangedKeeps
  <2>5. QED BY <2>4 DEF Done
<1> HIDE DEF Done
<1>9. Done \in SUBSET (SUBSET ps)
  BY DEF Done
<1>10. ps \in Done
  BY <1>7, <1>8, <1>9, OneByOne
<1>11. QED BY <1>1, <1>10 DEF Done

LEMMA ChangedStays ==
  ASSUME NEW fs, NEW c, NEW s, NEW ps, NEW X, ChangedIn(fs, c, s, ps, X)
  PROVE  Changed(fs, c, s, ps) \in X
<1> DEFINE T == (SUBSET ps) \X X
<1>1. ChangedKeeps(fs, c, s, ps, X, T)
  <2>1. \A R \in SUBSET ps : R # {} => Latest(R) \in ps
    BY LatestExists DEF IsLatest, ChangedIn
  <2>2. QED BY <2>1 DEF ChangedIn, ChangedKeeps
<1> HIDE DEF T
<1>2. <<ps, Changed(fs, c, s, ps)>> \in T
  BY <1>1, ChangedFold
<1>3. QED BY <1>2 DEF T

Watching(fs, s, ps) == FoldPaths(LAMBDA p, acc : WatchDir(fs, p, acc), s, ps)

WatchingIn(fs, s, ps, X) ==
  ps \in SUBSET Path /\ s \in X /\ \A p \in ps, a \in X : WatchDir(fs, p, a) \in X

WatchingKeeps(fs, s, ps, X, T) ==
  /\ T \in SUBSET ((SUBSET ps) \X X) /\ <<{}, s>> \in T
  /\ \A R \in SUBSET ps, a \in X : R # {} /\ <<R \ {Latest(R)}, a>> \in T => <<R, WatchDir(fs, Latest(R), a)>> \in T

LEMMA WatchingFold ==
  ASSUME NEW fs, NEW s, NEW ps, NEW X, NEW T, WatchingIn(fs, s, ps, X), WatchingKeeps(fs, s, ps, X, T)
  PROVE  <<ps, Watching(fs, s, ps)>> \in T
<1> DEFINE Folds(g) == g = [R \in SUBSET ps |->
                              IF R = {} THEN s ELSE WatchDir(fs, Latest(R), g[R \ {Latest(R)}])]
           iter == CHOOSE g : Folds(g)
           F == [x \in ps \X X |-> WatchDir(fs, x[1], x[2])]
<1> USE DEF WatchingIn
<1>1. Watching(fs, s, ps) = iter[ps]
  BY Zenon DEF Watching, FoldPaths, MapThenFoldSet, Latest
<1>2. F \in [ps \X X -> X]
  OBVIOUS
<1>3. \A R \in SUBSET ps, a \in X : R # {} => F[<<Latest(R), a>>] = WatchDir(fs, Latest(R), a)
  BY LatestExists DEF IsLatest
<1> HIDE DEF F
<1>4. PICK g \in [SUBSET ps -> X] : Folding(g, F, s, ps)
  BY <1>2, FoldExists
<1>5. Folds(g)
  BY <1>3, <1>4 DEF Folding
<1>6. iter = [R \in SUBSET ps |-> IF R = {} THEN s ELSE WatchDir(fs, Latest(R), iter[R \ {Latest(R)}])]
  BY <1>5, Zenon
<1> HIDE DEF Folds, iter
<1> DEFINE Done == {R \in SUBSET ps : <<R, iter[R]>> \in T}
<1>7. {} \in Done
  BY <1>6 DEF WatchingKeeps
<1>8. \A R \in SUBSET ps : R # {} /\ R \ {Latest(R)} \in Done => R \in Done
  <2> TAKE R \in SUBSET ps
  <2> HAVE R # {} /\ R \ {Latest(R)} \in Done
  <2>1. <<R \ {Latest(R)}, iter[R \ {Latest(R)}]>> \in T
    BY Zenon
  <2> HIDE DEF Done
  <2>2. iter[R \ {Latest(R)}] \in X
    BY <2>1 DEF WatchingKeeps
  <2>3. iter[R] = WatchDir(fs, Latest(R), iter[R \ {Latest(R)}])
    BY <1>6
  <2>4. <<R, iter[R]>> \in T
    BY <2>1, <2>2, <2>3 DEF WatchingKeeps
  <2>5. QED BY <2>4 DEF Done
<1> HIDE DEF Done
<1>9. Done \in SUBSET (SUBSET ps)
  BY DEF Done
<1>10. ps \in Done
  BY <1>7, <1>8, <1>9, OneByOne
<1>11. QED BY <1>1, <1>10 DEF Done

LEMMA WatchingStays ==
  ASSUME NEW fs, NEW s, NEW ps, NEW X, WatchingIn(fs, s, ps, X)
  PROVE  Watching(fs, s, ps) \in X
<1> DEFINE T == (SUBSET ps) \X X
<1>1. WatchingKeeps(fs, s, ps, X, T)
  <2>1. \A R \in SUBSET ps : R # {} => Latest(R) \in ps
    BY LatestExists DEF IsLatest, WatchingIn
  <2>2. QED BY <2>1 DEF WatchingIn, WatchingKeeps
<1> HIDE DEF T
<1>2. <<ps, Watching(fs, s, ps)>> \in T
  BY <1>1, WatchingFold
<1>3. QED BY <1>2 DEF T

\* The model's operators are made of these folds.
LEMMA DeleteRecFolds ==
  ASSUME NEW s, NEW p
  PROVE  \E below \in SUBSET Path :
           /\ \A q \in below : q \in Under(p) /\ HasNode(s.tree, q)
           /\ DeleteRec(s, p) = IF s.tree[p].listed THEN MarkedGone(s.tree, [s EXCEPT !.tree[p].meta = Deleted], below)
                                                    ELSE s
<1> DEFINE open(q) == IsDir(s.tree[q].meta) /\ s.tree[q].listed
           below == {q \in Under(p) : /\ HasNode(s.tree, q)
                                      /\ \A r \in Under(p) : q \in Under(r) => open(r)}
<1>1. DeleteRec(s, p) = IF s.tree[p].listed THEN MarkedGone(s.tree, [s EXCEPT !.tree[p].meta = Deleted], below)
                                            ELSE s
  BY Zenon DEF DeleteRec, MarkedGone, Mark
<1>2. below \in SUBSET Path /\ \A q \in below : q \in Under(p) /\ HasNode(s.tree, q)
  BY DEF Under
<1>3. QED BY <1>1, <1>2, Zenon

LEMMA CrawlFolds ==
  ASSUME NEW fs, NEW s, NEW p
  PROVE  LET recursive == IsRecursive(s.tree[p])
             met == Walk(fs, p, recursive)
             after == Visited(fs, AddWatch(s, p), recursive, met)
             entered == {q \in met \cup {p} : /\ after.tree[q].listed
                                              /\ q = p \/ (IsDir(after.tree[q].meta) /\ recursive)}
             unvisited == (UNION {ChildNodes(after.tree, q) : q \in entered}) \ met
         IN  Crawl(fs, s, p) = Removed(after, unvisited)
BY Zenon DEF Crawl, Visited, Removed, ReportGone

LEMMA TransactionFolds ==
  ASSUME NEW fs, NEW s, NEW c
  PROVE  ApplyTransaction(fs, s, c) = Changed(fs, c, [s |-> s, skip |-> {}], {p \in Path : c[p] # "none"}).s
BY Zenon DEF ApplyTransaction, Changed, Change

------------------------------------------------------------------------------
(* Nodes and the disk *)

Inode == Ino \cup {0, RootIno}
Files == {File(s) : s \in Stamp}

LEMMA Kinds ==
  /\ IsDir(Dir) /\ ~IsFile(Dir) /\ ~IsDir(Other) /\ ~IsFile(Other) /\ ~IsDir(Deleted) /\ ~IsFile(Deleted)
  /\ Dir # Other /\ Dir # Deleted /\ Other # Deleted
  /\ \A m \in Files : IsFile(m) /\ ~IsDir(m) /\ m # Dir /\ m # Other /\ m # Deleted /\ m.stamp \in Stamp
  /\ \A s \in Stamp : File(s) \in Files /\ File(s).stamp = s
  /\ \A m \in Files : m = File(m.stamp)
BY DEF IsDir, IsFile, Dir, Other, Deleted, Files, File

LEMMA DiskKinds ==
  ASSUME NEW fs \in Disk
  PROVE  \A p \in Path :
           /\ fs[p].meta \in {Dir, Other, Deleted} \cup Files /\ fs[p].ino \in Inode
           /\ (IsDir(fs[p].meta) <=> fs[p].meta = Dir) /\ (IsFile(fs[p].meta) <=> fs[p].meta \in Files)
           /\ Exists(fs, p) <=> fs[p].meta \in {Dir} \cup Files
           /\ Listed(fs, p) <=> fs[p].meta # Deleted
           /\ ForPath(fs, p) = IF fs[p].meta = Other THEN Absent ELSE fs[p]
<1> TAKE p \in Path
<1>1. /\ fs[p] \in [meta : {Dir, Other, Deleted} \cup Files, ino : Inode]
      /\ fs[p].meta = Deleted <=> fs[p].ino = 0
  BY DEF Disk, Files, Inode
<1>2. fs[p].meta \in {Dir, Other, Deleted} \cup Files /\ fs[p].ino \in Inode
  BY <1>1
<1>3. fs[p] = Absent <=> fs[p].meta = Deleted
  BY <1>1 DEF Absent
<1>4. Exists(fs, p) <=> fs[p].meta \in {Dir} \cup Files
  BY <1>2, <1>3, Kinds DEF Exists, ForPath
<1>5. QED BY <1>2, <1>4, Kinds DEF Listed, ForPath

LEMMA DiskShape ==
  ASSUME NEW fs \in Disk
  PROVE  /\ fs[Root].meta = Dir /\ Exists(fs, Root)
         /\ \A p \in Path : \A q \in Under(p) : Listed(fs, q) => IsDir(fs[p].meta)
         /\ \A p, q \in Path : fs[p].ino = fs[q].ino /\ Listed(fs, p) => p = q
<1>1. fs[Root].meta = Dir
  BY DEF Disk
<1>2. Exists(fs, Root)
  BY <1>1, DiskKinds, PathAssumption
<1>3. QED BY <1>1, <1>2 DEF Disk

LEMMA UnderRoot == Under(Root) = Path \ {Root} /\ Root \in Path
<1>1. Root \in Path /\ Root \notin Under(Root) /\ Under(Root) \subseteq Path
  BY PathAssumption, NotUnderItself DEF Under
<1>2. ASSUME NEW p \in Path \ {Root} PROVE p \in Under(Root)
  <2>1. Len(p) > 0 /\ Len(Root) = 0
    BY ParentMeans DEF Root
  <2>2. QED BY <1>1, <2>1, UnderMeans
<1>3. QED BY <1>1, <1>2

\* What is not on the disk has nothing below it.
LEMMA NothingBelow ==
  ASSUME NEW fs \in Disk, NEW p \in Path, ~IsDir(fs[p].meta)
  PROVE  \A q \in Under(p) : ~Listed(fs, q)
BY DiskShape

\* The disk is one if it has the shape of one.
DiskOf(fs) ==
  /\ fs \in [Path -> [meta : {Dir, Other, Deleted} \cup Files, ino : Inode]]
  /\ fs[Root] = [meta |-> Dir, ino |-> RootIno]
  /\ \A p \in Path : fs[p].meta = Deleted <=> fs[p].ino = 0
  /\ \A p, q \in Path : q \in Under(p) /\ Listed(fs, q) => IsDir(fs[p].meta)
  /\ \A p, q \in Path : fs[p].ino = fs[q].ino /\ Listed(fs, p) => p = q

LEMMA DiskIs == \A fs : fs \in Disk <=> DiskOf(fs)
BY DEF Disk, DiskOf, Files, Inode, Under

\* The disk once something new is at p, of an inode that nothing had.
LEMMA DiskWith ==
  ASSUME disk \in Disk, NEW p \in Path, Room(p), NEW i \in FreeIno, NEW m \in {Dir, Other} \cup Files
  PROVE  [disk EXCEPT ![p] = [meta |-> m, ino |-> i]] \in Disk
<1> DEFINE new == [meta |-> m, ino |-> i]
           fs == [disk EXCEPT ![p] = new]
           Things == [meta : {Dir, Other, Deleted} \cup {File(s) : s \in Stamp}, ino : Ino \cup {0, RootIno}]
<1>1. /\ disk \in [Path -> Things] /\ disk[Root] = [meta |-> Dir, ino |-> RootIno]
      /\ \A q \in Path : disk[q].meta = Deleted <=> disk[q].ino = 0
  BY DEF Disk
<1>2. /\ \A q \in Path : \A r \in Under(q) : Listed(disk, r) => IsDir(disk[q].meta)
      /\ \A q, r \in Path : disk[q].ino = disk[r].ino /\ Listed(disk, q) => q = r
  BY DiskShape
<1>3. p # Root /\ disk[p].meta = Deleted /\ IsDir(disk[Parent(p)].meta) /\ Parent(p) \in Path
  BY ParentMeans DEF Room, Listed
<1>4. i \in Ino /\ i # 0 /\ \A q \in Path : disk[q].ino # i
  BY NamesAssumption DEF FreeIno
<1>5. m # Deleted /\ new \in Things
  BY <1>4, Kinds DEF Files
<1>6. new.meta = m /\ new.ino = i
  OBVIOUS
<1> HIDE DEF new, Things
<1>7. fs \in [Path -> Things] /\ fs[p] = new /\ \A q \in Path \ {p} : fs[q] = disk[q]
  BY <1>1, <1>5
<1> HIDE DEF fs
<1>8. fs[Root] = [meta |-> Dir, ino |-> RootIno]
  BY <1>1, <1>3, <1>7, PathAssumption
<1>9. \A q \in Path : fs[q].meta = Deleted <=> fs[q].ino = 0
  BY <1>1, <1>4, <1>5, <1>6, <1>7
<1>10. ASSUME NEW q \in Path, NEW r \in Under(q), Listed(fs, r)
       PROVE  IsDir(fs[q].meta)
  <2>1. r \in Path /\ q # r
    BY NotUnderItself DEF Under
  <2>2. CASE r = p
    <3>1. q = Parent(p) \/ Parent(p) \in Under(q)
      BY <2>2, UnderParent
    <3>2. Listed(disk, Parent(p))
      BY <1>3, Kinds DEF Listed
    <3>3. IsDir(disk[q].meta)
      BY <1>2, <1>3, <3>1, <3>2
    <3>4. QED BY <1>7, <2>1, <2>2, <3>3
  <2>3. CASE r # p
    <3>1. Listed(disk, r)
      BY <1>7, <1>10, <2>1, <2>3 DEF Listed
    <3>2. IsDir(disk[q].meta)
      BY <1>2, <3>1
    <3>3. q # p
      BY <1>3, <3>2, Kinds
    <3>4. QED BY <1>7, <3>2, <3>3
  <2>4. QED BY <2>2, <2>3
<1>11. \A q, r \in Path : fs[q].ino = fs[r].ino /\ Listed(fs, q) => q = r
  <2> TAKE q, r \in Path
  <2>1. CASE q = p \/ r = p
    BY <1>4, <1>6, <1>7, <2>1
  <2>2. CASE q # p /\ r # p
    BY <1>2, <1>7, <2>2 DEF Listed
  <2>3. QED BY <2>1, <2>2
<1>12. QED BY <1>7, <1>8, <1>9, <1>10, <1>11 DEF Disk, Things, fs, new

\* The disk once the file at p is written.
LEMMA DiskWritten ==
  ASSUME disk \in Disk, NEW p \in Path, IsFile(disk[p].meta), NEW m \in Files
  PROVE  [disk EXCEPT ![p].meta = m] \in Disk
<1> DEFINE fs == [disk EXCEPT ![p].meta = m]
           Things == [meta : {Dir, Other, Deleted} \cup {File(s) : s \in Stamp}, ino : Ino \cup {0, RootIno}]
<1>1. /\ disk \in [Path -> Things] /\ disk[Root] = [meta |-> Dir, ino |-> RootIno]
      /\ \A q \in Path : disk[q].meta = Deleted <=> disk[q].ino = 0
  BY DEF Disk
<1>2. /\ \A q \in Path : \A r \in Under(q) : Listed(disk, r) => IsDir(disk[q].meta)
      /\ \A q, r \in Path : disk[q].ino = disk[r].ino /\ Listed(disk, q) => q = r
  BY DiskShape
<1>3. p # Root /\ ~IsDir(disk[p].meta) /\ disk[p].meta # Deleted
  BY <1>1, DiskKinds, Kinds
<1>4. fs \in [Path -> Things] /\ fs[p].meta = m /\ fs[p].ino = disk[p].ino /\ \A q \in Path \ {p} : fs[q] = disk[q]
  BY <1>1 DEF Files
<1> HIDE DEF fs, Things
<1>5. fs[Root] = [meta |-> Dir, ino |-> RootIno]
  BY <1>1, <1>3, <1>4, PathAssumption
<1>6. \A q \in Path : fs[q].ino = disk[q].ino /\ (Listed(fs, q) <=> Listed(disk, q))
  BY <1>3, <1>4, Kinds DEF Listed
<1>7. \A q \in Path : fs[q].meta = Deleted <=> fs[q].ino = 0
  BY <1>1, <1>6 DEF Listed
<1>8. \A q \in Path : \A r \in Under(q) : Listed(fs, r) => IsDir(fs[q].meta)
  <2>1. \A q \in Path : IsDir(disk[q].meta) => q # p /\ IsDir(fs[q].meta)
    BY <1>3, <1>4
  <2>2. QED BY <1>2, <1>6, <2>1 DEF Under
<1>9. \A q, r \in Path : fs[q].ino = fs[r].ino /\ Listed(fs, q) => q = r
  BY <1>2, <1>6
<1>10. QED BY <1>4, <1>5, <1>7, <1>8, <1>9 DEF Disk, Things, fs

\* The disk without p, that has nothing below it.
LEMMA DiskWithout ==
  ASSUME disk \in Disk, NEW p \in Path \ {Root}, \A q \in Under(p) : ~Listed(disk, q)
  PROVE  [disk EXCEPT ![p] = Absent] \in Disk
<1> DEFINE fs == [disk EXCEPT ![p] = Absent]
<1>1. DiskOf(disk)
  BY DiskIs
<1>2. Absent \in [meta : {Dir, Other, Deleted} \cup Files, ino : Inode] /\ Absent.meta = Deleted /\ Absent.ino = 0
  BY DEF Absent, Inode
<1>3. fs \in [Path -> [meta : {Dir, Other, Deleted} \cup Files, ino : Inode]]
  BY <1>1, <1>2 DEF DiskOf
<1>4. fs[p] = Absent /\ \A q \in Path \ {p} : fs[q] = disk[q]
  BY <1>1 DEF DiskOf
<1> HIDE DEF fs
<1>5. fs[Root] = [meta |-> Dir, ino |-> RootIno]
  BY <1>1, <1>4, PathAssumption DEF DiskOf
<1>6. \A q \in Path : fs[q].meta = Deleted <=> fs[q].ino = 0
  BY <1>1, <1>2, <1>4 DEF DiskOf
<1>7. \A q \in Path : Listed(fs, q) => q # p /\ Listed(disk, q)
  BY <1>2, <1>4 DEF Listed
<1>8. \A q, r \in Path : r \in Under(q) /\ Listed(fs, r) => IsDir(fs[q].meta)
  BY <1>1, <1>4, <1>7 DEF DiskOf
<1>9. \A q, r \in Path : fs[q].ino = fs[r].ino /\ Listed(fs, q) => q = r
  <2> TAKE q, r \in Path
  <2> HAVE fs[q].ino = fs[r].ino /\ Listed(fs, q)
  <2>1. q # p /\ Listed(disk, q) /\ fs[q] = disk[q] /\ fs[q].ino # 0
    BY <1>4, <1>6, <1>7 DEF Listed
  <2>2. r # p
    BY <1>2, <1>4, <2>1
  <2>3. QED BY <1>1, <1>4, <2>1, <2>2 DEF DiskOf
<1>10. QED BY <1>3, <1>5, <1>6, <1>8, <1>9, DiskIs DEF DiskOf, fs

\* The disk once the file p has moved to r.
LEMMA DiskRenamed ==
  ASSUME disk \in Disk, NEW p \in Path, NEW r \in Path, p # r, IsFile(disk[p].meta),
         Room(r) \/ IsFile(disk[r].meta)
  PROVE  [disk EXCEPT ![r] = disk[p], ![p] = Absent] \in Disk
<1> DEFINE fs == [disk EXCEPT ![r] = disk[p], ![p] = Absent]
           Things == [meta : {Dir, Other, Deleted} \cup Files, ino : Inode]
<1>1. DiskOf(disk) /\ disk \in [Path -> Things]
  BY DiskIs DEF DiskOf
<1>2. Absent \in Things /\ Absent.meta = Deleted /\ Absent.ino = 0
  BY DEF Absent, Inode
<1> HIDE DEF Things
<1>3. fs \in [Path -> Things]
  BY <1>1, <1>2
<1>4. fs[p] = Absent /\ fs[r] = disk[p] /\ \A q \in Path \ {p, r} : fs[q] = disk[q]
  BY <1>1
<1> HIDE DEF fs
<1>5. p # Root /\ r # Root /\ Listed(disk, p) /\ ~IsDir(disk[p].meta) /\ ~IsDir(disk[r].meta)
  BY <1>1, Kinds, DiskKinds DEF DiskOf, Room, Listed
<1>6. fs[Root] = [meta |-> Dir, ino |-> RootIno]
  BY <1>1, <1>4, <1>5, PathAssumption DEF DiskOf
<1>7. \A q \in Path : fs[q].meta = Deleted <=> fs[q].ino = 0
  BY <1>1, <1>2, <1>4 DEF DiskOf
\* What has something below it is a directory, and none has changed.
<1>8. \A q \in Path : IsDir(disk[q].meta) => fs[q] = disk[q]
  BY <1>4, <1>5
<1>9. \A q \in Path : Listed(fs, q) => Listed(disk, q) \/ q = r
  BY <1>2, <1>4 DEF Listed
<1>10. \A q \in Path : r \in Under(q) => IsDir(disk[q].meta)
  <2> TAKE q \in Path
  <2> HAVE r \in Under(q)
  <2>1. CASE Room(r)
    <3>1. IsDir(disk[Parent(r)].meta) /\ Parent(r) \in Path /\ (q = Parent(r) \/ Parent(r) \in Under(q))
      BY <2>1, <1>5, ParentMeans, UnderParent DEF Room
    <3>2. Listed(disk, Parent(r))
      BY <3>1, Kinds DEF Listed
    <3>3. QED BY <1>1, <3>1, <3>2 DEF DiskOf
  <2>2. CASE IsFile(disk[r].meta)
    <3>1. Listed(disk, r)
      BY <2>2, Kinds DEF Listed
    <3>2. QED BY <1>1, <3>1 DEF DiskOf
  <2>3. QED BY <2>1, <2>2
<1>11. \A q, s \in Path : s \in Under(q) /\ Listed(fs, s) => IsDir(fs[q].meta)
  BY <1>1, <1>8, <1>9, <1>10 DEF DiskOf
<1>12. ASSUME NEW q \in Path, NEW s \in Path, fs[q].ino = fs[s].ino, Listed(fs, q) PROVE q = s
  <2> DEFINE Was(x) == IF x = r THEN p ELSE x
  <2>1. q # p /\ fs[q].ino # 0
    BY <1>2, <1>4, <1>7, <1>12 DEF Listed
  <2>2. s # p
    BY <1>2, <1>4, <1>12, <2>1
  <2>3. fs[q] = disk[Was(q)] /\ fs[s] = disk[Was(s)] /\ Was(q) \in Path /\ Was(s) \in Path
    BY <1>4, <2>1, <2>2
  <2>4. Listed(disk, Was(q))
    BY <1>12, <2>3 DEF Listed
  <2>5. Was(q) = Was(s)
    BY <1>1, <1>12, <2>3, <2>4 DEF DiskOf
  <2>6. QED BY <2>1, <2>2, <2>5
<1>13. QED BY <1>3, <1>6, <1>7, <1>11, <1>12, DiskIs DEF DiskOf, fs, Things

\* What comes before the end of a path is a path.
LEMMA PathsOfPrefixes ==
  ASSUME NEW q \in Path, NEW n \in 0 .. Len(q)
  PROVE  \E m \in Path : /\ Len(m) = n /\ \A i \in 1 .. n : m[i] = q[i]
                         /\ (n = Len(q) => m = q) /\ (n # Len(q) => q \in Under(m))
<1> DEFINE On(m) == n <= Len(m) /\ (m = q \/ q \in Under(m))
           T == {Len(m) : m \in {m \in Path : On(m)}}
<1>1. T \in SUBSET Nat /\ Len(q) \in T
  BY PathTypes
<1>2. PICK k \in T : \A m \in T : k <= m
  BY <1>1, FirstNumber
<1>3. PICK m \in Path : On(m) /\ \A s \in Path : On(s) => Len(m) <= Len(s)
  BY <1>2
<1>4. Len(m) \in Nat /\ Len(q) \in Nat
  BY PathTypes
<1>5. ASSUME n < Len(m) PROVE FALSE
  <2>1. m # Root
    BY <1>5 DEF Root
  <2>2. Parent(m) \in Path /\ m \in Under(Parent(m)) /\ Len(Parent(m)) = Len(m) - 1
    BY <2>1, ParentMeans
  <2>3. q \in Under(Parent(m)) /\ n <= Len(Parent(m))
    BY <1>3, <1>4, <1>5, <2>2, UnderTransitive
  <2>4. Len(m) <= Len(Parent(m))
    BY <1>3, <2>2, <2>3
  <2>5. QED BY <1>4, <2>2, <2>4
<1>6. Len(m) = n
  BY <1>3, <1>4, <1>5
<1>7. \A i \in 1 .. n : m[i] = q[i]
  BY <1>3, <1>6, UnderMeans
<1>8. q \in Under(m) => n < Len(q)
  BY <1>4, <1>6, UnderMeans
<1>9. (n = Len(q) => m = q) /\ (n # Len(q) => q \in Under(m))
  BY <1>3, <1>6, <1>8
<1>10. QED BY <1>6, <1>7, <1>9

Within(q, p) == q = p \/ q \in Under(p)

\* Where q comes to when its directory p moves to r.
Moved(p, r, q) == r \o SubSeq(q, Len(p) + 1, Len(q))

\* t is q with r for p.
MovesTo(p, r, q, t) ==
  /\ t \in Seq(Nat)
  /\ Len(p) <= Len(q) /\ Len(t) = Len(r) + (Len(q) - Len(p))
  /\ \A i \in 1 .. Len(p) : q[i] = p[i]
  /\ \A i \in 1 .. Len(r) : t[i] = r[i]
  /\ \A i \in 1 .. Len(q) - Len(p) : t[Len(r) + i] = q[Len(p) + i]

LEMMA MovedMeans ==
  ASSUME NEW p \in Path, NEW r \in Path, NEW q \in Path, Within(q, p)
  PROVE  MovesTo(p, r, q, Moved(p, r, q))
<1> DEFINE n == Len(q) - Len(p)
           tail == SubSeq(q, Len(p) + 1, Len(q))
<1>1. /\ Len(p) \in Nat /\ Len(q) \in Nat /\ Len(r) \in Nat /\ p \in Seq(Nat) /\ q \in Seq(Nat) /\ r \in Seq(Nat)
      /\ Len(p) <= Len(q) /\ \A i \in 1 .. Len(p) : q[i] = p[i]
  BY PathTypes, UnderMeans DEF Within
<1>2. n \in Nat
  BY <1>1
<1>3. tail \in Seq(Nat) /\ Len(tail) = n /\ \A i \in 1 .. n : tail[i] = q[Len(p) + i]
  <2>1. \A i \in 1 .. n : Len(p) + i \in 1 .. Len(q)
    BY <1>1
  <2>2. \A i \in Len(p) + 1 .. Len(q) : i \in 1 .. Len(q)
    BY <1>1
  <2>3. \A i \in 1 .. n : Len(p) + 1 + i - 1 = Len(p) + i
    BY <1>1
  <2>4. QED BY <1>1, <1>2, <2>1, <2>2, <2>3, SubSeqProperties
<1> HIDE DEF n, tail
<1>4. /\ r \o tail \in Seq(Nat) /\ Len(r \o tail) = Len(r) + n
      /\ \A i \in 1 .. Len(r) : (r \o tail)[i] = r[i]
      /\ \A i \in 1 .. n : (r \o tail)[Len(r) + i] = tail[i]
  <2>1. \A i \in 1 .. n : Len(r) + i \in 1 .. Len(r) + n /\ Len(r) + i > Len(r) /\ (Len(r) + i) - Len(r) = i
    BY <1>1, <1>2
  <2>2. /\ r \o tail \in Seq(Nat) /\ Len(r \o tail) = Len(r) + n
        /\ \A i \in 1 .. Len(r) + n : (r \o tail)[i] = IF i <= Len(r) THEN r[i] ELSE tail[i - Len(r)]
    <3>1. Len(r) + Len(tail) = Len(r) + n
      BY <1>3
    <3>2. QED BY <1>1, <1>3, <3>1, ConcatProperties
  <2>3. \A i \in 1 .. Len(r) : i \in 1 .. Len(r) + n /\ i <= Len(r)
    BY <1>1, <1>2
  <2>4. \A i \in 1 .. Len(r) : (r \o tail)[i] = r[i]
    BY <2>2, <2>3
  <2>5. \A i \in 1 .. n : (r \o tail)[Len(r) + i] = tail[i]
    BY <1>1, <1>2, <2>1, <2>2
  <2>6. QED BY <2>2, <2>4, <2>5
<1>5. MovesTo(p, r, q, r \o tail)
  BY <1>1, <1>3, <1>4 DEF MovesTo, n
<1>6. QED BY <1>5 DEF Moved, tail

LEMMA MovedOnce ==
  ASSUME NEW p \in Path, NEW r \in Path, NEW q \in Path, Within(q, p),
         NEW s \in Path, Within(s, p), Moved(p, r, q) = Moved(p, r, s)
  PROVE  q = s
<1> DEFINE t == Moved(p, r, q)
<1>1. /\ Len(p) \in Nat /\ Len(q) \in Nat /\ Len(r) \in Nat /\ Len(s) \in Nat /\ q \in Seq(Nat) /\ s \in Seq(Nat)
  BY PathTypes
<1>2. MovesTo(p, r, q, t) /\ MovesTo(p, r, s, t)
  BY MovedMeans
<1> HIDE DEF t
<1>3. /\ Len(q) = Len(s) /\ Len(p) <= Len(q)
      /\ \A i \in 1 .. Len(p) : q[i] = s[i]
  BY <1>1, <1>2 DEF MovesTo
<1>4. \A i \in 1 .. Len(q) - Len(p) : q[Len(p) + i] = s[Len(p) + i]
  <2>1. \A i \in 1 .. Len(q) - Len(p) : t[Len(r) + i] = q[Len(p) + i]
    BY <1>2 DEF MovesTo
  <2>2. \A i \in 1 .. Len(s) - Len(p) : t[Len(r) + i] = s[Len(p) + i]
    BY <1>2 DEF MovesTo
  <2>3. QED BY <1>3, <2>1, <2>2, Zenon
<1>5. ASSUME NEW i \in 1 .. Len(q) PROVE q[i] = s[i]
  <2>1. CASE i <= Len(p)
    <3>1. i \in 1 .. Len(p)
      BY <1>1, <2>1
    <3>2. QED BY <1>3, <3>1
  <2>2. CASE Len(p) < i
    <3>1. i - Len(p) \in 1 .. Len(q) - Len(p) /\ Len(p) + (i - Len(p)) = i
      BY <1>1, <2>2
    <3>2. QED BY <1>4, <3>1
  <2>3. QED BY <1>1, <2>1, <2>2
<1>6. QED BY <1>1, <1>3, <1>5, SeqEqual

\* Above a moved path there is what is above r, or moved paths.
LEMMA AboveMoved ==
  ASSUME NEW p \in Path, NEW r \in Path, NEW q \in Path, Within(q, p),
         NEW s \in Path, Moved(p, r, q) \in Path, Moved(p, r, q) \in Under(s)
  PROVE  \/ r \in Under(s)
         \/ \E m \in Path : Within(m, p) /\ q \in Under(m) /\ s = Moved(p, r, m)
<1> DEFINE t == Moved(p, r, q)
<1>1. /\ Len(p) \in Nat /\ Len(q) \in Nat /\ Len(r) \in Nat /\ Len(s) \in Nat /\ Len(t) \in Nat
      /\ p \in Seq(Nat) /\ q \in Seq(Nat) /\ s \in Seq(Nat)
  BY PathTypes
<1>2. /\ Len(p) <= Len(q) /\ Len(t) = Len(r) + (Len(q) - Len(p))
      /\ \A i \in 1 .. Len(p) : q[i] = p[i]
      /\ \A i \in 1 .. Len(r) : t[i] = r[i]
      /\ \A i \in 1 .. Len(q) - Len(p) : t[Len(r) + i] = q[Len(p) + i]
  <2>1. MovesTo(p, r, q, t)
    BY MovedMeans
  <2> HIDE DEF t
  <2>2. QED BY <2>1 DEF MovesTo
<1>3. Len(s) < Len(t) /\ \A i \in 1 .. Len(s) : s[i] = t[i]
  BY UnderMeans
<1> HIDE DEF t
<1>4. CASE Len(s) < Len(r)
  <2>1. \A i \in 1 .. Len(s) : i \in 1 .. Len(r)
    BY <1>1, <1>4
  <2>2. QED BY <1>2, <1>3, <1>4, <2>1, UnderMeans
<1>5. CASE Len(r) <= Len(s)
  <2> DEFINE k == Len(s) - Len(r)
             n == Len(p) + k
  <2>1. k \in Nat /\ n \in 0 .. Len(q) /\ n < Len(q) /\ Len(p) <= n /\ Len(s) = Len(r) + k /\ k <= Len(q) - Len(p)
    BY <1>1, <1>2, <1>3, <1>5
  <2> HIDE DEF k, n
  <2>2. PICK m \in Path : Len(m) = n /\ (\A i \in 1 .. n : m[i] = q[i]) /\ q \in Under(m)
    <3>1. n # Len(q)
      BY <1>1, <2>1
    <3>2. QED BY <2>1, <3>1, PathsOfPrefixes
  <2>3. Within(m, p)
    <3>1. \A i \in 1 .. Len(p) : p[i] = m[i]
      <4>1. \A i \in 1 .. Len(p) : i \in 1 .. n
        BY <1>1, <2>1
      <4>2. QED BY <1>2, <2>2, <4>1
    <3>2. CASE Len(m) = Len(p)
      <4>1. m \in Seq(Nat)
        BY PathTypes
      <4>2. QED BY <1>1, <3>1, <3>2, <4>1, SeqEqual DEF Within
    <3>3. CASE Len(m) # Len(p)
      <4>1. Len(p) < Len(m)
        BY <1>1, <2>1, <2>2, <3>3
      <4>2. QED BY <3>1, <4>1, UnderMeans DEF Within
    <3>4. QED BY <3>2, <3>3
  <2> DEFINE u == Moved(p, r, m)
  <2>4. /\ u \in Seq(Nat) /\ Len(u) = Len(r) + (Len(m) - Len(p))
        /\ \A i \in 1 .. Len(r) : u[i] = r[i]
        /\ \A i \in 1 .. Len(m) - Len(p) : u[Len(r) + i] = m[Len(p) + i]
    <3>1. MovesTo(p, r, m, u)
      BY <2>3, MovedMeans
    <3> HIDE DEF u
    <3>2. QED BY <3>1 DEF MovesTo
  <2> HIDE DEF u
  <2>5. Len(u) = Len(s) /\ Len(m) - Len(p) = k
    BY <1>1, <2>1, <2>2, <2>4 DEF n
  <2>6. ASSUME NEW i \in 1 .. Len(s) PROVE u[i] = s[i]
    <3>1. CASE i <= Len(r)
      BY <1>1, <1>2, <1>3, <2>4, <3>1
    <3>2. CASE Len(r) < i
      <4> DEFINE j == i - Len(r)
      <4>1. j \in 1 .. k /\ Len(r) + j = i /\ Len(p) + j \in 1 .. n /\ j \in 1 .. Len(q) - Len(p)
        BY <1>1, <2>1, <3>2 DEF n
      <4> HIDE DEF j
      <4>2. u[i] = m[Len(p) + j]
        BY <2>4, <2>5, <4>1
      <4>3. t[i] = q[Len(p) + j]
        BY <1>2, <4>1
      <4>4. QED BY <1>3, <2>2, <4>1, <4>2, <4>3
    <3>3. QED BY <1>1, <3>1, <3>2
  <2>7. s = u
    BY <1>1, <2>4, <2>5, <2>6, SeqEqual
  <2>8. QED BY <2>2, <2>3, <2>7 DEF u
<1>6. QED BY <1>1, <1>4, <1>5 DEF t

LEMMA MovedBelow ==
  ASSUME NEW p \in Path, NEW r \in Path, NEW q \in Path, Within(q, p), Moved(p, r, q) \in Path
  PROVE  Moved(p, r, q) = r \/ Moved(p, r, q) \in Under(r)
<1> DEFINE t == Moved(p, r, q)
<1>1. Len(p) \in Nat /\ Len(q) \in Nat /\ Len(r) \in Nat /\ t \in Seq(Nat) /\ r \in Seq(Nat)
  BY PathTypes
<1>2. Len(p) <= Len(q) /\ Len(t) = Len(r) + (Len(q) - Len(p)) /\ \A i \in 1 .. Len(r) : t[i] = r[i]
  <2>1. MovesTo(p, r, q, t)
    BY MovedMeans
  <2> HIDE DEF t
  <2>2. QED BY <2>1 DEF MovesTo
<1> HIDE DEF t
<1>3. CASE Len(t) = Len(r)
  BY <1>1, <1>2, <1>3, SeqEqual DEF t
<1>4. CASE Len(t) # Len(r)
  <2>1. Len(r) < Len(t)
    BY <1>1, <1>2, <1>4
  <2>2. QED BY <1>2, <2>1, UnderMeans DEF t
<1>5. QED BY <1>3, <1>4

\* The disk once what moves from p is at r.
AfterMove(p, r, moves) ==
  [q \in Path |-> IF \E m \in moves : q = Moved(p, r, m) THEN disk[CHOOSE m \in moves : q = Moved(p, r, m)]
                  ELSE IF q \in moves THEN Absent ELSE disk[q]]

\* The disk once the directory p has moved to r, with all that is below it.
LEMMA DiskMoved ==
  ASSUME disk \in Disk, NEW p \in Path \ {Root}, NEW r \in Path, IsDir(disk[p].meta), Room(r), r \notin Under(p),
         NEW moves \in SUBSET Path, \A q \in Path : q \in moves <=> Within(q, p) /\ Listed(disk, q),
         \A q \in moves : Moved(p, r, q) \in Path
  PROVE  AfterMove(p, r, moves) \in Disk
<1> DEFINE New(q) == \E m \in moves : q = Moved(p, r, m)
           fs == [q \in Path |-> IF \E m \in moves : q = Moved(p, r, m) THEN disk[CHOOSE m \in moves : q = Moved(p, r, m)]
                                 ELSE IF q \in moves THEN Absent ELSE disk[q]]
           Things == [meta : {Dir, Other, Deleted} \cup Files, ino : Inode]
<1>1. DiskOf(disk) /\ disk \in [Path -> Things]
  BY DiskIs DEF DiskOf
<1>2. Absent \in Things /\ Absent.meta = Deleted /\ Absent.ino = 0
  BY DEF Absent, Inode
<1> HIDE DEF Things
<1>3. \A m \in moves : fs[Moved(p, r, m)] = disk[m]
  <2> TAKE m \in moves
  <2> DEFINE n == CHOOSE n \in moves : Moved(p, r, m) = Moved(p, r, n)
  <2>1. n \in moves /\ Moved(p, r, m) = Moved(p, r, n)
    OBVIOUS
  <2>2. n = m
    <3> HIDE DEF n
    <3>1. n \in Path /\ m \in Path /\ Within(n, p) /\ Within(m, p)
      BY <2>1
    <3>2. QED BY <2>1, <3>1, MovedOnce
  <2>3. fs[Moved(p, r, m)] = disk[n]
    OBVIOUS
  <2>4. QED BY <2>2, <2>3
<1>4. \A q \in Path : ~New(q) => fs[q] = IF q \in moves THEN Absent ELSE disk[q]
  OBVIOUS
<1>5. fs \in [Path -> Things]
  <2>1. \A q \in Path : fs[q] \in Things
    <3> TAKE q \in Path
    <3>1. CASE New(q)
      <4>1. PICK m \in moves : q = Moved(p, r, m)
        BY <3>1
      <4>2. QED BY <1>1, <1>3, <4>1
    <3>2. CASE ~New(q)
      BY <1>1, <1>2, <1>4, <3>2
    <3>3. QED BY <3>1, <3>2
  <2>2. QED BY <2>1
<1> HIDE DEF fs
<1>6. /\ r # Root /\ Parent(r) \in Path /\ IsDir(disk[Parent(r)].meta) /\ Listed(disk, Parent(r))
      /\ ~Listed(disk, r) /\ \A q \in Under(r) : ~Listed(disk, q)
  <2>1. r # Root /\ IsDir(disk[Parent(r)].meta) /\ ~Listed(disk, r)
    BY DEF Room
  <2>2. disk[r].meta = Deleted
    BY <2>1 DEF Listed
  <2>3. QED BY <2>1, <2>2, ParentMeans, NothingBelow, Kinds DEF Listed
<1>7. \A q \in Path : New(q) => q = r \/ q \in Under(r)
  BY MovedBelow
<1>8. \A q \in Path : Listed(disk, q) => ~New(q)
  BY <1>6, <1>7
\* Above r nothing moves.
<1>9. \A q \in Path : r \in Under(q) => IsDir(disk[q].meta) /\ fs[q] = disk[q]
  <2> TAKE q \in Path
  <2> HAVE r \in Under(q)
  <2>1. q = Parent(r) \/ Parent(r) \in Under(q)
    BY UnderParent
  <2>2. IsDir(disk[q].meta)
    BY <1>1, <1>6, <2>1 DEF DiskOf
  <2>3. q \notin moves
    BY UnderTransitive DEF Within
  <2>4. Listed(disk, q)
    BY <2>2, Kinds DEF Listed
  <2>5. QED BY <1>4, <1>8, <2>2, <2>3, <2>4
<1>10. fs[Root] = [meta |-> Dir, ino |-> RootIno]
  <2>1. r \in Under(Root)
    BY <1>6, UnderRoot
  <2>2. QED BY <1>1, <1>9, <2>1, PathAssumption DEF DiskOf
<1>12. \A q \in Path : fs[q].meta = Deleted <=> fs[q].ino = 0
  <2> TAKE q \in Path
  <2>1. CASE New(q)
    <3>1. PICK m \in moves : q = Moved(p, r, m)
      BY <2>1
    <3>2. QED BY <1>1, <1>3, <3>1 DEF DiskOf
  <2>2. CASE ~New(q)
    BY <1>1, <1>2, <1>4, <2>2 DEF DiskOf
  <2>3. QED BY <2>1, <2>2
<1>13. \A q \in Path : Listed(fs, q) => New(q) \/ (Listed(disk, q) /\ q \notin moves /\ fs[q] = disk[q])
  BY <1>2, <1>4 DEF Listed
<1>14. ASSUME NEW q \in Path, NEW s \in Path, s \in Under(q), Listed(fs, s) PROVE IsDir(fs[q].meta)
  <2>1. CASE New(s)
    <3>1. PICK m \in moves : s = Moved(p, r, m)
      BY <2>1
    <3>2. m \in Path /\ Within(m, p) /\ Listed(disk, m)
      OBVIOUS
    <3>3. CASE r \in Under(q)
      BY <1>9, <3>3
    <3>4. CASE r \notin Under(q)
      <4>1. PICK n \in Path : Within(n, p) /\ m \in Under(n) /\ q = Moved(p, r, n)
        BY <1>14, <3>1, <3>2, <3>4, AboveMoved
      <4>2. IsDir(disk[n].meta)
        BY <1>1, <3>2, <4>1 DEF DiskOf
      <4>3. n \in moves
        BY <4>1, <4>2, Kinds DEF Listed
      <4>4. QED BY <1>3, <4>1, <4>2, <4>3
    <3>5. QED BY <3>3, <3>4
  <2>2. CASE ~New(s)
    <3>1. Listed(disk, s) /\ s \notin moves
      BY <1>13, <1>14, <2>2
    <3>2. IsDir(disk[q].meta) /\ Listed(disk, q)
      BY <1>1, <1>14, <3>1, Kinds DEF DiskOf, Listed
    <3>3. q \notin moves
      <4>1. Within(q, p) => Within(s, p)
        BY <1>14, UnderTransitive DEF Within
      <4>2. QED BY <3>1, <4>1
    <3>4. QED BY <1>4, <1>8, <3>2, <3>3
  <2>3. QED BY <2>1, <2>2
<1>15. ASSUME NEW q \in Path, NEW s \in Path, fs[q].ino = fs[s].ino, Listed(fs, q) PROVE q = s
  <2>1. Listed(fs, s)
    BY <1>12, <1>15 DEF Listed
  <2>2. \A x \in Path : Listed(fs, x) => \E y \in Path : /\ fs[x] = disk[y] /\ Listed(disk, y)
                                                        /\ IF New(x) THEN y \in moves /\ x = Moved(p, r, y)
                                                                     ELSE y = x /\ y \notin moves
    <3> TAKE x \in Path
    <3> HAVE Listed(fs, x)
    <3>1. CASE New(x)
      <4>1. PICK y \in moves : x = Moved(p, r, y)
        BY <3>1
      <4>2. fs[x] = disk[y] /\ Listed(disk, y)
        BY <1>3, <4>1
      <4>3. QED BY <3>1, <4>1, <4>2
    <3>2. CASE ~New(x)
      BY <1>13, <3>2
    <3>3. QED BY <3>1, <3>2
  <2>3. PICK y \in Path : /\ fs[q] = disk[y] /\ Listed(disk, y)
                          /\ IF New(q) THEN y \in moves /\ q = Moved(p, r, y) ELSE y = q /\ y \notin moves
    BY <1>15, <2>2
  <2>4. PICK z \in Path : /\ fs[s] = disk[z] /\ Listed(disk, z)
                          /\ IF New(s) THEN z \in moves /\ s = Moved(p, r, z) ELSE z = s /\ z \notin moves
    BY <2>1, <2>2
  <2>5. y = z
    BY <1>1, <1>15, <2>3, <2>4 DEF DiskOf
  <2> HIDE DEF New
  <2>6. QED BY <2>3, <2>4, <2>5
<1>16. DiskOf(fs)
  BY <1>5, <1>10, <1>12, <1>14, <1>15 DEF DiskOf, Things
<1>17. QED BY <1>16, DiskIs DEF fs, AfterMove

------------------------------------------------------------------------------
(* Type correctness of a tree and of what is done to it *)

AnyNode == [meta : {Dir, Deleted} \cup Files, ino : Ino \cup {RootIno},
            watch : {"none", "children", "recursive"}, listed : BOOLEAN]
Trees == [Path -> AnyNode \cup {NoNode}]
EventMaps == [Path -> EventType \cup {NoEvent}]
Walker == [tree : Trees, events : EventMaps, watched : SUBSET Path]

\* No node of t goes away.
Keeps(t, u) == \A q \in Path : HasNode(t, q) => HasNode(u, q)

LEMMA AnyKinds ==
  /\ \A n \in AnyNode : /\ n # NoNode /\ n.meta \in {Dir, Deleted} \cup Files /\ n.ino \in Ino \cup {RootIno}
                        /\ n.watch \in {"none", "children", "recursive"} /\ n.listed \in BOOLEAN
                        /\ (IsDir(n.meta) <=> n.meta = Dir) /\ (IsFile(n.meta) <=> n.meta \in Files)
  /\ ~IsDir(NoNode.meta) /\ ~IsFile(NoNode.meta)
<1>1. ~IsDir(NoNode.meta) /\ ~IsFile(NoNode.meta) /\ NoNode.meta.kind = "NoNode"
  BY DEF NoNode, Node, IsDir, IsFile
<1>2. \A m \in {Dir, Deleted} \cup Files : m.kind # "NoNode"
  BY DEF Dir, Deleted, Files, File
<1>3. \A n \in AnyNode : /\ n.meta \in {Dir, Deleted} \cup Files /\ n.ino \in Ino \cup {RootIno}
                         /\ n.watch \in {"none", "children", "recursive"} /\ n.listed \in BOOLEAN
  BY DEF AnyNode
<1>4. QED BY <1>1, <1>2, <1>3, Kinds

LEMMA HasAny ==
  ASSUME NEW t \in Trees
  PROVE  \A p \in Path : HasNode(t, p) <=> t[p] \in AnyNode
BY AnyKinds DEF Trees, HasNode

LEMMA EventTypes ==
  /\ NoEvent \notin EventType /\ {"Create", "Delete", "Modified"} \subseteq EventType
  /\ \A old \in EventType, new \in EventType : Merge(old, new) \in EventType
  /\ \A old, new, skip : ChangeType(old, new, skip) \in EventType \cup {NoEvent}
<1>1. \A old \in EventType, new \in EventType : Merge(old, new) \in EventType
  BY DEF Merge, EventType
<1>2. ASSUME NEW old, NEW new, NEW skip PROVE ChangeType(old, new, skip) \in EventType \cup {NoEvent}
  <2>1. CASE IsFile(old) /\ IsFile(new)
    BY <2>1 DEF ChangeType, EventType
  <2>2. CASE ~IsFile(old) /\ IsFile(new)
    BY <2>2 DEF ChangeType, EventType
  <2>3. CASE IsFile(old) /\ ~IsFile(new)
    BY <2>3 DEF ChangeType, EventType
  <2>4. CASE ~IsFile(old) /\ ~IsFile(new)
    BY <2>4 DEF ChangeType, EventType
  <2>5. QED BY <2>1, <2>2, <2>3, <2>4 DEF IsFile
<1>3. QED BY <1>1, <1>2 DEF EventType, NoEvent

LEMMA EmitType ==
  ASSUME NEW s \in Walker, NEW p \in Path, NEW ty \in EventType \cup {NoEvent}
  PROVE  Emit(s, p, ty) \in Walker /\ Emit(s, p, ty).tree = s.tree
<1> DEFINE held == IF s.events[p] = NoEvent THEN ty ELSE Merge(s.events[p], ty)
<1>1. s.events \in EventMaps /\ s.tree \in Trees /\ s.watched \in SUBSET Path
      /\ s = [tree |-> s.tree, events |-> s.events, watched |-> s.watched]
  BY DEF Walker
<1>2. CASE ty = NoEvent
  BY <1>2 DEF Emit
<1>3. CASE ty # NoEvent
  <2>1. held \in EventType
    BY <1>1, <1>3, EventTypes DEF EventMaps
  <2>2. Emit(s, p, ty) = [s EXCEPT !.events = [s.events EXCEPT ![p] = held]]
    BY <1>3 DEF Emit
  <2> HIDE DEF held
  <2>3. [s.events EXCEPT ![p] = held] \in EventMaps
    BY <1>1, <2>1 DEF EventMaps
  <2>4. QED BY <1>1, <2>2, <2>3 DEF Walker
<1>4. QED BY <1>2, <1>3

LEMMA AddWatchType ==
  ASSUME NEW s \in Walker, NEW p \in Path
  PROVE  AddWatch(s, p) \in Walker /\ AddWatch(s, p).tree = s.tree
BY DEF Walker, AddWatch

LEMMA SetNodeType ==
  ASSUME NEW s \in Walker, NEW p \in Path, NEW n \in AnyNode
  PROVE  /\ SetNode(s, p, n) \in Walker
         /\ SetNode(s, p, n).tree = [s.tree EXCEPT ![p] = n]
         /\ HasNode(SetNode(s, p, n).tree, p) /\ Keeps(s.tree, SetNode(s, p, n).tree)
<1>1. s.tree \in [Path -> AnyNode \cup {NoNode}]
  BY DEF Walker, Trees
<1>2. SetNode(s, p, n) = [s EXCEPT !.tree = [s.tree EXCEPT ![p] = n]]
  BY DEF SetNode
<1>3. [s.tree EXCEPT ![p] = n] \in Trees
  BY <1>1 DEF Trees
<1>4. SetNode(s, p, n) \in Walker /\ SetNode(s, p, n).tree = [s.tree EXCEPT ![p] = n]
  BY <1>2, <1>3 DEF Walker
<1>5. n # NoNode
  BY AnyKinds
<1>6. QED BY <1>1, <1>4, <1>5 DEF HasNode, Keeps

LEMMA NewNodeType ==
  ASSUME NEW s \in Walker, NEW p \in Path \ {Root}, NEW n \in AnyNode, HasNode(s.tree, Parent(p))
  PROVE  NewNode(s, p, n) \in Walker /\ Keeps(s.tree, NewNode(s, p, n).tree)
<1> DEFINE d == Parent(p)
           dir == [s.tree[d] EXCEPT !.listed = TRUE]
           f == [s EXCEPT !.tree[d].listed = TRUE]
<1>1. s.tree \in Trees /\ d \in Path
  BY PathAssumption DEF Walker
<1>2. s.tree[d] \in AnyNode
  BY <1>1, HasAny
<1>3. dir \in AnyNode
  BY <1>2 DEF AnyNode
<1>4. f = SetNode(s, d, dir)
  BY DEF SetNode
<1>5. NewNode(s, p, n) = SetNode(f, p, n)
  BY DEF NewNode
<1> HIDE DEF f, dir, d
<1>6. f \in Walker /\ Keeps(s.tree, f.tree)
  BY <1>1, <1>3, <1>4, SetNodeType
<1>7. SetNode(f, p, n) \in Walker /\ Keeps(f.tree, SetNode(f, p, n).tree)
  BY <1>6, SetNodeType
<1>8. QED BY <1>5, <1>6, <1>7 DEF Keeps

LEMMA MarkType ==
  ASSUME NEW t \in Trees, NEW a \in Walker, Keeps(t, a.tree), NEW q \in Path, HasNode(t, q)
  PROVE  Mark(t, q, a) \in Walker /\ Keeps(t, Mark(t, q, a).tree)
<1> DEFINE ty == IF IsFile(t[q].meta) THEN "Delete" ELSE NoEvent
           e == Emit(a, q, ty)
           n == [e.tree[q] EXCEPT !.meta = Deleted]
<1>1. e \in Walker /\ e.tree = a.tree
  BY EmitType, EventTypes
<1>2. e.tree[q] \in AnyNode
  BY <1>1, HasAny DEF Keeps, Walker
<1>3. n \in AnyNode
  BY <1>2 DEF AnyNode
<1>4. Mark(t, q, a) = SetNode(e, q, n)
  BY DEF Mark, SetNode
<1> HIDE DEF e, n
<1>5. SetNode(e, q, n) \in Walker /\ Keeps(e.tree, SetNode(e, q, n).tree)
  BY <1>1, <1>3, SetNodeType
<1>6. QED BY <1>1, <1>4, <1>5 DEF Keeps

\* FileTree::delete_rec takes no node out of the tree.
LEMMA DeleteRecType ==
  ASSUME NEW s \in Walker, NEW p \in Path, HasNode(s.tree, p)
  PROVE  DeleteRec(s, p) \in Walker /\ Keeps(s.tree, DeleteRec(s, p).tree)
<1>1. PICK below \in SUBSET Path :
        /\ \A q \in below : q \in Under(p) /\ HasNode(s.tree, q)
        /\ DeleteRec(s, p) = IF s.tree[p].listed THEN MarkedGone(s.tree, [s EXCEPT !.tree[p].meta = Deleted], below)
                                                 ELSE s
  BY DeleteRecFolds
<1> DEFINE t == s.tree
           b == [s EXCEPT !.tree[p].meta = Deleted]
           n == [s.tree[p] EXCEPT !.meta = Deleted]
           X == {a \in Walker : Keeps(t, a.tree)}
<1>2. t \in Trees /\ t[p] \in AnyNode
  BY HasAny DEF Walker
<1>3. n \in AnyNode
  BY <1>2 DEF AnyNode
<1>4. b = SetNode(s, p, n)
  BY DEF SetNode
<1> HIDE DEF b, n
<1>5. b \in X
  BY <1>3, <1>4, SetNodeType
<1>6. \A q \in below, a \in X : Mark(t, q, a) \in X
  BY <1>1, <1>2, MarkType
<1> HIDE DEF X, t
<1>7. MarkedGoneIn(t, b, below, X)
  BY <1>5, <1>6 DEF MarkedGoneIn
<1>8. MarkedGone(t, b, below) \in X
  BY <1>7, MarkedGoneStays
<1>9. s \in X
  BY DEF X, Keeps, t
<1>10. QED BY <1>1, <1>8, <1>9 DEF X, t, b

\* FileTree::apply_change on a path with a node keeps the tree one, and takes no
\* node out of it.
LEMMA ApplyKnownType ==
  ASSUME NEW fs \in Disk, NEW s \in Walker, NEW p \in Path, NEW flags, HasNode(s.tree, p)
  PROVE  LET a == ApplyKnown(fs, s, p, flags)
         IN  a.s \in Walker /\ Keeps(s.tree, a.s.tree)
<1> DEFINE node == [s.tree[p] EXCEPT !.watch = Marked(@, "mark" \in flags)]
           inode_changed == fs[p].ino # node.ino
           changed == ChangeType(node.meta, fs[p].meta, inode_changed \/ "origin" \in flags)
           old == [node EXCEPT !.meta = Deleted]
           gone == SetNode(s, p, old)
           listed == node.listed \/ (IsDir(fs[p].meta) /\ WatchesChildren(node))
           new == Node(fs[p], node.watch, listed)
           e == Emit(s, p, changed)
           a == ApplyKnown(fs, s, p, flags)
<1>1. s.tree[p] \in AnyNode
  BY HasAny DEF Walker
<1>2. node \in AnyNode
  BY <1>1 DEF AnyNode, Marked
<1>3. old \in AnyNode
  BY <1>2 DEF AnyNode
<1>4. listed \in BOOLEAN
  BY <1>2, AnyKinds DEF WatchesChildren, IsDir
<1> HIDE DEF listed, node
<1>5. CASE Exists(fs, p)
  <2>1. fs[p].meta \in {Dir} \cup Files /\ fs[p].ino \in Ino \cup {RootIno}
    <3>1. fs[p].meta \in {Dir} \cup Files /\ fs[p].ino \in Inode /\ fs[p].ino # 0
      BY <1>5, DiskKinds, DiskIs, Kinds DEF DiskOf
    <3>2. QED BY <3>1 DEF Inode
  <2>2. new = [meta |-> fs[p].meta, ino |-> fs[p].ino, watch |-> node.watch, listed |-> listed]
    BY DEF Node
  <2>3. new \in AnyNode
    BY <1>2, <1>4, <2>1, <2>2, AnyKinds DEF AnyNode
  <2>4. changed \in EventType \cup {NoEvent}
    BY EventTypes
  <2> HIDE DEF changed, new
  <2>5. e \in Walker /\ e.tree = s.tree
    BY <2>4, EmitType
  <2>6. a.s = SetNode(e, p, new)
    BY <1>5 DEF ApplyKnown, changed, new, node, listed
  <2> HIDE DEF e, a
  <2>7. SetNode(e, p, new) \in Walker /\ Keeps(e.tree, SetNode(e, p, new).tree)
    BY <2>3, <2>5, SetNodeType
  <2>8. QED BY <2>5, <2>6, <2>7 DEF a
<1>6. CASE ~Exists(fs, p)
  <2> HIDE DEF old
  <2>1. gone \in Walker /\ Keeps(s.tree, gone.tree) /\ HasNode(gone.tree, p)
    BY <1>3, SetNodeType
  <2>2. a.s = CASE IsDir(node.meta) -> DeleteRec(gone, p) [] IsFile(node.meta) -> Emit(gone, p, "Delete") [] OTHER -> gone
    BY <1>6 DEF ApplyKnown, old, node
  <2> HIDE DEF gone, a
  <2>3. DeleteRec(gone, p) \in Walker /\ Keeps(s.tree, DeleteRec(gone, p).tree)
    BY <2>1, DeleteRecType DEF Keeps
  <2>4. Emit(gone, p, "Delete") \in Walker /\ Keeps(s.tree, Emit(gone, p, "Delete").tree)
    BY <2>1, EmitType, EventTypes
  <2>5. IsDir(node.meta) \/ IsFile(node.meta) \/ (~IsDir(node.meta) /\ ~IsFile(node.meta))
    BY DEF IsDir, IsFile
  <2>6. a.s \in {DeleteRec(gone, p), Emit(gone, p, "Delete"), gone}
    BY <2>2, <2>5, Zenon DEF IsDir, IsFile
  <2>7. QED BY <2>1, <2>3, <2>4, <2>6 DEF a
<1>7. QED BY <1>5, <1>6

LEMMA ApplyNewType ==
  ASSUME NEW fs \in Disk, NEW s \in Walker, NEW p \in Path, NEW flags
  PROVE  LET a == ApplyNew(fs, s, p, flags)
         IN  a.s \in Walker /\ Keeps(s.tree, a.s.tree)
<1> DEFINE recursive == "mark" \in flags \/ IsRecursive(s.tree[Parent(p)])
           ty == IF IsFile(fs[p].meta) THEN "Create" ELSE NoEvent
           e == Emit(s, p, ty)
           watch == Marked("none", recursive)
           listed == IsDir(fs[p].meta) /\ recursive
           new == Node(fs[p], watch, listed)
           a == ApplyNew(fs, s, p, flags)
<1>1. CASE Exists(fs, p) /\ p # Root /\ HasNode(s.tree, Parent(p))
  <2>1. fs[p].meta \in {Dir} \cup Files /\ fs[p].ino \in Ino \cup {RootIno}
    <3>1. fs[p].meta \in {Dir} \cup Files /\ fs[p].ino \in Inode /\ fs[p].ino # 0
      BY <1>1, DiskKinds, DiskIs, Kinds DEF DiskOf
    <3>2. QED BY <3>1 DEF Inode
  <2>2. watch \in {"none", "children", "recursive"} /\ listed \in BOOLEAN
    BY DEF Marked, IsDir, IsRecursive
  <2>3. e \in Walker /\ e.tree = s.tree
    BY EmitType, EventTypes
  <2>4. a.s = NewNode(e, p, new)
    BY <1>1 DEF ApplyNew
  <2> HIDE DEF watch, listed, e, a
  <2>5. new = [meta |-> fs[p].meta, ino |-> fs[p].ino, watch |-> watch, listed |-> listed]
    BY DEF Node
  <2>6. new \in AnyNode
    BY <2>1, <2>2, <2>5 DEF AnyNode
  <2> HIDE DEF new
  <2>7. QED BY <1>1, <2>3, <2>4, <2>6, NewNodeType DEF a
<1>2. CASE ~(Exists(fs, p) /\ p # Root /\ HasNode(s.tree, Parent(p)))
  <2>1. a.s = s
    BY <1>2 DEF ApplyNew
  <2>2. QED BY <2>1 DEF Keeps
<1>3. QED BY <1>1, <1>2

LEMMA ApplyChangeType ==
  ASSUME NEW fs \in Disk, NEW s \in Walker, NEW p \in Path, NEW flags
  PROVE  LET a == ApplyChange(fs, s, p, flags)
         IN  a.s \in Walker /\ Keeps(s.tree, a.s.tree)
BY ApplyKnownType, ApplyNewType DEF ApplyChange

LEMMA VisitType ==
  ASSUME NEW fs \in Disk, NEW s \in Walker, NEW p \in Path, NEW recursive
  PROVE  Visit(fs, p, s, recursive) \in Walker
<1> DEFINE a == ApplyChange(fs, s, p, CrawlFlags(recursive)).s
<1>1. a \in Walker
  BY ApplyChangeType
<1>2. Visit(fs, p, s, recursive) = IF IsDir(a.tree[p].meta) /\ recursive THEN AddWatch(a, p) ELSE a
  BY DEF Visit
<1> HIDE DEF a
<1>3. QED BY <1>1, <1>2, AddWatchType

LEMMA RemoveType ==
  ASSUME NEW t \in Trees, NEW s \in Walker, Keeps(t, s.tree), NEW q \in Path, HasNode(t, q)
  PROVE  ReportGone(q, s) \in Walker /\ Keeps(t, ReportGone(q, s).tree)
<1> DEFINE e == Emit(s, q, IF IsFile(s.tree[q].meta) THEN "Delete" ELSE NoEvent)
<1>1. e \in Walker /\ e.tree = s.tree
  BY EmitType, EventTypes
<1>2. ReportGone(q, s) = DeleteRec(e, q)
  BY DEF ReportGone
<1> HIDE DEF e
<1>3. HasNode(e.tree, q)
  BY <1>1 DEF Keeps
<1>4. QED BY <1>1, <1>2, <1>3, DeleteRecType DEF Keeps

LEMMA CrawlType ==
  ASSUME NEW fs \in Disk, NEW s \in Walker, NEW p \in Path
  PROVE  Crawl(fs, s, p) \in Walker
<1> DEFINE recursive == IsRecursive(s.tree[p])
           met == Walk(fs, p, recursive)
           b == AddWatch(s, p)
           after == Visited(fs, b, recursive, met)
           entered == {q \in met \cup {p} : /\ after.tree[q].listed
                                            /\ q = p \/ (IsDir(after.tree[q].meta) /\ recursive)}
           unvisited == (UNION {ChildNodes(after.tree, q) : q \in entered}) \ met
           X == {a \in Walker : Keeps(after.tree, a.tree)}
<1>1. Crawl(fs, s, p) = Removed(after, unvisited)
  BY CrawlFolds, Zenon
<1>2. met \in SUBSET Path
  BY DEF Walk, Under
<1>3. b \in Walker
  BY AddWatchType
<1>4. unvisited \in SUBSET Path /\ \A q \in unvisited : HasNode(after.tree, q)
  BY DEF ChildNodes, Under
<1> HIDE DEF met, unvisited, recursive, b
<1>5. VisitedIn(fs, recursive, b, met, Walker)
  BY <1>2, <1>3, VisitType DEF VisitedIn
<1>6. after \in Walker
  BY <1>5, VisitedStays
<1> HIDE DEF after
<1>7. after.tree \in Trees /\ after \in X
  BY <1>6 DEF Walker, Keeps
<1>8. \A q \in unvisited, a \in X : ReportGone(q, a) \in X
  BY <1>4, <1>7, RemoveType
<1> HIDE DEF X
<1>9. RemovedIn(after, unvisited, X)
  BY <1>4, <1>7, <1>8 DEF RemovedIn
<1>10. Removed(after, unvisited) \in X
  BY <1>9, RemovedStays
<1>11. QED BY <1>1, <1>10 DEF X

\* FileTree::apply_transaction.
LEMMA TransactionType ==
  ASSUME NEW fs \in Disk, NEW s \in Walker, NEW c
  PROVE  ApplyTransaction(fs, s, c) \in Walker
<1> DEFINE ps == {p \in Path : c[p] # "none"}
           X == [s : Walker, skip : SUBSET Path]
           b == [s |-> s, skip |-> {}]
<1>1. ApplyTransaction(fs, s, c) = Changed(fs, c, b, ps).s
  BY TransactionFolds
<1>2. ps \in SUBSET Path /\ b \in X
  OBVIOUS
<1> HIDE DEF ps, b
<1>3. \A p \in ps, x \in X : Change(fs, c, p, x) \in X
  <2> TAKE p \in ps, x \in X
  <2> DEFINE flags == {"origin"} \cup ({"crawl"} \cap {c[p]})
             a == ApplyChange(fs, x.s, p, flags)
             enter == HasNode(a.s.tree, p) /\ IsDir(a.s.tree[p].meta) /\ p \notin Ignored
             after == IF enter THEN Crawl(fs, a.s, p) ELSE a.s
  <2>1. x.s \in Walker /\ x.skip \in SUBSET Path /\ p \in Path
    BY <1>2
  <2>2. a.s \in Walker
    BY <2>1, ApplyChangeType
  <2>3. Change(fs, c, p, x) = IF Skipped(p, x.skip) THEN x
                              ELSE IF a.recurse THEN [s |-> after, skip |-> x.skip \cup {p}]
                                                ELSE [x EXCEPT !.s = a.s]
    BY Zenon DEF Change
  <2> HIDE DEF a, enter
  <2>4. after \in Walker
    BY <2>1, <2>2, CrawlType
  <2> HIDE DEF after
  <2>5. QED BY <2>1, <2>2, <2>3, <2>4
<1> HIDE DEF X
<1>4. ChangedIn(fs, c, b, ps, X)
  BY <1>2, <1>3 DEF ChangedIn
<1>5. Changed(fs, c, b, ps) \in X
  BY <1>4, ChangedStays
<1>6. QED BY <1>1, <1>5 DEF X
------------------------------------------------------------------------------
(* Type correctness of the watcher *)

NoteKind == {"CREATE", "MODIFY", "DELETE", "MOVED_FROM", "MOVED_TO", "MOVE_SELF", "IGNORED", "OVERFLOW"}

\* An event has one name at most.
Note == {e \in [kind : NoteKind, wd : Nat, path : Seq(Nat)] : Len(e.path) <= 1}
Kernels == [queue : Seq(Note), wd : [Inode -> Nat], last : Nat]
Changes == [flags : [Path -> {"none", "stat", "crawl"}], recrawl : BOOLEAN]

Overflowed(queue) == \E i \in DOMAIN queue : queue[i].kind = "OVERFLOW"

\* Only an overflow event may be one too many.
Bounded(queue) == /\ Len(queue) <= habit.queue + 1
                  /\ Len(queue) > habit.queue => Overflowed(queue)

Descriptors(w, last) == w \in [DOMAIN w -> Path] /\ DOMAIN w \subseteq 1 .. last

TypeInv ==
  /\ habit \in Habits /\ disk \in Disk
  /\ ops \in Nat /\ ops <= habit.max
  /\ kernel \in Kernels /\ Bounded(kernel.queue)
  /\ \A i \in Inode : kernel.wd[i] <= kernel.last
  /\ Descriptors(watches, kernel.last)
  /\ pending \in Changes /\ changes \in Changes
  /\ tree \in Trees /\ events \in EventMaps
  /\ known \in [Path -> Stamp \cup {NoFile}]

\* A queue takes what is new, or notes that it is full.
LEMMA PushMeans ==
  ASSUME NEW E, NEW queue \in Seq(E), NEW evs \in Seq(E), habit.queue \in Nat,
         [kind |-> "OVERFLOW", wd |-> 0, path |-> <<>>] \in E
  PROVE  LET q == Push(queue, evs)
         IN  /\ q \in Seq(E)
             /\ Overflowed(q) \/ q = queue \o evs
             /\ Overflowed(queue) => Overflowed(q)
             /\ Bounded(queue) => Bounded(q)
<1> DEFINE all == queue \o evs
           n == IF Len(queue) < habit.queue THEN habit.queue ELSE Len(queue)
           kept == SubSeq(all, 1, n)
           over == [kind |-> "OVERFLOW", wd |-> 0, path |-> <<>>]
<1>2. over \in E /\ over.kind = "OVERFLOW"
  OBVIOUS
<1> HIDE DEF over
<1>3. /\ all \in Seq(E) /\ Len(all) = Len(queue) + Len(evs) /\ Len(queue) \in Nat /\ Len(evs) \in Nat
      /\ \A i \in 1 .. Len(queue) : all[i] = queue[i]
  OBVIOUS
<1>4. DOMAIN queue = 1 .. Len(queue) /\ DOMAIN all = 1 .. Len(all)
  BY <1>3
<1> HIDE DEF all
<1>5. Overflowed(queue) => Overflowed(all)
  <2>1. \A i \in 1 .. Len(queue) : i \in 1 .. Len(all)
    BY <1>3
  <2>2. QED BY <1>3, <1>4, <2>1 DEF Overflowed
<1>6. CASE Len(all) <= habit.queue
  <2>1. Push(queue, evs) = all
    BY <1>6 DEF Push, all
  <2>2. Bounded(all)
    BY <1>3, <1>6 DEF Bounded
  <2>3. QED BY <1>3, <1>5, <2>1, <2>2 DEF all
<1>7. CASE ~(Len(all) <= habit.queue)
  <2>1. n \in Nat /\ n <= Len(all) /\ Len(queue) <= n
    BY <1>3, <1>7
  <2>2. Bounded(queue) => n <= habit.queue + 1 /\ (~Overflowed(queue) => n <= habit.queue)
    BY <1>3 DEF Bounded
  <2> HIDE DEF n
  <2>3. kept \in Seq(E) /\ Len(kept) = n /\ \A i \in 1 .. n : kept[i] = all[i]
    BY <1>3, <2>1
  <2> HIDE DEF kept
  <2>4. DOMAIN kept = 1 .. n
    BY <2>3
  <2>5. CASE Overflowed(queue)
    <3>1. Push(queue, evs) = kept
      BY <1>7, <2>5 DEF Push, Overflowed, kept, n, all
    <3>2. PICK i \in 1 .. Len(queue) : queue[i].kind = "OVERFLOW"
      BY <1>4, <2>5 DEF Overflowed
    <3>3. i \in 1 .. n
      BY <1>3, <2>1
    <3>4. Overflowed(kept)
      BY <1>3, <2>3, <2>4, <3>2, <3>3 DEF Overflowed
    <3>5. Bounded(queue) => Bounded(kept)
      BY <2>2, <2>3, <3>4 DEF Bounded
    <3>6. QED BY <2>3, <3>1, <3>4, <3>5
  <2>6. CASE ~Overflowed(queue)
    <3>1. Push(queue, evs) = Append(kept, over)
      BY <1>7, <2>6 DEF Push, Overflowed, kept, n, all, over
    <3>2. /\ Append(kept, over) \in Seq(E) /\ Len(Append(kept, over)) = n + 1
          /\ Append(kept, over)[n + 1] = over
      BY <1>2, <2>3
    <3>3. n + 1 \in DOMAIN Append(kept, over)
      BY <2>1, <3>2
    <3>4. Overflowed(Append(kept, over))
      BY <1>2, <3>2, <3>3 DEF Overflowed
    <3>5. Bounded(queue) => Bounded(Append(kept, over))
      BY <2>1, <2>2, <2>6, <3>2, <3>4 DEF Bounded
    <3>6. QED BY <2>6, <3>1, <3>2, <3>4, <3>5
  <2>7. QED BY <2>5, <2>6
<1>8. QED BY <1>6, <1>7

LEMMA NoteTypes ==
  ASSUME TypeInv, NEW p \in Path, NEW kind \in NoteKind
  PROVE  /\ p # Root => OfChild(kind, p) \in Seq(Note)
         /\ OfSelf(kind, p) \in Seq(Note)
<1>1. kernel.wd \in [Inode -> Nat]
  BY DEF TypeInv, Kernels
<1>2. \A q \in Path : kernel.wd[disk[q].ino] \in Nat
  BY <1>1, DiskKinds DEF TypeInv
<1>3. ASSUME p # Root PROVE OfChild(kind, p) \in Seq(Note)
  <2> DEFINE e == [kind |-> kind, wd |-> kernel.wd[disk[Parent(p)].ino], path |-> <<p[Len(p)]>>]
  <2>1. Len(p) \in Nat /\ Len(p) > 0 /\ Parent(p) \in Path
    BY <1>3, ParentMeans, PathTypes
  <2>2. Len(p) \in 1 .. Len(p)
    BY <2>1
  <2>3. p[Len(p)] \in Nat
    BY <2>2, PathTypes
  <2>4. e \in Note
    <3>1. ASSUME NEW n \in Nat PROVE <<n>> \in Seq(Nat) /\ Len(<<n>>) <= 1
      OBVIOUS
    <3>2. QED BY <1>2, <2>1, <2>3, <3>1 DEF Note
  <2>5. OfChild(kind, p) = <<>> \/ OfChild(kind, p) = <<e>>
    BY DEF OfChild
  <2> HIDE DEF e
  <2>6. <<>> \in Seq(Note) /\ <<e>> \in Seq(Note)
    BY <2>4
  <2>7. QED BY <2>5, <2>6
<1>4. OfSelf(kind, p) \in Seq(Note)
  <2> DEFINE e == [kind |-> kind, wd |-> kernel.wd[disk[p].ino], path |-> <<>>]
  <2>1. <<>> \in Seq(Nat)
    OBVIOUS
  <2>2. e \in Note
    BY <1>2, <2>1 DEF Note
  <2>3. OfSelf(kind, p) = <<>> \/ OfSelf(kind, p) = <<e>>
    BY DEF OfSelf
  <2> HIDE DEF e
  <2>4. <<>> \in Seq(Note) /\ <<e>> \in Seq(Note)
    BY <2>2
  <2>5. QED BY <2>3, <2>4
<1>5. QED BY <1>3, <1>4

\* What other programs do to the disk and to the kernel.
LEMMA OperationTypes ==
  ASSUME TypeInv, disk' \in Disk, ops < habit.max, ops' = ops + 1,
         UNCHANGED <<habit, watches, pending, changes, tree, events, known>>,
         NEW evs \in Seq(Note), NEW wd \in [Inode -> Nat], \A i \in Inode : wd[i] <= kernel.wd[i],
         kernel' = [queue |-> Push(kernel.queue, evs), wd |-> wd, last |-> kernel.last]
  PROVE  TypeInv'
<1>1. /\ kernel.queue \in Seq(Note) /\ kernel.wd \in [Inode -> Nat] /\ kernel.last \in Nat /\ Bounded(kernel.queue)
      /\ \A i \in Inode : kernel.wd[i] <= kernel.last
  BY DEF TypeInv, Kernels
<1>2. habit \in Habit
  BY HabitsAssumption DEF TypeInv
<1>3. habit.queue \in Nat /\ habit.max \in Nat
  BY <1>2 DEF Habit
<1>4. [kind |-> "OVERFLOW", wd |-> 0, path |-> <<>>] \in Note
  <2>1. <<>> \in Seq(Nat)
    OBVIOUS
  <2>2. QED BY <2>1 DEF Note, NoteKind
<1>5. Push(kernel.queue, evs) \in Seq(Note) /\ Bounded(Push(kernel.queue, evs))
  BY <1>1, <1>3, <1>4, PushMeans
<1>6. kernel' \in Kernels /\ Bounded(kernel'.queue) /\ kernel'.last = kernel.last /\ kernel'.wd = wd
  BY <1>1, <1>5 DEF Kernels
<1>7. \A i \in Inode : kernel'.wd[i] <= kernel'.last
  BY <1>1, <1>6
<1>8. Bounded(kernel.queue)'
  BY <1>6 DEF Bounded
<1>9. ops' \in Nat /\ ops' <= habit.max
  BY <1>3 DEF TypeInv
<1>10. QED BY <1>6, <1>7, <1>8, <1>9 DEF TypeInv

\* A disk that only other programs change, one operation at a time.
LEMMA OperationType ==
  ASSUME TypeInv, Operation
  PROVE  TypeInv'
<1>1. /\ disk \in Disk /\ kernel \in Kernels /\ DiskOf(disk)
      /\ kernel = [queue |-> kernel.queue, wd |-> kernel.wd, last |-> kernel.last]
      /\ kernel.wd \in [Inode -> Nat]
  BY DiskIs DEF TypeInv, Kernels
<1>2. habit \in Habit /\ habit.at \in SUBSET Path
  BY HabitsAssumption DEF TypeInv, Habit
<1>3. PICK p \in habit.at :
        \/ CreateFile(p) \/ WriteFile(p) \/ Unlink(p) \/ Symlink(p) \/ Mkdir(p) \/ Rmdir(p)
        \/ \E r \in habit.at : RenameFile(p, r) \/ RenameDir(p, r)
  BY DEF Operation
<1>4. p \in Path
  BY <1>2, <1>3
<1>5. disk[Root].meta = Dir
  BY <1>1, DiskShape
<1>6. ASSUME NEW op, Do(op), disk' \in Disk, NEW evs \in Seq(Note), Notifies(evs)
      PROVE  TypeInv'
  <2>1. kernel' = [queue |-> Push(kernel.queue, evs), wd |-> kernel.wd, last |-> kernel.last]
    BY <1>1, <1>6 DEF Notifies
  <2>2. ops < habit.max /\ ops' = ops + 1 /\ UNCHANGED <<habit, watches, pending, changes, tree, events, known>>
    BY <1>6 DEF Do
  <2>3. \A i \in Inode : kernel.wd[i] <= kernel.wd[i]
    BY <1>1
  <2>4. QED BY <1>1, <1>6, <2>1, <2>2, <2>3, OperationTypes
<1>7. \A kind \in NoteKind, q \in Path : /\ q # Root => OfChild(kind, q) \in Seq(Note)
                                         /\ OfSelf(kind, q) \in Seq(Note)
  BY NoteTypes
<1>8. \A q \in Path : Room(q) => q # Root
  BY DEF Room
<1>9. {"CREATE", "MODIFY", "DELETE", "MOVED_FROM", "MOVED_TO", "MOVE_SELF", "IGNORED"} \subseteq NoteKind
  BY DEF NoteKind
<1>10. CASE CreateFile(p)
  <2>1. Room(p) /\ Do("create") /\ Notifies(OfChild("CREATE", p))
    BY <1>10 DEF CreateFile
  <2>2. PICK i \in FreeIno, s \in Stamp : disk' = [disk EXCEPT ![p] = [meta |-> File(s), ino |-> i]]
    BY <1>10 DEF CreateFile
  <2>3. File(s) \in {Dir, Other} \cup Files
    BY Kinds
  <2>4. disk' \in Disk
    BY <1>1, <1>4, <2>1, <2>2, <2>3, DiskWith
  <2>5. QED BY <1>4, <1>6, <1>7, <1>8, <1>9, <2>1, <2>4
<1>11. CASE WriteFile(p)
  <2>1. IsFile(disk[p].meta) /\ Do("write") /\ Notifies(OfChild("MODIFY", p))
    BY <1>11 DEF WriteFile
  <2>2. PICK s \in Stamp : disk' = [disk EXCEPT ![p].meta = File(s)]
    BY <1>11 DEF WriteFile
  <2>3. File(s) \in Files
    BY Kinds
  <2>4. disk' \in Disk
    BY <1>1, <1>4, <2>1, <2>2, <2>3, DiskWritten
  <2>5. p # Root
    BY <1>5, <2>1, Kinds
  <2>6. QED BY <1>4, <1>6, <1>7, <1>9, <2>1, <2>4, <2>5
<1>12. CASE Unlink(p)
  <2>1. (IsFile(disk[p].meta) \/ disk[p].meta = Other) /\ Do("unlink") /\ Notifies(OfChild("DELETE", p))
        /\ disk' = [disk EXCEPT ![p] = Absent]
    BY <1>12 DEF Unlink
  <2>2. p # Root
    BY <1>5, <2>1, Kinds
  <2>3. ~IsDir(disk[p].meta)
    BY <1>1, <1>4, <2>1, DiskKinds, Kinds
  <2>4. \A q \in Under(p) : ~Listed(disk, q)
    BY <1>1, <1>4, <2>3, NothingBelow
  <2>5. disk' \in Disk
    BY <1>1, <1>4, <2>1, <2>2, <2>4, DiskWithout
  <2>6. QED BY <1>4, <1>6, <1>7, <1>9, <2>1, <2>2, <2>5
<1>13. CASE Symlink(p)
  <2>1. Room(p) /\ Do("symlink") /\ Notifies(OfChild("CREATE", p))
    BY <1>13 DEF Symlink
  <2>2. PICK i \in FreeIno : disk' = [disk EXCEPT ![p] = [meta |-> Other, ino |-> i]]
    BY <1>13 DEF Symlink
  <2>3. disk' \in Disk
    BY <1>1, <1>4, <2>1, <2>2, DiskWith
  <2>4. QED BY <1>4, <1>6, <1>7, <1>8, <1>9, <2>1, <2>3
<1>14. CASE Mkdir(p)
  <2>1. Room(p) /\ Do("mkdir") /\ Notifies(OfChild("CREATE", p))
    BY <1>14 DEF Mkdir
  <2>2. PICK i \in FreeIno : disk' = [disk EXCEPT ![p] = [meta |-> Dir, ino |-> i]]
    BY <1>14 DEF Mkdir
  <2>3. disk' \in Disk
    BY <1>1, <1>4, <2>1, <2>2, DiskWith
  <2>4. QED BY <1>4, <1>6, <1>7, <1>8, <1>9, <2>1, <2>3
<1>15. CASE Rmdir(p)
  <2> DEFINE evs == OfChild("DELETE", p) \o OfSelf("IGNORED", p)
             wd == [kernel.wd EXCEPT ![disk[p].ino] = 0]
  <2>1. /\ Do("rmdir") /\ p # Root /\ \A q \in Under(p) : ~Listed(disk, q)
        /\ disk' = [disk EXCEPT ![p] = Absent]
        /\ kernel' = [kernel EXCEPT !.queue = Push(@, evs), !.wd[disk[p].ino] = 0]
    BY <1>15 DEF Rmdir
  <2>2. disk' \in Disk
    BY <1>1, <1>4, <2>1, DiskWithout
  <2>3. evs \in Seq(Note)
    BY <1>4, <1>7, <1>9, <2>1
  <2> HIDE DEF evs
  <2>4. kernel' = [queue |-> Push(kernel.queue, evs), wd |-> wd, last |-> kernel.last]
    BY <1>1, <2>1
  <2>5. wd \in [Inode -> Nat] /\ \A i \in Inode : wd[i] <= kernel.wd[i]
    <3>1. \A i \in Inode : wd[i] \in {0, kernel.wd[i]}
      BY <1>1
    <3>2. wd \in [Inode -> Nat] /\ \A i \in Inode : kernel.wd[i] \in Nat
      BY <1>1
    <3> HIDE DEF wd
    <3>3. QED BY <3>1, <3>2
  <2>6. ops < habit.max /\ ops' = ops + 1 /\ UNCHANGED <<habit, watches, pending, changes, tree, events, known>>
    BY <2>1 DEF Do
  <2> HIDE DEF wd
  <2>7. QED BY <2>2, <2>3, <2>4, <2>5, <2>6, OperationTypes
<1>16. ASSUME NEW r \in habit.at, RenameFile(p, r) PROVE TypeInv'
  <2>1. /\ Do("rename_file") /\ p # r /\ IsFile(disk[p].meta) /\ (Room(r) \/ IsFile(disk[r].meta))
        /\ disk' = [disk EXCEPT ![r] = disk[p], ![p] = Absent]
        /\ Notifies(OfChild("MOVED_FROM", p) \o OfChild("MOVED_TO", r))
    BY <1>16 DEF RenameFile
  <2>2. r \in Path /\ p # Root /\ r # Root
    BY <1>2, <1>5, <1>8, <2>1, Kinds
  <2>3. disk' \in Disk
    BY <1>1, <1>4, <2>1, <2>2, DiskRenamed
  <2>4. OfChild("MOVED_FROM", p) \o OfChild("MOVED_TO", r) \in Seq(Note)
    BY <1>4, <1>7, <1>9, <2>2
  <2>5. QED BY <1>6, <2>1, <2>3, <2>4
<1>17. ASSUME NEW r \in habit.at, RenameDir(p, r) PROVE TypeInv'
  <2> DEFINE moves == {q \in Under(p) \cup {p} : Listed(disk, q)}
             evs == OfChild("MOVED_FROM", p) \o OfChild("MOVED_TO", r) \o OfSelf("MOVE_SELF", p)
  <2>1. /\ Do("rename_dir") /\ p # Root /\ IsDir(disk[p].meta) /\ Room(r) /\ r \notin Under(p)
        /\ \A q \in moves : Moved(p, r, q) \in habit.at
        /\ disk' = AfterMove(p, r, moves) /\ Notifies(evs)
    BY <1>17, Zenon DEF RenameDir, Moved, AfterMove
  <2>2. moves \in SUBSET Path /\ \A q \in Path : q \in moves <=> Within(q, p) /\ Listed(disk, q)
    BY <1>4 DEF Under, Within
  <2>3. r \in Path /\ r # Root
    BY <1>2, <1>8, <2>1
  <2>4. \A q \in moves : Moved(p, r, q) \in Path
    BY <1>2, <2>1
  <2> HIDE DEF moves
  <2>5. disk' \in Disk
    BY <1>1, <1>4, <2>1, <2>2, <2>3, <2>4, DiskMoved
  <2>6. evs \in Seq(Note)
    BY <1>4, <1>7, <1>9, <2>1, <2>3
  <2> HIDE DEF evs
  <2>7. QED BY <1>6, <2>1, <2>5, <2>6
<1>18. QED BY <1>3, <1>10, <1>11, <1>12, <1>13, <1>14, <1>15, <1>16, <1>17

------------------------------------------------------------------------------
(* The program's steps *)

LEMMA NoChanges ==
  /\ Nothing \in Changes /\ Recrawl \in Changes /\ ~Nothing.recrawl /\ Recrawl.recrawl
  /\ \A p \in Path : Nothing.flags[p] = "none" /\ Recrawl.flags[p] = "none"
BY DEF Nothing, Recrawl, Changes

LEMMA FlagType ==
  ASSUME NEW c \in Changes, NEW p, NEW now \in BOOLEAN
  PROVE  AddWatcher(c, p, now) \in Changes
<1>1. CASE c.recrawl \/ p \notin Path
  BY <1>1 DEF AddWatcher
<1>2. CASE ~(c.recrawl \/ p \notin Path)
  <2> DEFINE flag == IF now \/ c.flags[p] = "crawl" THEN "crawl" ELSE "stat"
  <2>1. AddWatcher(c, p, now) = [c EXCEPT !.flags = [c.flags EXCEPT ![p] = flag]]
    BY <1>2 DEF AddWatcher
  <2>2. flag \in {"none", "stat", "crawl"}
    OBVIOUS
  <2> HIDE DEF flag
  <2>3. c.flags \in [Path -> {"none", "stat", "crawl"}]
    BY DEF Changes
  <2>4. [c.flags EXCEPT ![p] = flag] \in [Path -> {"none", "stat", "crawl"}]
    BY <2>2, <2>3
  <2>5. QED BY <2>1, <2>4 DEF Changes
<1>3. QED BY <1>1, <1>2

LEMMA HandleEventType ==
  ASSUME TypeInv, HandleEvent
  PROVE  TypeInv'
<1> DEFINE e == Head(kernel.queue)
           dir == watches[e.wd]
           child == dir \o e.path
           less == Restrict(watches, DOMAIN watches \ {e.wd})
<1>1. /\ kernel.queue # <<>> /\ kernel' = [kernel EXCEPT !.queue = Tail(@)]
      /\ UNCHANGED <<habit, disk, ops, changes, tree, events, known>>
  BY DEF HandleEvent
<1>2. kernel \in Kernels /\ Bounded(kernel.queue) /\ kernel.queue \in Seq(Note)
  BY DEF TypeInv, Kernels
<1>3. habit.queue \in Nat
  BY HabitsAssumption DEF TypeInv, Habit
<1>4. /\ Tail(kernel.queue) \in Seq(Note) /\ Len(kernel.queue) \in Nat
      /\ Len(Tail(kernel.queue)) = Len(kernel.queue) - 1 /\ e \in Note
  BY <1>1, <1>2
<1>5. Bounded(Tail(kernel.queue))
  BY <1>2, <1>3, <1>4 DEF Bounded
<1>6. kernel' \in Kernels /\ kernel'.queue = Tail(kernel.queue) /\ kernel'.wd = kernel.wd /\ kernel'.last = kernel.last
  BY <1>1, <1>2, <1>4 DEF Kernels
<1> HIDE DEF e
<1>7. pending \in Changes /\ Descriptors(watches, kernel.last)
  BY DEF TypeInv
<1>8. e.wd \in DOMAIN watches => Descriptors(less, kernel.last)
  <2>1. DOMAIN less = DOMAIN watches \ {e.wd} /\ \A d \in DOMAIN less : less[d] = watches[d]
    BY DEF Restrict
  <2>2. less = [d \in DOMAIN less |-> less[d]]
    BY DEF Restrict
  <2> HIDE DEF less
  <2>3. \A d \in DOMAIN less : less[d] \in Path
    BY <1>7, <2>1 DEF Descriptors
  <2>4. less \in [DOMAIN less -> Path]
    BY <2>2, <2>3
  <2>5. DOMAIN less \subseteq 1 .. kernel.last
    BY <1>7, <2>1 DEF Descriptors
  <2>6. QED BY <2>4, <2>5 DEF Descriptors
<1> DEFINE now == e.kind \in {"CREATE", "DELETE"}
<1>9. now \in BOOLEAN
  OBVIOUS
<1> HIDE DEF less, dir, child, now
<1>10. AddWatcher(pending, dir, TRUE) \in Changes /\ AddWatcher(pending, child, now) \in Changes
  BY <1>7, <1>9, FlagType
<1>11. pending' \in Changes /\ Descriptors(watches', kernel.last)
  <2>1. CASE e.kind = "OVERFLOW"
    <3>1. pending' = Recrawl /\ watches' = watches
      BY <2>1 DEF HandleEvent, e
    <3>2. QED BY <1>7, <3>1, NoChanges
  <2>2. CASE e.kind # "OVERFLOW" /\ e.wd \notin DOMAIN watches
    <3>1. pending' \in {Recrawl, pending} /\ watches' = watches
      BY <2>2 DEF HandleEvent, e
    <3>2. QED BY <1>7, <3>1, NoChanges
  <2>3. CASE e.kind \in {"MOVE_SELF", "IGNORED"} /\ e.wd \in DOMAIN watches
    <3>1. pending' = AddWatcher(pending, dir, TRUE) /\ watches' \in {less, watches}
      BY <2>3 DEF HandleEvent, e, dir, less
    <3>2. QED BY <1>7, <1>8, <1>10, <2>3, <3>1
  <2>4. CASE e.kind \notin {"OVERFLOW", "MOVE_SELF", "IGNORED"} /\ e.wd \in DOMAIN watches
    <3>1. pending' \in {pending, AddWatcher(pending, child, now)} /\ watches' = watches
      BY <2>4 DEF HandleEvent, e, dir, child, now
    <3>2. QED BY <1>7, <1>10, <3>1
  <2>5. QED BY <2>1, <2>2, <2>3, <2>4
<1>12. Bounded(kernel.queue)' /\ Descriptors(watches, kernel.last)'
  BY <1>1, <1>5, <1>6, <1>11 DEF Bounded, Descriptors
<1>13. QED BY <1>1, <1>6, <1>11, <1>12 DEF TypeInv

LEMMA TakePendingType ==
  ASSUME TypeInv, TakePending
  PROVE  TypeInv'
<1>1. /\ changes' = pending /\ pending' = Nothing
      /\ UNCHANGED <<habit, disk, ops, kernel, watches, tree, events, known>>
  BY DEF TakePending
<1>2. Bounded(kernel.queue)' /\ Descriptors(watches, kernel.last)'
  BY <1>1 DEF TypeInv, Bounded, Descriptors
<1>3. QED BY <1>1, <1>2, NoChanges DEF TypeInv

\* What a watch is added to.
WatchState == {w \in [wd : [Inode -> Nat], last : Nat, watches : UNION {[D -> Path] : D \in SUBSET (Nat \ {0})}] :
                 (\A i \in Inode : w.wd[i] <= w.last) /\ DOMAIN w.watches \subseteq 1 .. w.last}

LEMMA Typed ==
  ASSUME NEW w, NEW last \in Nat
  PROVE  Descriptors(w, last) <=> /\ w \in UNION {[D -> Path] : D \in SUBSET (Nat \ {0})}
                                  /\ DOMAIN w \subseteq 1 .. last
<1>1. ASSUME Descriptors(w, last) PROVE w \in UNION {[D -> Path] : D \in SUBSET (Nat \ {0})}
  <2>1. DOMAIN w \in SUBSET (Nat \ {0}) /\ w \in [DOMAIN w -> Path]
    BY <1>1 DEF Descriptors
  <2>2. QED BY <2>1
<1>2. ASSUME w \in UNION {[D -> Path] : D \in SUBSET (Nat \ {0})} PROVE w \in [DOMAIN w -> Path]
  BY <1>2
<1>3. QED BY <1>1, <1>2 DEF Descriptors

LEMMA WatchDirType ==
  ASSUME NEW fs \in Disk, NEW p \in Path, NEW w \in WatchState
  PROVE  WatchDir(fs, p, w) \in WatchState
<1> DEFINE i == fs[p].ino
           d == IF w.wd[i] = 0 THEN w.last + 1 ELSE w.wd[i]
           last == IF w.wd[i] = 0 THEN d ELSE w.last
           wd == [w.wd EXCEPT ![i] = d]
           map == Inserted(w.watches, d, p)
<1>1. /\ w.wd \in [Inode -> Nat] /\ w.last \in Nat /\ \A j \in Inode : w.wd[j] <= w.last
      /\ Descriptors(w.watches, w.last)
  BY Typed DEF WatchState
<1>2. i \in Inode
  BY DiskKinds
<1> HIDE DEF i
<1>3. d \in Nat /\ d # 0 /\ last \in Nat /\ w.last <= last /\ d <= last
  <2>1. w.wd[i] \in Nat /\ w.wd[i] <= w.last
    BY <1>1, <1>2
  <2>2. QED BY <1>1, <2>1
<1>4. CASE ~IsDir(fs[p].meta)
  BY <1>4 DEF WatchDir
<1>5. CASE IsDir(fs[p].meta)
  <2>1. WatchDir(fs, p, w) = [wd |-> wd, last |-> last, watches |-> map]
    BY <1>5 DEF WatchDir, i
  <2> HIDE DEF d, last
  <2>2. wd \in [Inode -> Nat] /\ \A j \in Inode : wd[j] <= last
    <3>1. \A j \in Inode : wd[j] \in {d, w.wd[j]} /\ w.wd[j] \in Nat /\ w.wd[j] <= w.last
      BY <1>1
    <3>2. wd \in [Inode -> Nat]
      BY <1>1, <1>3
    <3> HIDE DEF wd
    <3>3. QED BY <1>1, <1>3, <3>1, <3>2
  <2>3. DOMAIN map = DOMAIN w.watches \cup {d} /\ map \in [DOMAIN map -> Path]
    BY <1>1 DEF Inserted, Descriptors
  <2> HIDE DEF map, wd
  <2>4. Descriptors(map, last)
    BY <1>1, <1>3, <2>3 DEF Descriptors
  <2>5. map \in UNION {[D -> Path] : D \in SUBSET (Nat \ {0})} /\ DOMAIN map \subseteq 1 .. last
    BY <1>3, <2>4, Typed
  <2>6. QED BY <1>3, <2>1, <2>2, <2>5 DEF WatchState
<1>6. QED BY <1>4, <1>5

LEMMA WatchDirsFolds ==
  ASSUME NEW ps, WatchDirs(ps)
  PROVE  LET w == Watching(disk, [wd |-> kernel.wd, last |-> kernel.last, watches |-> watches], ps)
         IN  kernel' = [kernel EXCEPT !.wd = w.wd, !.last = w.last] /\ watches' = w.watches
BY Zenon DEF WatchDirs, Watching

LEMMA ReconcileType ==
  ASSUME TypeInv, Reconcile
  PROVE  TypeInv'
<1> DEFINE s == [tree |-> tree, events |-> events, watched |-> {}]
           t == IF changes.recrawl THEN Crawl(disk, s, Root) ELSE ApplyTransaction(disk, s, changes.flags)
           b == [wd |-> kernel.wd, last |-> kernel.last, watches |-> watches]
           w == Watching(disk, b, t.watched)
<1>1. /\ tree' = t.tree /\ events' = t.events /\ WatchDirs(t.watched)
      /\ changes' = Nothing /\ UNCHANGED <<habit, disk, ops, pending, known>>
  BY Zenon DEF Reconcile
<1>2. disk \in Disk /\ s \in Walker
  BY DEF TypeInv, Walker
<1> HIDE DEF s
<1>3. t \in Walker
  BY <1>2, CrawlType, TransactionType, PathAssumption
<1> HIDE DEF t
<1>4. t.watched \in SUBSET Path /\ t.tree \in Trees /\ t.events \in EventMaps
  BY <1>3 DEF Walker
<1>5. kernel' = [kernel EXCEPT !.wd = w.wd, !.last = w.last] /\ watches' = w.watches
  BY <1>1, WatchDirsFolds
<1>6. kernel.queue \in Seq(Note) /\ kernel.wd \in [Inode -> Nat] /\ kernel.last \in Nat /\ Bounded(kernel.queue)
      /\ kernel = [queue |-> kernel.queue, wd |-> kernel.wd, last |-> kernel.last]
  BY DEF TypeInv, Kernels
<1>7. b \in WatchState
  BY <1>6, Typed DEF WatchState, TypeInv
<1> HIDE DEF b
<1>8. WatchingIn(disk, b, t.watched, WatchState)
  BY <1>2, <1>4, <1>7, WatchDirType DEF WatchingIn
<1>9. w \in WatchState
  BY <1>8, WatchingStays
<1> HIDE DEF w
<1>10. w.wd \in [Inode -> Nat] /\ w.last \in Nat /\ (\A i \in Inode : w.wd[i] <= w.last) /\ Descriptors(w.watches, w.last)
  BY <1>9, Typed DEF WatchState
<1>11. kernel' \in Kernels /\ kernel'.queue = kernel.queue /\ kernel'.wd = w.wd /\ kernel'.last = w.last
  BY <1>5, <1>6, <1>10 DEF Kernels
<1>12. Bounded(kernel.queue)' /\ Descriptors(watches, kernel.last)'
  BY <1>1, <1>5, <1>6, <1>10, <1>11 DEF Bounded, Descriptors
<1>13. QED BY <1>1, <1>4, <1>10, <1>11, <1>12, NoChanges DEF TypeInv

LEMMA DeliverType ==
  ASSUME TypeInv, Deliver
  PROVE  TypeInv'
<1>1. /\ events' = [p \in Path |-> NoEvent]
      /\ UNCHANGED <<habit, disk, ops, kernel, watches, pending, changes, tree>>
  BY DEF Deliver
<1>2. known' = [p \in Path |->
                 CASE events[p] = NoEvent -> known[p]
                   [] Present(events[p]) /\ IsFile(tree[p].meta) -> tree[p].meta.stamp
                   [] Present(events[p]) /\ ~IsFile(tree[p].meta) -> known[p]
                   [] OTHER -> NoFile]
  BY DEF Deliver
<1>3. ASSUME NEW p \in Path PROVE known'[p] \in Stamp \cup {NoFile}
  <2>1. known[p] \in Stamp \cup {NoFile} /\ (IsFile(tree[p].meta) => tree[p].meta.stamp \in Stamp)
    <3>1. tree[p] \in AnyNode \cup {NoNode} /\ known[p] \in Stamp \cup {NoFile}
      BY DEF TypeInv, Trees
    <3>2. QED BY <3>1, AnyKinds, Kinds
  <2>2. known'[p] \in {known[p], NoFile} \/ (IsFile(tree[p].meta) /\ known'[p] = tree[p].meta.stamp)
    <3>1. CASE events[p] = NoEvent
      BY <1>2, <3>1 DEF Present, NoEvent
    <3>2. CASE events[p] # NoEvent /\ Present(events[p])
      BY <1>2, <3>2
    <3>3. CASE events[p] # NoEvent /\ ~Present(events[p])
      BY <1>2, <3>3
    <3>4. QED BY <3>1, <3>2, <3>3
  <2>3. QED BY <2>1, <2>2
<1>4. known' \in [Path -> Stamp \cup {NoFile}]
  BY <1>2, <1>3
<1>5. events' \in EventMaps
  BY <1>1 DEF EventMaps
<1>6. Bounded(kernel.queue)' /\ Descriptors(watches, kernel.last)'
  BY <1>1 DEF TypeInv, Bounded, Descriptors
<1>7. QED BY <1>1, <1>4, <1>5, <1>6 DEF TypeInv

------------------------------------------------------------------------------
(* The start *)

LEMMA Sequenced ==
  ASSUME NEW S, IsFiniteSet(S)
  PROVE  /\ SetToSeq(S) \in [1 .. Cardinality(S) -> S] /\ Cardinality(S) \in Nat
         /\ \A i, j \in 1 .. Cardinality(S) : SetToSeq(S)[i] = SetToSeq(S)[j] => i = j
         /\ \A x \in S : \E i \in 1 .. Cardinality(S) : SetToSeq(S)[i] = x
<1> DEFINE n == Cardinality(S)
<1>1. n \in Nat /\ ExistsBijection(1 .. n, S)
  BY FS_CardinalityType
<1>2. PICK f \in Bijection(1 .. n, S) : TRUE
  BY <1>1 DEF ExistsBijection
<1>3. f \in [1 .. n -> S] /\ \A i, j \in 1 .. n : f[i] = f[j] => i = j
  BY <1>2 DEF Bijection, Injection, IsInjective
<1>4. \E g \in [1 .. n -> S] : IsInjective(g)
  BY <1>3 DEF IsInjective
<1>5. SetToSeq(S) \in [1 .. n -> S] /\ IsInjective(SetToSeq(S))
  BY <1>4 DEF SetToSeq
<1>6. SetToSeq(S) \in Injection(1 .. n, S)
  BY <1>5 DEF Injection
<1>7. IsFiniteSet(1 .. n) /\ Cardinality(1 .. n) = n
  BY <1>1, FS_Interval
<1>8. SetToSeq(S) \in Surjection(1 .. n, S)
  BY <1>6, <1>7, FS_Injection
<1>9. \A x \in S : \E i \in 1 .. n : SetToSeq(S)[i] = x
  BY <1>8 DEF Surjection
<1>10. QED BY <1>1, <1>5, <1>9 DEF IsInjective


\* add_root's answer, for the invariants that speak of it.
LEMMA Started ==
  ASSUME NEW h \in Habits, Start(h)
  PROVE  /\ habit = h /\ disk = h.disk /\ disk \in Disk /\ ops = 0 /\ h \in Habit
         /\ pending = Nothing /\ changes = Nothing /\ events = [p \in Path |-> NoEvent] /\ known = WatchedFiles
         /\ \E lost \in CutOff(disk, Walk(disk, Root, h.recursive)) :
              LET dirs == CrawledDirs(disk, h.recursive, lost) IN
              /\ tree = CrawledTree(disk, h.recursive, lost)
              /\ dirs \in SUBSET Path
              /\ kernel.queue = <<>> /\ kernel.wd \in [Inode -> Nat] /\ kernel \in Kernels
              /\ watches \in [1 .. kernel.last -> dirs] /\ DOMAIN watches = 1 .. kernel.last
              /\ \A c, d \in DOMAIN watches : watches[c] = watches[d] => c = d
              /\ \A p \in dirs : \E d \in DOMAIN watches : watches[d] = p
              /\ \A i \in Inode : kernel.wd[i] # 0 => kernel.wd[i] \in DOMAIN watches /\ disk[watches[kernel.wd[i]]].ino = i
              /\ \A p \in dirs : kernel.wd[disk[p].ino] # 0
<1>1. PICK lost \in CutOff(h.disk, Walk(h.disk, Root, h.recursive)) :
        LET dirs == CrawledDirs(h.disk, h.recursive, lost) IN
        /\ habit = h /\ disk = h.disk
        /\ watches = SetToSeq(dirs)
        /\ kernel = [queue |-> <<>>, last |-> Len(watches),
                     wd |-> [i \in Ino \cup {0, RootIno} |->
                               IF \E p \in dirs : disk[p].ino = i
                                 THEN CHOOSE d \in DOMAIN watches : disk[watches[d]].ino = i ELSE 0]]
        /\ ops = 0
        /\ pending = Nothing /\ changes = Nothing
        /\ tree = CrawledTree(h.disk, h.recursive, lost)
        /\ events = [p \in Path |-> NoEvent]
        /\ known = WatchedFiles
  BY DEF Start
<1> DEFINE dirs == CrawledDirs(disk, h.recursive, lost)
           n == Cardinality(dirs)
<1>2. habit = h /\ disk = h.disk /\ h \in Habit /\ disk \in Disk
  BY <1>1, HabitsAssumption DEF Habit
<1>3. /\ watches = SetToSeq(dirs)
      /\ kernel = [queue |-> <<>>, last |-> Len(watches),
                   wd |-> [i \in Inode |-> IF \E p \in dirs : disk[p].ino = i
                                             THEN CHOOSE d \in DOMAIN watches : disk[watches[d]].ino = i ELSE 0]]
      /\ ops = 0 /\ pending = Nothing /\ changes = Nothing
      /\ events = [p \in Path |-> NoEvent] /\ known = WatchedFiles
      /\ tree = CrawledTree(disk, h.recursive, lost)
  BY <1>1, <1>2 DEF Inode
<1>4. lost \in CutOff(disk, Walk(disk, Root, h.recursive))
  BY <1>1, <1>2
<1>5. dirs \in SUBSET Path
  BY PathAssumption DEF CrawledDirs, Met, Walk, Under
<1> HIDE DEF dirs
<1>6. /\ watches \in [1 .. n -> dirs] /\ n \in Nat
      /\ \A c, d \in 1 .. n : watches[c] = watches[d] => c = d
      /\ \A p \in dirs : \E d \in 1 .. n : watches[d] = p
  <2>1. IsFiniteSet(dirs)
    BY <1>5, PathAssumption, FS_Subset
  <2>2. QED BY <1>3, <2>1, Sequenced
<1> HIDE DEF n
<1>7. Len(watches) = n /\ DOMAIN watches = 1 .. n
  <2>1. watches \in Seq(dirs)
    BY <1>6, SeqDef
  <2>2. Len(watches) \in Nat /\ DOMAIN watches = 1 .. Len(watches) /\ DOMAIN watches = 1 .. n
    BY <1>6, <2>1
  <2>3. QED BY <1>6, <2>2
<1>8. /\ kernel.queue = <<>> /\ kernel.last = n /\ kernel.wd \in [Inode -> Nat]
      /\ \A i \in Inode : kernel.wd[i] # 0 => kernel.wd[i] \in 1 .. n /\ disk[watches[kernel.wd[i]]].ino = i
      /\ \A p \in dirs : kernel.wd[disk[p].ino] # 0
  <2>1. ASSUME NEW i \in Inode, NEW p \in dirs, disk[p].ino = i
        PROVE  kernel.wd[i] \in 1 .. n /\ disk[watches[kernel.wd[i]]].ino = i
    <3>1. \E d \in DOMAIN watches : disk[watches[d]].ino = i
      BY <1>6, <1>7, <2>1
    <3>2. kernel.wd[i] = CHOOSE d \in DOMAIN watches : disk[watches[d]].ino = i
      BY <1>3, <2>1
    <3>3. QED BY <1>7, <3>1, <3>2
  <2>2. ASSUME NEW i \in Inode, ~\E p \in dirs : disk[p].ino = i
        PROVE  kernel.wd[i] = 0
    BY <1>3, <2>2
  <2>3. \A p \in dirs : disk[p].ino \in Inode
    BY <1>2, <1>5, DiskKinds
  <2>4. \A i \in Inode : kernel.wd[i] \in Nat
    BY <1>6, <2>1, <2>2
  <2>5. kernel.queue = <<>> /\ kernel.last = n /\ kernel.wd = [i \in Inode |-> kernel.wd[i]]
    BY <1>3, <1>7
  <2>6. kernel.wd \in [Inode -> Nat]
    BY <2>4, <2>5
  <2>7. \A i \in Inode : kernel.wd[i] # 0 => kernel.wd[i] \in 1 .. n /\ disk[watches[kernel.wd[i]]].ino = i
    BY <2>1, <2>2
  <2>8. \A p \in dirs : kernel.wd[disk[p].ino] # 0
    BY <1>6, <2>1, <2>3
  <2>9. QED BY <2>5, <2>6, <2>7, <2>8
<1>9. kernel \in Kernels
  <2>1. <<>> \in Seq(Note) /\ kernel = [queue |-> kernel.queue, wd |-> kernel.wd, last |-> kernel.last]
    BY <1>3
  <2>2. QED BY <1>6, <1>8, <2>1 DEF Kernels
<1>10. /\ tree = CrawledTree(disk, h.recursive, lost)
       /\ dirs \in SUBSET Path
       /\ kernel.queue = <<>> /\ kernel.wd \in [Inode -> Nat] /\ kernel \in Kernels
       /\ watches \in [1 .. kernel.last -> dirs] /\ DOMAIN watches = 1 .. kernel.last
       /\ \A c, d \in DOMAIN watches : watches[c] = watches[d] => c = d
       /\ \A p \in dirs : \E d \in DOMAIN watches : watches[d] = p
       /\ \A i \in Inode : kernel.wd[i] # 0 => kernel.wd[i] \in DOMAIN watches /\ disk[watches[kernel.wd[i]]].ino = i
       /\ \A p \in dirs : kernel.wd[disk[p].ino] # 0
  <2>1. watches \in [1 .. kernel.last -> dirs] /\ DOMAIN watches = 1 .. kernel.last
    BY <1>6, <1>7, <1>8, Zenon
  <2>2. /\ \A c, d \in DOMAIN watches : watches[c] = watches[d] => c = d
        /\ \A p \in dirs : \E d \in DOMAIN watches : watches[d] = p
        /\ \A i \in Inode : kernel.wd[i] # 0 => kernel.wd[i] \in DOMAIN watches /\ disk[watches[kernel.wd[i]]].ino = i
    BY <1>6, <1>7, <1>8, Zenon
  <2>3. QED BY <1>3, <1>5, <1>8, <1>9, <2>1, <2>2, Zenon
<1>11. QED BY <1>2, <1>3, <1>4, <1>10 DEF dirs

LEMMA InitType ==
  ASSUME Init
  PROVE  TypeInv
<1>1. PICK h \in Habits : Start(h)
  BY DEF Init
<1>2. /\ habit = h /\ disk = h.disk /\ disk \in Disk /\ ops = 0 /\ h \in Habit
      /\ pending = Nothing /\ changes = Nothing /\ events = [p \in Path |-> NoEvent] /\ known = WatchedFiles
  BY <1>1, Started
<1>3. PICK lost \in CutOff(disk, Walk(disk, Root, h.recursive)) :
        LET dirs == CrawledDirs(disk, h.recursive, lost) IN
        /\ tree = CrawledTree(disk, h.recursive, lost)
        /\ dirs \in SUBSET Path
        /\ kernel.queue = <<>> /\ kernel \in Kernels
        /\ watches \in [1 .. kernel.last -> dirs] /\ DOMAIN watches = 1 .. kernel.last
        /\ \A i \in Inode : kernel.wd[i] # 0 => kernel.wd[i] \in DOMAIN watches
  BY <1>1, Started
<1>4. h.recursive \in BOOLEAN /\ h.max \in Nat /\ h.queue \in Nat
  BY <1>2 DEF Habit
<1>5. tree \in Trees
  <2>1. \A p \in Path : p \in {Root} \cup Met(disk, h.recursive, lost) =>
                          Exists(disk, p) /\ disk[p].meta \in {Dir} \cup Files /\ disk[p].ino \in Ino \cup {RootIno}
    <3> TAKE p \in Path
    <3> HAVE p \in {Root} \cup Met(disk, h.recursive, lost)
    <3>1. Exists(disk, p)
      BY <1>2, DiskShape DEF Met
    <3>2. disk[p].meta \in {Dir} \cup Files /\ disk[p].ino \in Inode /\ disk[p].ino # 0
      BY <1>2, <3>1, DiskKinds, DiskIs, Kinds DEF DiskOf
    <3>3. QED BY <3>1, <3>2 DEF Inode
  <2>2. ASSUME NEW p \in Path, p \in {Root} \cup Met(disk, h.recursive, lost)
        PROVE  Added(disk, p, h.recursive) \in AnyNode
    <3> DEFINE watch == CASE h.recursive -> "recursive" [] ~h.recursive /\ p = Root -> "children" [] OTHER -> "none"
               listed == IsDir(disk[p].meta) /\ (h.recursive \/ p = Root)
    <3>1. watch \in {"none", "children", "recursive"}
      BY <1>4
    <3>2. listed \in BOOLEAN
      BY DEF IsDir
    <3>3. Added(disk, p, h.recursive) = [meta |-> disk[p].meta, ino |-> disk[p].ino, watch |-> watch, listed |-> listed]
      BY DEF Added, Node
    <3> HIDE DEF watch, listed
    <3>4. QED BY <2>1, <2>2, <3>1, <3>2, <3>3 DEF AnyNode
  <2>3. \A p \in Path : tree[p] \in AnyNode \cup {NoNode}
    BY <1>3, <2>2 DEF CrawledTree
  <2>4. QED BY <1>3, <2>3 DEF CrawledTree, Trees
<1>6. Descriptors(watches, kernel.last)
  BY <1>3 DEF Descriptors
<1>7. \A i \in Inode : kernel.wd[i] <= kernel.last
  <2>1. \A i \in Inode : kernel.wd[i] \in Nat /\ kernel.last \in Nat
    BY <1>3 DEF Kernels
  <2>2. QED BY <1>3, <2>1
<1>8. Bounded(kernel.queue)
  BY <1>2, <1>3, <1>4 DEF Bounded
<1>9. events \in EventMaps
  BY <1>2 DEF EventMaps
<1>10. known \in [Path -> Stamp \cup {NoFile}]
  <2>1. \A p \in Path : IsFile(disk[p].meta) => disk[p].meta.stamp \in Stamp
    BY <1>2, DiskKinds, Kinds
  <2>2. QED BY <1>2, <2>1 DEF WatchedFiles
<1>11. QED BY <1>2, <1>3, <1>4, <1>5, <1>6, <1>7, <1>8, <1>9, <1>10, NoChanges DEF TypeInv

LEMMA TypeInvStep ==
  ASSUME TypeInv, [Next]_vars
  PROVE  TypeInv'
<1>1. CASE UNCHANGED vars
  <2>1. UNCHANGED <<habit, disk, ops, kernel, watches, pending, changes, tree, events, known>>
    BY <1>1 DEF vars
  <2>2. Bounded(kernel.queue)' /\ Descriptors(watches, kernel.last)'
    BY <2>1 DEF TypeInv, Bounded, Descriptors
  <2>3. QED BY <2>1, <2>2 DEF TypeInv
<1>2. QED BY <1>1, OperationType, HandleEventType, TakePendingType, ReconcileType, DeliverType DEF Next, Program

LEMMA TypeMeans ==
  ASSUME TypeInv
  PROVE  TypeOK
<1>1. habit.max \in Nat /\ ops \in 0 .. habit.max
  BY HabitsAssumption DEF TypeInv, Habit
<1>2. kernel.wd \in [Ino \cup {0, RootIno} -> 0 .. kernel.last] /\ Len(kernel.queue) <= habit.queue + 1
  <2>1. kernel.wd \in [Inode -> Nat] /\ kernel.last \in Nat /\ \A i \in Inode : kernel.wd[i] <= kernel.last
    BY DEF TypeInv, Kernels
  <2>2. \A i \in Inode : kernel.wd[i] \in 0 .. kernel.last
    BY <2>1
  <2>3. QED BY <2>1, <2>2 DEF TypeInv, Bounded, Inode
<1>3. \A q \in {pending, changes} : q.flags \in [Path -> {"none", "stat", "crawl"}] /\ q.recrawl \in BOOLEAN
  BY DEF TypeInv, Changes
<1>4. \A p \in Path : \/ ~HasNode(tree, p)
                      \/ /\ tree[p].meta \in {Dir, Deleted} \cup {File(s) : s \in Stamp}
                         /\ tree[p].ino \in Ino \cup {RootIno}
                         /\ tree[p].watch \in {"none", "children", "recursive"}
                         /\ tree[p].listed \in BOOLEAN
  BY HasAny, AnyKinds DEF TypeInv, Files
<1>5. QED BY <1>1, <1>2, <1>3, <1>4 DEF TypeInv, TypeOK, Descriptors, EventMaps

\* Type correctness, for everything that other programs do, a directory's move
\* with all that is below it included: the disk stays a tree in which every inode
\* is at one path, the kernel's queue holds one event more than its limit at most,
\* a descriptor is never one that the kernel has not given, and a node of the file
\* tree has the inode of something (tree.rs:413-454, inotify.rs:134-145).
THEOREM TypeCorrect == Spec => []TypeOK
<1>1. Init => TypeInv
  BY InitType
<1>2. TypeInv /\ [Next]_vars => TypeInv'
  BY TypeInvStep
<1>3. QED BY <1>1, <1>2, TypeMeans, PTL DEF Spec

------------------------------------------------------------------------------
(* While things only appear *)

\* Other programs only make and write files, directories and links; at the start
\* there were no links.
Grows == /\ habit.recursive /\ habit.ops \subseteq {"create", "write", "mkdir", "symlink"}
         /\ \A p \in Path : habit.disk[p].meta # Other

\* Neither p nor a directory above it is ignored.
Visible(p) == \A q \in Path \ {Root} : q = p \/ p \in Under(q) => q \notin Ignored

TreeNode == [meta : {Dir} \cup Files, ino : Inode, watch : {"recursive"}, listed : BOOLEAN]
Event == {e \in [kind : {"CREATE", "MODIFY", "OVERFLOW"}, wd : Nat, path : Seq(Nat)] :
            e.kind # "OVERFLOW" => Len(e.path) = 1}
Kernel == [queue : Seq(Event), wd : [Inode -> Nat], last : Nat]
GrownTrees == [Path -> TreeNode \cup {NoNode}]
GrownEvents == [Path -> {NoEvent, "Create", "Modified"}]

GrowTypes ==
  /\ habit \in Habits /\ disk \in Disk
  /\ kernel \in Kernel
  /\ watches \in [DOMAIN watches -> Path] /\ DOMAIN watches \subseteq Nat \ {0}
  /\ pending \in Changes /\ changes \in Changes
  /\ tree \in GrownTrees /\ events \in GrownEvents
  /\ known \in [Path -> Stamp \cup {NoFile}]

\* The tree t has nothing that the disk has not.
NodesIn(t) ==
  /\ HasNode(t, Root)
  /\ \A p \in Path : HasNode(t, p) =>
       /\ Exists(disk, p) /\ Visible(p) /\ (IsDir(t[p].meta) <=> IsDir(disk[p].meta))
       /\ \A q \in Path : p \in Under(q) => HasNode(t, q) /\ IsDir(t[q].meta)

\* What a handler has not been told is in the debouncer.
KnownIn(t, ev) ==
  \A p \in Path :
    /\ ev[p] # NoEvent => IsFile(t[p].meta)
    /\ ev[p] = NoEvent => known[p] = IF IsFile(t[p].meta) THEN t[p].meta.stamp ELSE NoFile

\* A descriptor is that of one inode, and stands for the path of that.
Fits(w) ==
  /\ \A i, j \in Inode : w.wd[i] <= w.last /\ (w.wd[i] = w.wd[j] /\ w.wd[i] # 0 => i = j)
  /\ \A d \in DOMAIN w.watches : /\ Visible(w.watches[d]) /\ IsDir(disk[w.watches[d]].meta)
                                 /\ w.wd[disk[w.watches[d]].ino] = d
MappedIn(w, p) == LET d == w.wd[disk[p].ino] IN d \in DOMAIN w.watches /\ w.watches[d] = p

Descriptions == [wd |-> kernel.wd, last |-> kernel.last, watches |-> watches]
Mapped(p) == MappedIn(Descriptions, p)

\* A directory of the tree is watched, but for those of M.
DirsMappedBut(M) ==
  \A p \in Path : HasNode(tree, p) /\ IsDir(tree[p].meta) => Mapped(p) \/ p \in M

FlagsVisible ==
  \A c \in {pending, changes} : \A p \in Path : c.flags[p] # "none" => p # Root /\ Visible(p)

\* What a tree may not know of p ...
Knows(t, p) == HasNode(t, p) /\ t[p].meta = disk[p].meta
OwedIn(t, p) == Exists(disk, p) /\ Visible(p) /\ HasNode(t, Parent(p))

\* ... is told by an event, or is pending ...
Told(p) == \E i \in DOMAIN kernel.queue :
             LET e == kernel.queue[i] IN e.wd \in DOMAIN watches /\ watches[e.wd] \o e.path = p /\ e.kind # "OVERFLOW"
Flagged(p) == pending.flags[p] # "none" \/ changes.flags[p] # "none"

\* ... or everything will be looked at.
RecrawlDue == pending.recrawl \/ changes.recrawl \/ Overflowed(kernel.queue)

\* But for the paths of V.
AccountedBut(V) ==
  RecrawlDue \/ \A p \in Path \ {Root} :
                  OwedIn(tree, p) => Knows(tree, p) \/ Told(p) \/ Flagged(p) \/ p \in V

\* M and V are what a running crawl is going to watch and to visit; there are none
\* where a crawl is one step.
GrowBase(M, V) ==
  /\ GrowTypes /\ NodesIn(tree) /\ Fits(Descriptions) /\ DirsMappedBut(M) /\ FlagsVisible
  /\ KnownIn(tree, events) /\ AccountedBut(V)

LEMMA VisibleParent ==
  \A p \in Path \ {Root} : Visible(p) <=> p \notin Ignored /\ Visible(Parent(p))
<1> TAKE p \in Path \ {Root}
<1>1. Parent(p) \in Path
  BY ParentMeans
<1>2. \A q \in Path \ {Root} : p \in Under(q) <=> (Parent(p) = q \/ Parent(p) \in Under(q))
  BY UnderParent
<1>3. QED BY <1>1, <1>2 DEF Visible

LEMMA RootVisible == Visible(Root)
<1>1. \A q \in Path : Root \notin Under(q)
  BY PathAssumption, UnderParent
<1>2. QED BY <1>1 DEF Visible

\* What is below a visible path is visible if nothing on the way there is ignored.
LEMMA BelowVisible ==
  ASSUME NEW p \in Path, Visible(p), NEW q \in Under(p)
  PROVE  Visible(q) <=> \A r \in Under(p) : (r = q \/ q \in Under(r)) => r \notin Ignored
<1>1. ASSUME NEW r \in Path, q \in Under(r)
      PROVE  r = p \/ r \in Under(p) \/ p \in Under(r)
  <2>1. q \in Path /\ Len(p) \in Nat /\ Len(r) \in Nat
    BY PathTypes DEF Under
  <2>2. (\A i \in 1 .. Len(p) : p[i] = q[i]) /\ (\A i \in 1 .. Len(r) : r[i] = q[i])
    BY <1>1, <2>1, UnderMeans
  <2>3. CASE Len(r) < Len(p)
    <3>1. \A i \in 1 .. Len(r) : i \in 1 .. Len(p)
      BY <2>1, <2>3
    <3>2. QED BY <2>2, <2>3, <3>1, UnderMeans
  <2>4. CASE Len(p) < Len(r)
    <3>1. \A i \in 1 .. Len(p) : i \in 1 .. Len(r)
      BY <2>1, <2>4
    <3>2. QED BY <2>2, <2>4, <3>1, UnderMeans
  <2>5. CASE Len(p) = Len(r)
    BY <2>2, <2>5, PathTypes, SeqEqual
  <2>6. QED BY <2>1, <2>3, <2>4, <2>5
<1>2. Under(p) \subseteq Path \ {Root}
  <2>1. Root \notin Under(p)
    BY PathAssumption, UnderParent
  <2>2. QED BY <2>1 DEF Under
<1>3. ASSUME NEW r \in Path \ {Root}, r = q \/ q \in Under(r), r \notin Under(p) PROVE r \notin Ignored
  <2>1. r # q
    BY <1>3
  <2>2. r = p \/ p \in Under(r)
    BY <1>1, <1>3, <2>1
  <2>3. QED BY <2>2 DEF Visible
<1>4. QED BY <1>2, <1>3 DEF Visible

\* What a walk from a visible path meets is what is visible below it.
LEMMA WalkMeets ==
  ASSUME NEW p \in Path, Visible(p)
  PROVE  Walk(disk, p, TRUE) = {q \in Under(p) : Listed(disk, q) /\ Visible(q)}
BY BelowVisible DEF Walk

LEMMA NodeKinds ==
  /\ \A n \in TreeNode : /\ n # NoNode /\ (IsDir(n.meta) <=> n.meta = Dir) /\ (IsFile(n.meta) <=> n.meta \in Files)
                         /\ n.meta \in {Dir} \cup Files /\ n.watch = "recursive"
                         /\ n.ino \in Inode /\ n.listed \in BOOLEAN
  /\ ~IsDir(NoNode.meta) /\ ~IsFile(NoNode.meta)
<1>1. ~IsDir(NoNode.meta) /\ ~IsFile(NoNode.meta) /\ NoNode.meta.kind = "NoNode"
  BY DEF NoNode, Node, IsDir, IsFile
<1>2. \A m \in {Dir} \cup Files : m.kind # "NoNode"
  BY DEF Dir, Files, File
<1>3. \A n \in TreeNode : n.meta \in {Dir} \cup Files /\ n.ino \in Inode /\ n.watch = "recursive" /\ n.listed \in BOOLEAN
  BY DEF TreeNode
<1>4. QED BY <1>1, <1>2, <1>3, Kinds

LEMMA TreeTypes ==
  ASSUME NEW t \in GrownTrees
  PROVE  \A p \in Path : /\ t[p] \in TreeNode \cup {NoNode}
                         /\ HasNode(t, p) <=> t[p] \in TreeNode
                         /\ ~HasNode(t, p) => t[p] = NoNode
BY NodeKinds DEF GrownTrees, HasNode

\* What Merge and ChangeType come to as long as no file goes away.
LEMMA GrowingEvents ==
  /\ \A ty \in {"Create", "Modified"} : Merge(ty, "Modified") \in {"Create", "Modified"}
  /\ NoEvent \notin {"Create", "Modified"} /\ \A ty \in {"Create", "Modified"} : ty # NoEvent
  /\ \A old, new \in {Dir} \cup Files, skip \in BOOLEAN : (IsDir(old) <=> IsDir(new)) =>
       /\ ChangeType(old, new, skip) \in {NoEvent, "Modified"}
       /\ ChangeType(old, new, skip) = NoEvent => IsDir(old) \/ old = new
       /\ ChangeType(old, new, skip) = "Modified" => IsFile(new)
<1>1. /\ \A ty \in {"Create", "Modified"} : Merge(ty, "Modified") \in {"Create", "Modified"}
      /\ NoEvent \notin {"Create", "Modified"} /\ \A ty \in {"Create", "Modified"} : ty # NoEvent
  BY DEF Merge, NoEvent
<1>2. ASSUME NEW old \in {Dir} \cup Files, NEW new \in {Dir} \cup Files, NEW skip \in BOOLEAN, IsDir(old) <=> IsDir(new)
      PROVE  /\ ChangeType(old, new, skip) \in {NoEvent, "Modified"}
             /\ ChangeType(old, new, skip) = NoEvent => IsDir(old) \/ old = new
             /\ ChangeType(old, new, skip) = "Modified" => IsFile(new)
  <2>1. CASE old = Dir
    <3>1. ~IsFile(old) /\ ~IsFile(new)
      BY <1>2, <2>1, Kinds
    <3>2. ChangeType(old, new, skip) = NoEvent
      BY <3>1 DEF ChangeType
    <3>3. QED BY <2>1, <3>2, Kinds DEF NoEvent
  <2>2. CASE old \in Files
    <3>1. IsFile(old) /\ IsFile(new)
      BY <1>2, <2>2, Kinds
    <3>2. ChangeType(old, new, skip) = IF ~skip /\ old = new THEN NoEvent ELSE "Modified"
      BY <3>1 DEF ChangeType
    <3>3. QED BY <3>1, <3>2 DEF NoEvent
  <2>3. QED BY <2>1, <2>2
<1>3. QED BY <1>1, <1>2

------------------------------------------------------------------------------
(* What apply_change does while things only appear *)

Grower == [tree : GrownTrees, events : GrownEvents, watched : SUBSET Path]

\* What holds of the tree and the events at every moment of a crawl.
Sound(a) == /\ NodesIn(a.tree) /\ KnownIn(a.tree, a.events)
            /\ \A q \in a.watched : HasNode(a.tree, q) /\ IsDir(a.tree[q].meta)

\* What Emit does to the events: nothing but at p, where one is held from then on.
LEMMA Emitted ==
  ASSUME NEW s \in Grower, NEW p \in Path, NEW ty \in {NoEvent, "Create", "Modified"},
         ty = "Create" => s.events[p] = NoEvent
  PROVE  LET e == Emit(s, p, ty)
         IN  /\ e = [tree |-> s.tree, events |-> e.events, watched |-> s.watched]
             /\ e.events \in GrownEvents
             /\ \A q \in Path \ {p} : e.events[q] = s.events[q]
             /\ ty = NoEvent => e.events[p] = s.events[p]
             /\ ty # NoEvent => e.events[p] # NoEvent
<1> DEFINE e == Emit(s, p, ty)
           held == IF s.events[p] = NoEvent THEN ty ELSE Merge(s.events[p], ty)
<1>1. /\ s.events \in [Path -> {NoEvent, "Create", "Modified"}]
      /\ s = [tree |-> s.tree, events |-> s.events, watched |-> s.watched]
  BY DEF Grower, GrownEvents
<1>2. CASE ty = NoEvent
  BY <1>1, <1>2 DEF Emit, GrownEvents
<1>3. CASE ty # NoEvent
  <2>1. held \in {"Create", "Modified"}
    BY <1>1, <1>3, GrowingEvents
  <2>2. e = [s EXCEPT !.events = [s.events EXCEPT ![p] = held]]
    BY <1>3 DEF Emit
  <2> HIDE DEF held, e
  <2>3. [s.events EXCEPT ![p] = held] \in GrownEvents
    BY <1>1, <2>1 DEF GrownEvents
  <2>4. held # NoEvent
    BY <2>1, GrowingEvents
  <2>5. e = [tree |-> s.tree, events |-> [s.events EXCEPT ![p] = held], watched |-> s.watched]
    BY <1>1, <2>2
  <2>6. QED BY <1>1, <1>3, <2>3, <2>4, <2>5 DEF e
<1>4. QED BY <1>2, <1>3

\* The tree gets to know p as it is on the disk, if the parent has a node, and the
\* rest of the tree stays.
Applied(s, r, recurse, p) ==
  /\ r \in Grower /\ r.watched = s.watched
  /\ \A q \in Path \ {p} : (HasNode(r.tree, q) <=> HasNode(s.tree, q)) /\ r.tree[q].meta = s.tree[q].meta
  /\ HasNode(r.tree, p) <=> HasNode(s.tree, p) \/ (Exists(disk, p) /\ HasNode(s.tree, Parent(p)))
  /\ HasNode(r.tree, p) => r.tree[p].meta = disk[p].meta
  /\ ~HasNode(r.tree, p) => r.tree[p] = s.tree[p]
  /\ recurse \in BOOLEAN /\ (~HasNode(s.tree, p) => recurse)
  /\ \A q \in Path \ {p} : r.events[q] = s.events[q]
  /\ r.events[p] # NoEvent => IsFile(r.tree[p].meta)
  /\ r.events[p] = NoEvent => /\ s.events[p] = NoEvent
                              /\ r.tree[p].meta = s.tree[p].meta \/ (~IsFile(r.tree[p].meta) /\ ~IsFile(s.tree[p].meta))

LEMMA ApplyKnownGrows ==
  ASSUME disk \in Disk, NEW s \in Grower, NodesIn(s.tree), KnownIn(s.tree, s.events),
         NEW p \in Path, NEW flags, HasNode(s.tree, p)
  PROVE  LET a == ApplyKnown(disk, s, p, flags)
         IN  Applied(s, a.s, a.recurse, p)
<1> DEFINE a == ApplyKnown(disk, s, p, flags)
           node == [s.tree[p] EXCEPT !.watch = Marked(@, "mark" \in flags)]
           inode_changed == disk[p].ino # node.ino
           skip == inode_changed \/ "origin" \in flags
           changed == ChangeType(node.meta, disk[p].meta, skip)
           e == Emit(s, p, changed)
           listed == node.listed \/ (IsDir(disk[p].meta) /\ WatchesChildren(node))
           new == Node(disk[p], node.watch, listed)
<1>1. s.tree \in GrownTrees /\ s.tree[p] \in TreeNode
  BY TreeTypes DEF Grower
<1>2. /\ Exists(disk, p) /\ disk[p].meta \in {Dir} \cup Files /\ disk[p].ino \in Inode
      /\ IsDir(s.tree[p].meta) <=> IsDir(disk[p].meta)
  BY <1>1, DiskKinds DEF NodesIn
<1>3. node = s.tree[p]
  BY <1>1 DEF Marked, TreeNode
<1>4. /\ s.tree[p].meta \in {Dir} \cup Files /\ skip \in BOOLEAN /\ s.tree[p].watch = "recursive"
      /\ s.tree[p].listed \in BOOLEAN
  BY <1>1, NodeKinds
<1>5. /\ changed \in {NoEvent, "Modified"}
      /\ changed = NoEvent => IsDir(s.tree[p].meta) \/ s.tree[p].meta = disk[p].meta
      /\ changed = "Modified" => IsFile(disk[p].meta)
  <2> HIDE DEF skip
  <2>1. changed = ChangeType(s.tree[p].meta, disk[p].meta, skip)
    BY <1>3
  <2>2. QED BY <1>2, <1>4, <2>1, GrowingEvents
<1> HIDE DEF skip, changed
<1>6. new \in TreeNode /\ new.meta = disk[p].meta
  <2>1. listed \in BOOLEAN
    BY <1>3, <1>4 DEF WatchesChildren, IsDir
  <2>2. new = [meta |-> disk[p].meta, ino |-> disk[p].ino, watch |-> "recursive", listed |-> listed]
    BY <1>3, <1>4 DEF Node
  <2> HIDE DEF listed
  <2>3. QED BY <1>2, <2>1, <2>2 DEF TreeNode
<1>7. a = [s |-> SetNode(e, p, new), recurse |-> NeedsCrawl("crawl" \in flags, inode_changed, changed) /\ WatchesChildren(node)]
  BY <1>2 DEF ApplyKnown, changed, skip
<1>8. /\ e = [tree |-> s.tree, events |-> e.events, watched |-> s.watched]
      /\ e.events \in GrownEvents
      /\ \A q \in Path \ {p} : e.events[q] = s.events[q]
      /\ changed = NoEvent => e.events[p] = s.events[p]
      /\ changed # NoEvent => e.events[p] # NoEvent
  <2>1. changed \in {NoEvent, "Create", "Modified"} /\ (changed = "Create" => s.events[p] = NoEvent)
    BY <1>5 DEF NoEvent
  <2>2. QED BY <2>1, Emitted
<1> HIDE DEF new, node, inode_changed, e
<1>9. SetNode(e, p, new) = [tree |-> [s.tree EXCEPT ![p] = new], events |-> e.events, watched |-> s.watched]
  <2>1. SetNode(e, p, new) = [e EXCEPT !.tree = [s.tree EXCEPT ![p] = new]]
    BY <1>8 DEF SetNode
  <2>2. QED BY <1>8, <2>1
<1>10. /\ a.recurse \in BOOLEAN
       /\ a.s = [tree |-> [s.tree EXCEPT ![p] = new], events |-> e.events, watched |-> s.watched]
  BY <1>7, <1>9 DEF NeedsCrawl, WatchesChildren
<1> HIDE DEF a
<1>11. /\ a.s.tree \in GrownTrees /\ a.s.tree[p] = new /\ \A q \in Path \ {p} : a.s.tree[q] = s.tree[q]
       /\ a.s.events = e.events /\ a.s.watched = s.watched
  BY <1>1, <1>6, <1>10 DEF GrownTrees
<1>12. HasNode(a.s.tree, p)
  BY <1>6, <1>11, NodeKinds DEF HasNode
<1>13. a.s.events[p] # NoEvent => IsFile(a.s.tree[p].meta)
  <2>1. CASE changed = NoEvent
    <3>1. s.events[p] # NoEvent => IsFile(s.tree[p].meta)
      BY DEF KnownIn
    <3>2. IsFile(s.tree[p].meta) <=> IsFile(disk[p].meta)
      BY <1>2, <1>4, Kinds
    <3>3. QED BY <1>6, <1>8, <1>11, <2>1, <3>1, <3>2
  <2>2. CASE changed # NoEvent
    BY <1>5, <1>6, <1>11, <2>2
  <2>3. QED BY <2>1, <2>2
<1>14. a.s.events[p] = NoEvent => s.events[p] = NoEvent /\ a.s.tree[p].meta = s.tree[p].meta
  <2>1. ASSUME a.s.events[p] = NoEvent PROVE changed = NoEvent /\ s.events[p] = NoEvent
    BY <1>8, <1>11, <2>1
  <2>2. changed = NoEvent => s.tree[p].meta = disk[p].meta
    BY <1>2, <1>4, <1>5, Kinds
  <2>3. QED BY <1>6, <1>11, <2>1, <2>2
<1>15. \A q \in Path \ {p} : HasNode(a.s.tree, q) <=> HasNode(s.tree, q)
  BY <1>11 DEF HasNode
<1>16. a.s \in Grower
  BY <1>8, <1>10, <1>11 DEF Grower
<1>17. QED BY <1>6, <1>8, <1>10, <1>11, <1>12, <1>13, <1>14, <1>15, <1>16 DEF Applied, a

LEMMA ApplyNewGrows ==
  ASSUME disk \in Disk, NEW s \in Grower, NodesIn(s.tree), KnownIn(s.tree, s.events),
         NEW p \in Path \ {Root}, NEW flags, ~HasNode(s.tree, p)
  PROVE  LET a == ApplyNew(disk, s, p, flags)
         IN  Applied(s, a.s, a.recurse, p)
<1> DEFINE a == ApplyNew(disk, s, p, flags)
           d == Parent(p)
           recursive == "mark" \in flags \/ IsRecursive(s.tree[d])
           ty == IF IsFile(disk[p].meta) THEN "Create" ELSE NoEvent
           e == Emit(s, p, ty)
           new == Node(disk[p], Marked("none", recursive), IsDir(disk[p].meta) /\ recursive)
<1>1. s.tree \in GrownTrees /\ s.tree[p] = NoNode /\ d \in Path /\ d # p
  BY TreeTypes, ParentMeans, NotUnderItself DEF Grower
<1>2. s.events \in [Path -> {NoEvent, "Create", "Modified"}] /\ s.events[p] = NoEvent
  BY <1>1, NodeKinds DEF KnownIn, Grower, GrownEvents
<1>3. CASE Exists(disk, p) /\ HasNode(s.tree, d)
  <2>1. disk[p].meta \in {Dir} \cup Files /\ disk[p].ino \in Inode /\ s.tree[d] \in TreeNode
    BY <1>1, <1>3, DiskKinds, TreeTypes
  <2>2. recursive = TRUE
    BY <2>1, NodeKinds DEF IsRecursive
  <2>3. new \in TreeNode /\ new.meta = disk[p].meta
    <3> DEFINE listed == IsDir(disk[p].meta) /\ recursive
               watch == Marked("none", recursive)
    <3>1. listed \in BOOLEAN
      BY DEF IsDir
    <3>2. watch = "recursive"
      BY <2>2 DEF Marked
    <3> HIDE DEF listed, watch
    <3>3. new = [meta |-> disk[p].meta, ino |-> disk[p].ino, watch |-> "recursive", listed |-> listed]
      BY <3>2 DEF Node, listed, watch
    <3>4. QED BY <2>1, <3>1, <3>3 DEF TreeNode
  <2>4. /\ e = [tree |-> s.tree, events |-> e.events, watched |-> s.watched]
        /\ e.events \in GrownEvents
        /\ \A q \in Path \ {p} : e.events[q] = s.events[q]
        /\ ty = NoEvent => e.events[p] = s.events[p]
        /\ ty # NoEvent => e.events[p] # NoEvent
    <3>1. ty \in {NoEvent, "Create", "Modified"}
      OBVIOUS
    <3> HIDE DEF ty
    <3>2. QED BY <1>2, <3>1, Emitted
  <2>5. a = [s |-> NewNode(e, p, new), recurse |-> TRUE]
    BY <1>1, <1>3, <2>2 DEF ApplyNew
  <2> DEFINE dir == [s.tree[d] EXCEPT !.listed = TRUE]
             t == [s.tree EXCEPT ![d] = dir]
  <2>6. dir \in TreeNode /\ dir.meta = s.tree[d].meta
    BY <2>1 DEF TreeNode
  <2> HIDE DEF new, e, ty, recursive
  <2>7. NewNode(e, p, new) = [tree |-> [t EXCEPT ![p] = new], events |-> e.events, watched |-> s.watched]
    <3> DEFINE f == [e EXCEPT !.tree[d].listed = TRUE]
    <3>1. f = [tree |-> t, events |-> e.events, watched |-> s.watched]
      <4>1. f = [e EXCEPT !.tree = [e.tree EXCEPT ![d].listed = TRUE]]
        OBVIOUS
      <4>2. e.tree = s.tree
        BY <2>4
      <4>3. f = [e EXCEPT !.tree = t]
        BY <4>1, <4>2
      <4> HIDE DEF t, f
      <4>4. QED BY <2>4, <4>3
    <3>2. NewNode(e, p, new) = [f EXCEPT !.tree[p] = new]
      BY DEF NewNode, SetNode
    <3> HIDE DEF f, t
    <3>3. QED BY <3>1, <3>2
  <2>8. a.recurse = TRUE /\ a.s = [tree |-> [t EXCEPT ![p] = new], events |-> e.events, watched |-> s.watched]
    BY <2>5, <2>7
  <2> HIDE DEF a, dir
  <2>9. /\ a.s.tree \in GrownTrees /\ a.s.tree[p] = new /\ a.s.tree[d] = dir
        /\ \A q \in Path \ {p, d} : a.s.tree[q] = s.tree[q]
        /\ a.s.events = e.events /\ a.s.watched = s.watched
    BY <1>1, <2>3, <2>6, <2>8 DEF GrownTrees
  <2>10. HasNode(a.s.tree, p) /\ HasNode(a.s.tree, d)
    BY <2>3, <2>6, <2>9, NodeKinds DEF HasNode
  <2>11. \A q \in Path \ {p} : (HasNode(a.s.tree, q) <=> HasNode(s.tree, q)) /\ a.s.tree[q].meta = s.tree[q].meta
    <3> TAKE q \in Path \ {p}
    <3>1. CASE q = d
      BY <1>3, <2>6, <2>9, <2>10, <3>1
    <3>2. CASE q # d
      BY <2>9, <3>2 DEF HasNode
    <3>3. QED BY <3>1, <3>2
  <2>12. a.s.events[p] # NoEvent => IsFile(a.s.tree[p].meta)
    BY <1>2, <2>3, <2>4, <2>9 DEF ty
  <2>13. a.s.events[p] = NoEvent => ~IsFile(a.s.tree[p].meta) /\ ~IsFile(s.tree[p].meta)
    <3>1. ty = NoEvent => ~IsFile(disk[p].meta)
      BY DEF ty, NoEvent
    <3>2. QED BY <1>1, <2>3, <2>4, <2>9, <3>1, NodeKinds
  <2>14. /\ HasNode(a.s.tree, p) <=> HasNode(s.tree, p) \/ (Exists(disk, p) /\ HasNode(s.tree, Parent(p)))
         /\ HasNode(a.s.tree, p) => a.s.tree[p].meta = disk[p].meta
         /\ ~HasNode(a.s.tree, p) => a.s.tree[p] = s.tree[p]
    BY <1>3, <2>3, <2>9, <2>10
  <2>15. /\ a.s \in Grower /\ a.s.watched = s.watched
         /\ \A q \in Path \ {p} : a.s.events[q] = s.events[q]
    BY <2>4, <2>8, <2>9 DEF Grower
  <2>16. a.recurse \in BOOLEAN /\ a.recurse
    BY <2>8
  <2>17. QED BY <1>2, <2>9, <2>11, <2>12, <2>13, <2>14, <2>15, <2>16, Zenon DEF Applied, a
<1>4. CASE ~(Exists(disk, p) /\ HasNode(s.tree, d))
  <2>1. a = [s |-> s, recurse |-> TRUE]
    BY <1>4 DEF ApplyNew
  <2>2. a.s = s /\ a.recurse = TRUE
    BY <2>1
  <2> HIDE DEF a
  <2>3. QED BY <1>1, <1>2, <1>4, <2>2 DEF Applied, a
<1>5. QED BY <1>3, <1>4

LEMMA ApplyChangeGrows ==
  ASSUME disk \in Disk, NEW s \in Grower, NodesIn(s.tree), KnownIn(s.tree, s.events),
         NEW p \in Path \ {Root}, NEW flags
  PROVE  LET a == ApplyChange(disk, s, p, flags)
         IN  Applied(s, a.s, a.recurse, p)
BY ApplyKnownGrows, ApplyNewGrows DEF ApplyChange

\* What that does to the tree.
LEMMA AppliedMeans ==
  ASSUME disk \in Disk, NEW s \in Grower, Sound(s), NEW p \in Path \ {Root}, Visible(p), NEW recurse, NEW r,
         Applied(s, r, recurse, p)
  PROVE  /\ r \in Grower /\ Sound(r) /\ r.watched = s.watched
         /\ \A q \in Path : HasNode(s.tree, q) => HasNode(r.tree, q) /\ (IsDir(r.tree[q].meta) <=> IsDir(s.tree[q].meta))
         /\ \A q \in Path : Knows(s.tree, q) => Knows(r.tree, q)
         /\ \A q \in Path \ {p} : (HasNode(r.tree, q) <=> HasNode(s.tree, q)) /\ r.tree[q].meta = s.tree[q].meta
         /\ OwedIn(s.tree, p) => Knows(r.tree, p)
<1>1. /\ r \in Grower /\ r.watched = s.watched
      /\ \A q \in Path \ {p} : (HasNode(r.tree, q) <=> HasNode(s.tree, q)) /\ r.tree[q].meta = s.tree[q].meta
      /\ HasNode(r.tree, p) <=> HasNode(s.tree, p) \/ (Exists(disk, p) /\ HasNode(s.tree, Parent(p)))
      /\ HasNode(r.tree, p) => r.tree[p].meta = disk[p].meta
      /\ \A q \in Path \ {p} : r.events[q] = s.events[q]
      /\ r.events[p] # NoEvent => IsFile(r.tree[p].meta)
      /\ r.events[p] = NoEvent => /\ s.events[p] = NoEvent
                                  /\ r.tree[p].meta = s.tree[p].meta \/ (~IsFile(r.tree[p].meta) /\ ~IsFile(s.tree[p].meta))
  BY DEF Applied
<1>2. NodesIn(s.tree) /\ KnownIn(s.tree, s.events) /\ Parent(p) \in Path /\ p \in Under(Parent(p))
  BY ParentMeans DEF Sound
<1>3. \A q \in Path : HasNode(s.tree, q) => HasNode(r.tree, q) /\ (IsDir(r.tree[q].meta) <=> IsDir(s.tree[q].meta))
  <2> TAKE q \in Path
  <2>1. CASE q = p
    BY <1>1, <1>2, <2>1 DEF NodesIn
  <2>2. CASE q # p
    BY <1>1, <2>2
  <2>3. QED BY <2>1, <2>2
<1>4. HasNode(r.tree, Root)
  BY <1>1, <1>2, PathAssumption DEF NodesIn
<1>5. ASSUME NEW q \in Path, HasNode(r.tree, q)
      PROVE  /\ Exists(disk, q) /\ Visible(q) /\ (IsDir(r.tree[q].meta) <=> IsDir(disk[q].meta))
             /\ \A u \in Path : q \in Under(u) => HasNode(r.tree, u) /\ IsDir(r.tree[u].meta)
  <2>1. CASE HasNode(s.tree, q)
    BY <1>2, <1>3, <2>1 DEF NodesIn
  <2>2. CASE ~HasNode(s.tree, q)
    <3>1. q = p /\ Exists(disk, p) /\ HasNode(s.tree, Parent(p))
      BY <1>1, <1>5, <2>2
    <3>2. IsDir(r.tree[q].meta) <=> IsDir(disk[q].meta)
      BY <1>1, <1>5, <3>1
    <3>3. IsDir(s.tree[Parent(p)].meta)
      <4>1. Listed(disk, p)
        BY <1>2, <3>1, DiskKinds, Kinds
      <4>2. IsDir(disk[Parent(p)].meta)
        BY <1>2, <4>1, DiskShape
      <4>3. QED BY <1>2, <3>1, <4>2 DEF NodesIn
    <3>4. ASSUME NEW u \in Path, p \in Under(u)
          PROVE  HasNode(s.tree, u) /\ IsDir(s.tree[u].meta)
      <4>1. Parent(p) = u \/ Parent(p) \in Under(u)
        BY <3>4, UnderParent
      <4>2. QED BY <1>2, <3>1, <3>3, <4>1 DEF NodesIn
    <3>5. QED BY <1>3, <3>1, <3>2, <3>4
  <2>3. QED BY <2>1, <2>2
<1>6. NodesIn(r.tree)
  BY <1>4, <1>5 DEF NodesIn
<1>7. KnownIn(r.tree, r.events)
  <2> SUFFICES ASSUME NEW q \in Path
               PROVE  /\ r.events[q] # NoEvent => IsFile(r.tree[q].meta)
                      /\ r.events[q] = NoEvent => known[q] = IF IsFile(r.tree[q].meta) THEN r.tree[q].meta.stamp ELSE NoFile
    BY DEF KnownIn
  <2>1. CASE q = p
    BY <1>1, <1>2, <2>1 DEF KnownIn
  <2>2. CASE q # p
    BY <1>1, <1>2, <2>2 DEF KnownIn
  <2>3. QED BY <2>1, <2>2
<1>8. Sound(r)
  <2>1. s.watched \subseteq Path
    BY DEF Grower
  <2>2. QED BY <1>1, <1>3, <1>6, <1>7, <2>1 DEF Sound
<1>9. \A q \in Path : Knows(s.tree, q) => Knows(r.tree, q)
  BY <1>1 DEF Knows
<1>10. OwedIn(s.tree, p) => Knows(r.tree, p)
  BY <1>1 DEF Knows, OwedIn
<1>11. QED BY <1>1, <1>3, <1>8, <1>9, <1>10

------------------------------------------------------------------------------
(* Crawls and transactions while things only appear *)

\* From a to r no node is lost, what is known stays known, what is new to the tree
\* is known with all that is in it, and new directories are watched.
Grown(a, r) ==
  /\ \A q \in Path : HasNode(a.tree, q) => HasNode(r.tree, q) /\ (IsDir(r.tree[q].meta) <=> IsDir(a.tree[q].meta))
  /\ \A q \in Path : Knows(a.tree, q) => Knows(r.tree, q)
  /\ \A q \in Path \ {Root} : OwedIn(r.tree, q) => Knows(r.tree, q) \/ OwedIn(a.tree, q)
  /\ a.watched \subseteq r.watched
  /\ \A q \in Path : HasNode(r.tree, q) /\ IsDir(r.tree[q].meta) => HasNode(a.tree, q) \/ q \in r.watched

\* Of the paths in D, the tree knows all it should.
Settled(a, D) == \A q \in D \ {Root} : OwedIn(a.tree, q) => Knows(a.tree, q)

LEMMA GrownFurther ==
  ASSUME NEW a \in Grower, NEW b \in Grower, NEW c \in Grower, Grown(a, b), Grown(b, c)
  PROVE  Grown(a, c)
BY DEF Grown

LEMMA StillSettled ==
  ASSUME NEW a, NEW b, NEW D \in SUBSET Path, Grown(a, b), Settled(a, D)
  PROVE  Settled(b, D)
BY DEF Grown, Settled

LEMMA VisitGrows ==
  ASSUME disk \in Disk, NEW s \in Grower, Sound(s), NEW p \in Path \ {Root}, Visible(p)
  PROVE  LET r == Visit(disk, p, s, TRUE)
         IN  /\ r \in Grower /\ Sound(r) /\ s.watched \subseteq r.watched
             /\ \A q \in Path : HasNode(s.tree, q) => HasNode(r.tree, q) /\ (IsDir(r.tree[q].meta) <=> IsDir(s.tree[q].meta))
             /\ \A q \in Path : Knows(s.tree, q) => Knows(r.tree, q)
             /\ \A q \in Path \ {p} : (HasNode(r.tree, q) <=> HasNode(s.tree, q)) /\ r.tree[q].meta = s.tree[q].meta
             /\ OwedIn(s.tree, p) => Knows(r.tree, p)
             /\ IsDir(r.tree[p].meta) => p \in r.watched
<1> DEFINE a == ApplyChange(disk, s, p, CrawlFlags(TRUE))
           r == Visit(disk, p, s, TRUE)
<1>1. Applied(s, a.s, a.recurse, p)
  BY ApplyChangeGrows DEF Sound
<1>2. r = IF IsDir(a.s.tree[p].meta) THEN AddWatch(a.s, p) ELSE a.s
  BY DEF Visit
<1> HIDE DEF a, r
<1>3. /\ a.s \in Grower /\ Sound(a.s) /\ a.s.watched = s.watched
      /\ \A q \in Path : HasNode(s.tree, q) => HasNode(a.s.tree, q) /\ (IsDir(a.s.tree[q].meta) <=> IsDir(s.tree[q].meta))
      /\ \A q \in Path : Knows(s.tree, q) => Knows(a.s.tree, q)
      /\ \A q \in Path \ {p} : (HasNode(a.s.tree, q) <=> HasNode(s.tree, q)) /\ a.s.tree[q].meta = s.tree[q].meta
      /\ OwedIn(s.tree, p) => Knows(a.s.tree, p)
  BY <1>1, AppliedMeans
<1>4. CASE IsDir(a.s.tree[p].meta)
  <2>1. r = [a.s EXCEPT !.watched = a.s.watched \cup {p}]
    BY <1>2, <1>4 DEF AddWatch
  <2>2. r \in Grower /\ r.tree = a.s.tree /\ r.events = a.s.events /\ r.watched = a.s.watched \cup {p}
    BY <1>3, <2>1 DEF Grower
  <2>3. HasNode(a.s.tree, p)
    BY <1>3, <1>4, NodeKinds DEF HasNode
  <2>4. Sound(r)
    BY <1>3, <1>4, <2>2, <2>3 DEF Sound
  <2>5. QED BY <1>3, <2>2, <2>4 DEF r
<1>5. CASE ~IsDir(a.s.tree[p].meta)
  BY <1>2, <1>3, <1>5 DEF r
<1>6. QED BY <1>4, <1>5

\* A crawl of a directory gets to know everything below it, watches all of its
\* directories and deletes nothing.
LEMMA CrawlGrows ==
  ASSUME disk \in Disk, NEW s \in Grower, Sound(s), NEW p \in Path,
         HasNode(s.tree, p), IsDir(s.tree[p].meta)
  PROVE  LET r == Crawl(disk, s, p)
         IN  r \in Grower /\ Sound(r) /\ Grown(s, r) /\ Settled(r, Under(p)) /\ p \in r.watched
<1> DEFINE met == Walk(disk, p, TRUE)
           b == AddWatch(s, p)
           after == Visited(disk, b, TRUE, met)
           entered == {q \in met \cup {p} : after.tree[q].listed /\ (q = p \/ (IsDir(after.tree[q].meta) /\ TRUE))}
           unvisited == (UNION {ChildNodes(after.tree, q) : q \in entered}) \ met
<1>1. Crawl(disk, s, p) = Removed(after, unvisited)
  <2>1. IsRecursive(s.tree[p]) = TRUE
    BY TreeTypes, NodeKinds DEF Grower, IsRecursive
  <2>2. QED BY <2>1, CrawlFolds, Zenon
<1>2. Visible(p) /\ NodesIn(s.tree)
  BY DEF Sound, NodesIn
<1>3. met = {q \in Under(p) : Listed(disk, q) /\ Visible(q)}
  BY <1>2, WalkMeets
<1>4. met \in SUBSET Path /\ met \subseteq Path \ {Root}
  <2>1. Root \notin Under(p) /\ Under(p) \subseteq Path
    BY PathAssumption, UnderParent DEF Under
  <2>2. QED BY <1>3, <2>1
<1>5. b \in Grower /\ Sound(b) /\ b.tree = s.tree /\ b.watched = s.watched \cup {p}
  <2>1. b \in Grower /\ b.tree = s.tree /\ b.events = s.events /\ b.watched = s.watched \cup {p}
    BY DEF Grower, AddWatch
  <2>2. QED BY <2>1 DEF Sound
<1> HIDE DEF met, b
<1> DEFINE Kept(x) ==
             /\ Sound(x) /\ b.watched \subseteq x.watched
             /\ \A q \in Path : HasNode(b.tree, q) => HasNode(x.tree, q) /\ (IsDir(x.tree[q].meta) <=> IsDir(b.tree[q].meta))
             /\ \A q \in Path : Knows(b.tree, q) => Knows(x.tree, q)
             /\ \A q \in Path \ met : HasNode(x.tree, q) <=> HasNode(b.tree, q)
           X == {x \in Grower : Kept(x)}
           Closed(R) == \A q \in R, m \in met : q \in Under(m) => m \in R
           Done(R, x) == \A q \in R : Exists(disk, q) => Knows(x.tree, q) /\ (IsDir(x.tree[q].meta) => q \in x.watched)
           T == {y \in (SUBSET met) \X X : Closed(y[1]) => Done(y[1], y[2])}
<1>6. ASSUME NEW q \in met, NEW x \in X
      PROVE  LET r == Visit(disk, q, x, TRUE)
             IN  /\ r \in X /\ x.watched \subseteq r.watched
                 /\ \A u \in Path : Knows(x.tree, u) => Knows(r.tree, u)
                 /\ \A u \in Path \ {q} : r.tree[u].meta = x.tree[u].meta
                 /\ OwedIn(x.tree, q) => Knows(r.tree, q)
                 /\ IsDir(r.tree[q].meta) => q \in r.watched
  <2> DEFINE r == Visit(disk, q, x, TRUE)
  <2>1. q \in Path \ {Root} /\ Visible(q) /\ x \in Grower /\ Kept(x)
    BY <1>3, <1>4
  <2> HIDE DEF X, Kept
  <2>2. /\ r \in Grower /\ Sound(r) /\ x.watched \subseteq r.watched
        /\ \A u \in Path : HasNode(x.tree, u) => HasNode(r.tree, u) /\ (IsDir(r.tree[u].meta) <=> IsDir(x.tree[u].meta))
        /\ \A u \in Path : Knows(x.tree, u) => Knows(r.tree, u)
        /\ \A u \in Path \ {q} : (HasNode(r.tree, u) <=> HasNode(x.tree, u)) /\ r.tree[u].meta = x.tree[u].meta
        /\ OwedIn(x.tree, q) => Knows(r.tree, q)
        /\ IsDir(r.tree[q].meta) => q \in r.watched
    BY <2>1, VisitGrows DEF Kept
  <2> HIDE DEF r
  <2>3. Kept(r)
    BY <2>1, <2>2 DEF Kept
  <2>4. QED BY <2>2, <2>3 DEF r, X
<1>7. b \in X
  BY <1>5
<1> HIDE DEF X
<1>8. VisitedIn(disk, TRUE, b, met, X)
  BY <1>4, <1>6, <1>7 DEF VisitedIn
<1>9. VisitedKeeps(disk, TRUE, b, met, X, T)
  <2>1. T \in SUBSET ((SUBSET met) \X X) /\ <<{}, b>> \in T
    BY <1>7
  <2>2. ASSUME NEW R \in SUBSET met, NEW x \in X, R # {}, <<R \ {Latest(R)}, x>> \in T
        PROVE  <<R, Visit(disk, Latest(R), x, TRUE)>> \in T
    <3> DEFINE l == Latest(R)
               r == Visit(disk, l, x, TRUE)
    <3>1. l \in R /\ l \in met /\ \A q \in R \ {l} : Before(q, l)
      BY <1>4, <2>2, LatestExists DEF IsLatest
    <3>2. /\ r \in X /\ x.watched \subseteq r.watched
          /\ \A u \in Path : Knows(x.tree, u) => Knows(r.tree, u)
          /\ \A u \in Path \ {l} : r.tree[u].meta = x.tree[u].meta
          /\ OwedIn(x.tree, l) => Knows(r.tree, l)
          /\ IsDir(r.tree[l].meta) => l \in r.watched
      BY <1>6, <3>1
    <3> HIDE DEF l, r
    <3>3. SUFFICES ASSUME Closed(R) PROVE Done(R, r)
      BY <3>2 DEF r, l
    <3>4. Closed(R \ {l})
      <4> SUFFICES ASSUME NEW q \in R \ {l}, NEW m \in met, q \in Under(m) PROVE m \in R \ {l}
        OBVIOUS
      <4>1. m \in R
        BY <3>3
      <4>2. CASE m = l
        <5>1. Before(q, l) /\ Before(l, q) /\ q \in Path /\ l \in Path
          BY <1>4, <3>1, <4>2, BeforeMeans
        <5>2. QED BY <5>1, BeforeTransitive, NotBeforeItself
      <4>3. QED BY <4>1, <4>2
    <3>5. Done(R \ {l}, x)
      BY <2>2, <3>4 DEF l
    <3>6. Exists(disk, l) => HasNode(x.tree, Parent(l))
      <4> DEFINE d == Parent(l)
      <4>1. l \in Path \ {Root} /\ d \in Path /\ l \in Under(d) /\ l \in Under(p) /\ Visible(l) /\ Listed(disk, l)
        BY <1>3, <1>4, <3>1, ParentMeans
      <4>2. IsDir(disk[d].meta) /\ Visible(d)
        BY <4>1, DiskShape, VisibleParent
      <4>3. d = p \/ d \in Under(p)
        BY <4>1, UnderParent
      <4> HIDE DEF d
      <4>4. CASE d = p
        <5>1. HasNode(b.tree, p)
          BY <1>5
        <5>2. QED BY <4>4, <5>1 DEF X, d
      <4>5. CASE d \in Under(p)
        <5>1. Exists(disk, d) /\ Listed(disk, d)
          BY <4>1, <4>2, DiskKinds, Kinds
        <5>2. d \in met
          BY <1>3, <4>2, <4>5, <5>1
        <5>3. d \in R /\ d # l
          BY <3>1, <3>3, <4>1, <5>2, NotUnderItself
        <5>4. QED BY <3>5, <5>1, <5>3 DEF Knows, d
      <4>6. QED BY <4>3, <4>4, <4>5
    <3>7. Exists(disk, l) => Knows(r.tree, l)
      BY <1>3, <3>1, <3>2, <3>6 DEF OwedIn
    <3>8. ASSUME NEW q \in R, Exists(disk, q)
          PROVE  Knows(r.tree, q) /\ (IsDir(r.tree[q].meta) => q \in r.watched)
      <4>1. CASE q = l
        BY <3>2, <3>7, <3>8, <4>1
      <4>2. CASE q # l
        <5>1. q \in Path \ {l} /\ Knows(x.tree, q) /\ (IsDir(x.tree[q].meta) => q \in x.watched)
          BY <1>4, <3>5, <3>8, <4>2
        <5>2. QED BY <3>2, <5>1
      <4>3. QED BY <4>1, <4>2
    <3>9. QED BY <3>8
  <2> HIDE DEF T
  <2>3. QED BY <2>1, <2>2 DEF VisitedKeeps
<1> HIDE DEF T
<1>10. <<met, after>> \in T
  BY <1>8, <1>9, VisitedFold
<1>11. after \in Grower /\ Kept(after) /\ Done(met, after)
  BY <1>10 DEF T, X
<1> HIDE DEF after, Done
<1>12. unvisited = {}
  <2> SUFFICES ASSUME NEW q \in entered, NEW c \in ChildNodes(after.tree, q) PROVE c \in met
    OBVIOUS
  <2>1. q \in met \cup {p} /\ c \in Under(q) /\ c \in Path /\ HasNode(after.tree, c)
    BY DEF ChildNodes, Under
  <2>2. Exists(disk, c) /\ Visible(c)
    BY <1>11, <2>1 DEF Sound, NodesIn
  <2>3. Listed(disk, c)
    BY <2>1, <2>2, DiskKinds, Kinds
  <2>4. c \in Under(p)
    BY <1>3, <1>4, <2>1, UnderTransitive
  <2>5. QED BY <1>3, <2>2, <2>3, <2>4
<1> HIDE DEF entered, unvisited
<1>13. Removed(after, {}) = after
  <2>1. RemovedIn(after, {}, {after})
    BY DEF RemovedIn
  <2>2. QED BY <2>1, RemovedStays
<1>14. Crawl(disk, s, p) = after
  BY <1>1, <1>12, <1>13
<1>15. Settled(after, Under(p))
  <2> SUFFICES ASSUME NEW q \in Under(p), OwedIn(after.tree, q) PROVE Knows(after.tree, q)
    BY DEF Settled
  <2>1. q \in Path /\ Exists(disk, q) /\ Visible(q)
    BY DEF OwedIn, Under
  <2>2. q \in met
    BY <1>3, <2>1, DiskKinds, Kinds
  <2>3. QED BY <1>11, <2>1, <2>2 DEF Done
<1>16. Grown(s, after)
  <2>1. ASSUME NEW q \in Path \ {Root}, OwedIn(after.tree, q)
        PROVE  Knows(after.tree, q) \/ OwedIn(s.tree, q)
    <3>1. Exists(disk, q) /\ Visible(q) /\ HasNode(after.tree, Parent(q)) /\ Parent(q) \in Path /\ q \in Under(Parent(q))
      BY <2>1, ParentMeans DEF OwedIn
    <3>2. CASE HasNode(s.tree, Parent(q))
      BY <3>1, <3>2 DEF OwedIn
    <3>3. CASE ~HasNode(s.tree, Parent(q))
      <4>1. Parent(q) \in met
        BY <1>5, <1>11, <3>1, <3>3
      <4>2. q \in Under(p)
        BY <1>3, <1>4, <3>1, <4>1, UnderTransitive
      <4>3. QED BY <1>15, <2>1, <4>2 DEF Settled
    <3>4. QED BY <3>2, <3>3
  <2>2. ASSUME NEW q \in Path, HasNode(after.tree, q), IsDir(after.tree[q].meta)
        PROVE  HasNode(s.tree, q) \/ q \in after.watched
    <3>1. CASE q \in met
      <4>1. Exists(disk, q)
        BY <1>11, <2>2 DEF Sound, NodesIn
      <4>2. QED BY <1>11, <2>2, <3>1, <4>1 DEF Done
    <3>2. CASE q \notin met
      BY <1>5, <1>11, <2>2, <3>2
    <3>3. QED BY <3>1, <3>2
  <2>3. QED BY <1>5, <1>11, <2>1, <2>2 DEF Grown
<1>17. QED BY <1>5, <1>11, <1>14, <1>15, <1>16

LEMMA GrownAlready == \A a : Grown(a, a)
BY DEF Grown

\* A pending change of p: afterwards the tree knows p, and if p was skipped or
\* crawled, everything below.
LEMMA ChangeGrows ==
  ASSUME disk \in Disk, NEW x \in [s : Grower, skip : SUBSET Path], Sound(x.s),
         \A u \in x.skip : Settled(x.s, Under(u)),
         NEW c, NEW p \in Path \ {Root}, Visible(p)
  PROVE  LET r == Change(disk, c, p, x)
         IN  /\ r \in [s : Grower, skip : SUBSET Path] /\ Sound(r.s) /\ Grown(x.s, r.s)
             /\ \A u \in r.skip : Settled(r.s, Under(u))
             /\ Settled(r.s, {p})
<1> DEFINE flags == {"origin"} \cup ({"crawl"} \cap {c[p]})
           a == ApplyChange(disk, x.s, p, flags)
           enter == HasNode(a.s.tree, p) /\ IsDir(a.s.tree[p].meta) /\ p \notin Ignored
           after == IF enter THEN Crawl(disk, a.s, p) ELSE a.s
           r == Change(disk, c, p, x)
<1>1. x.s \in Grower /\ x.skip \in SUBSET Path /\ x = [s |-> x.s, skip |-> x.skip]
  OBVIOUS
<1>2. r = IF Skipped(p, x.skip) THEN x
          ELSE IF a.recurse THEN [s |-> after, skip |-> x.skip \cup {p}]
                            ELSE [x EXCEPT !.s = a.s]
  BY Zenon DEF Change
<1>3. Applied(x.s, a.s, a.recurse, p)
  BY <1>1, ApplyChangeGrows DEF Sound
<1> HIDE DEF a, r
<1>4. /\ a.s \in Grower /\ Sound(a.s) /\ a.s.watched = x.s.watched
      /\ \A q \in Path : HasNode(x.s.tree, q) => HasNode(a.s.tree, q) /\ (IsDir(a.s.tree[q].meta) <=> IsDir(x.s.tree[q].meta))
      /\ \A q \in Path : Knows(x.s.tree, q) => Knows(a.s.tree, q)
      /\ \A q \in Path \ {p} : HasNode(a.s.tree, q) <=> HasNode(x.s.tree, q)
      /\ OwedIn(x.s.tree, p) => Knows(a.s.tree, p)
  BY <1>1, <1>3, AppliedMeans
<1>5. /\ Parent(p) \in Path /\ Parent(p) # p
      /\ \A q \in Path \ {Root} : Parent(q) = p => q \in Under(p)
  BY ParentMeans, NotUnderItself
<1>6. OwedIn(a.s.tree, p) => Knows(a.s.tree, p)
  BY <1>4, <1>5 DEF OwedIn
<1>7. ASSUME NEW q \in Path \ {Root}, Parent(q) # p, OwedIn(a.s.tree, q)
      PROVE  OwedIn(x.s.tree, q)
  <2>1. Parent(q) \in Path \ {p}
    BY <1>7, ParentMeans
  <2>2. QED BY <1>4, <1>7, <2>1 DEF OwedIn
<1>8. ASSUME NEW q \in Under(p), OwedIn(a.s.tree, q)
      PROVE  enter
  <2>1. q \in Path \ {Root} /\ Exists(disk, q) /\ HasNode(a.s.tree, Parent(q)) /\ Parent(q) \in Path
    BY <1>8, UnderRoot, ParentMeans, NotUnderItself, UnderTransitive DEF OwedIn, Under
  <2>2. IsDir(disk[p].meta)
    BY <1>8, <2>1, DiskShape, DiskKinds, Kinds
  <2>3. Parent(q) = p \/ Parent(q) \in Under(p)
    BY <1>8, <2>1, UnderParent
  <2>4. HasNode(a.s.tree, p)
    BY <1>4, <2>1, <2>3 DEF Sound, NodesIn
  <2>5. IsDir(a.s.tree[p].meta)
    BY <1>4, <2>2, <2>4 DEF Sound, NodesIn
  <2>6. p \notin Ignored
    BY DEF Visible
  <2>7. QED BY <2>4, <2>5, <2>6
<1>9. CASE Skipped(p, x.skip)
  <2>1. PICK q \in x.skip : p \in Under(q)
    BY <1>9 DEF Skipped
  <2>2. Settled(x.s, {p})
    BY <2>1 DEF Settled
  <2>3. r = x
    BY <1>2, <1>9
  <2>4. QED BY <2>2, <2>3, GrownAlready DEF r
<1>10. CASE ~Skipped(p, x.skip) /\ a.recurse /\ enter
  <2> DEFINE b == Crawl(disk, a.s, p)
  <2>1. b \in Grower /\ Sound(b) /\ Grown(a.s, b) /\ Settled(b, Under(p)) /\ p \in b.watched
    BY <1>4, <1>10, CrawlGrows
  <2> HIDE DEF b
  <2>2. r = [s |-> b, skip |-> x.skip \cup {p}]
    BY <1>2, <1>10 DEF b
  <2>3. r \in [s : Grower, skip : SUBSET Path] /\ r.s = b /\ r.skip = x.skip \cup {p}
    BY <1>1, <2>1, <2>2
  <2>4. \A q \in Path \ {Root} : OwedIn(b.tree, q) => Knows(b.tree, q) \/ OwedIn(x.s.tree, q)
    <3> TAKE q \in Path \ {Root}
    <3> HAVE OwedIn(b.tree, q)
    <3>1. Knows(b.tree, q) \/ OwedIn(a.s.tree, q)
      BY <2>1 DEF Grown
    <3>2. Parent(q) = p => Knows(b.tree, q)
      BY <1>5, <2>1 DEF Settled
    <3>3. QED BY <1>7, <3>1, <3>2
  <2>5. \A q \in Path : HasNode(b.tree, q) /\ IsDir(b.tree[q].meta) => HasNode(x.s.tree, q) \/ q \in b.watched
    BY <1>4, <2>1 DEF Grown
  <2>6. Grown(x.s, b)
    BY <1>4, <2>1, <2>4, <2>5 DEF Grown
  <2>7. ASSUME NEW u \in x.skip PROVE Settled(b, Under(u))
    <3>1. Under(u) \in SUBSET Path
      BY DEF Under
    <3>2. QED BY <2>6, <3>1, StillSettled
  <2>8. Settled(b, {p})
    <3>1. OwedIn(b.tree, p) => Knows(b.tree, p) \/ OwedIn(a.s.tree, p)
      BY <2>1 DEF Grown
    <3>2. Knows(a.s.tree, p) => Knows(b.tree, p)
      BY <2>1 DEF Grown
    <3>3. QED BY <1>6, <3>1, <3>2 DEF Settled
  <2>9. QED BY <2>1, <2>3, <2>6, <2>7, <2>8 DEF r
<1>11. CASE ~Skipped(p, x.skip) /\ ~(a.recurse /\ enter)
  <2>1. r = [s |-> a.s, skip |-> IF a.recurse THEN x.skip \cup {p} ELSE x.skip]
    BY <1>1, <1>2, <1>11
  <2>2. r \in [s : Grower, skip : SUBSET Path] /\ r.s = a.s /\ r.skip = IF a.recurse THEN x.skip \cup {p} ELSE x.skip
    BY <1>1, <1>4, <2>1
  <2>3. a.recurse \/ HasNode(x.s.tree, p)
    BY <1>3 DEF Applied
  <2>4. \A q \in Path \ {Root} : OwedIn(a.s.tree, q) => OwedIn(x.s.tree, q)
    <3> TAKE q \in Path \ {Root}
    <3> HAVE OwedIn(a.s.tree, q)
    <3>1. CASE Parent(q) # p
      BY <1>7, <3>1
    <3>2. CASE Parent(q) = p /\ a.recurse
      BY <1>5, <1>8, <1>11, <3>2
    <3>3. CASE Parent(q) = p /\ HasNode(x.s.tree, p)
      BY <3>3 DEF OwedIn
    <3>4. QED BY <2>3, <3>1, <3>2, <3>3
  <2>5. \A q \in Path : HasNode(a.s.tree, q) /\ IsDir(a.s.tree[q].meta) => HasNode(x.s.tree, q) \/ q \in a.s.watched
    <3>1. p \notin Ignored
      BY DEF Visible
    <3>2. QED BY <1>4, <1>11, <2>3, <3>1
  <2>6. Grown(x.s, a.s)
    BY <1>4, <2>4, <2>5 DEF Grown
  <2>7. ASSUME NEW u \in r.skip PROVE Settled(a.s, Under(u))
    <3>1. Under(u) \in SUBSET Path
      BY DEF Under
    <3>2. CASE u \in x.skip
      BY <1>1, <1>4, <2>6, <3>1, <3>2, StillSettled
    <3>3. CASE u = p /\ a.recurse
      BY <1>8, <1>11, <3>3 DEF Settled
    <3>4. QED BY <2>2, <2>7, <3>2, <3>3
  <2>8. Settled(a.s, {p})
    BY <1>6 DEF Settled
  <2>9. QED BY <1>4, <2>2, <2>6, <2>7, <2>8 DEF r
<1>12. QED BY <1>9, <1>10, <1>11

\* A transaction gets to know every path that has a change, and deletes nothing.
LEMMA TransactionGrows ==
  ASSUME disk \in Disk, NEW s \in Grower, Sound(s), NEW c,
         \A p \in Path : c[p] # "none" => p # Root /\ Visible(p)
  PROVE  LET r == ApplyTransaction(disk, s, c)
         IN  r \in Grower /\ Sound(r) /\ Grown(s, r) /\ Settled(r, {p \in Path : c[p] # "none"})
<1> DEFINE ps == {p \in Path : c[p] # "none"}
           b == [s |-> s, skip |-> {}]
           Fine(x) == Sound(x.s) /\ Grown(s, x.s) /\ \A u \in x.skip : Settled(x.s, Under(u))
           X == {x \in [s : Grower, skip : SUBSET Path] : Fine(x)}
           T == {y \in (SUBSET ps) \X X : Settled(y[2].s, y[1])}
<1>1. ApplyTransaction(disk, s, c) = Changed(disk, c, b, ps).s
  BY TransactionFolds
<1>2. ps \in SUBSET Path /\ \A p \in ps : p \in Path \ {Root} /\ Visible(p)
  OBVIOUS
<1>3. b \in X /\ b.s = s
  BY GrownAlready
<1> HIDE DEF ps, b
<1>4. ASSUME NEW p \in ps, NEW x \in X
      PROVE  LET r == Change(disk, c, p, x) IN r \in X /\ Grown(x.s, r.s) /\ Settled(r.s, {p})
  <2> DEFINE r == Change(disk, c, p, x)
  <2>1. x \in [s : Grower, skip : SUBSET Path] /\ x.s \in Grower /\ Fine(x)
    OBVIOUS
  <2>2. /\ r \in [s : Grower, skip : SUBSET Path] /\ Sound(r.s) /\ Grown(x.s, r.s)
        /\ \A u \in r.skip : Settled(r.s, Under(u))
        /\ Settled(r.s, {p})
    BY <1>2, <2>1, ChangeGrows
  <2> HIDE DEF r
  <2>3. Grown(s, r.s)
    BY <2>1, <2>2, GrownFurther
  <2>4. QED BY <2>2, <2>3 DEF r
<1> HIDE DEF X
<1>5. ChangedIn(disk, c, b, ps, X)
  BY <1>2, <1>3, <1>4 DEF ChangedIn
<1>6. ChangedKeeps(disk, c, b, ps, X, T)
  <2>1. T \in SUBSET ((SUBSET ps) \X X) /\ <<{}, b>> \in T
    BY <1>3 DEF Settled
  <2>2. ASSUME NEW R \in SUBSET ps, NEW x \in X, R # {}, <<R \ {Latest(R)}, x>> \in T
        PROVE  <<R, Change(disk, c, Latest(R), x)>> \in T
    <3> DEFINE l == Latest(R)
               r == Change(disk, c, l, x)
    <3>1. l \in R /\ l \in ps
      BY <1>2, <2>2, LatestExists DEF IsLatest
    <3>2. r \in X /\ Grown(x.s, r.s) /\ Settled(r.s, {l})
      BY <1>4, <3>1
    <3>3. Settled(x.s, R \ {l})
      BY <2>2
    <3> HIDE DEF l, r
    <3>4. R \ {l} \in SUBSET Path
      BY <1>2
    <3>5. Settled(r.s, R \ {l})
      BY <3>2, <3>3, <3>4, StillSettled
    <3>6. Settled(r.s, R)
      BY <3>2, <3>5 DEF Settled
    <3>7. QED BY <3>2, <3>6 DEF r, l
  <2> HIDE DEF T
  <2>3. QED BY <2>1, <2>2 DEF ChangedKeeps
<1> HIDE DEF T
<1>7. <<ps, Changed(disk, c, b, ps)>> \in T
  BY <1>5, <1>6, ChangedFold
<1>8. QED BY <1>1, <1>7 DEF T, X, ps

------------------------------------------------------------------------------
(* Watches while things only appear *)

\* No descriptor is forgotten or stands for another path.
Extends(w, r) ==
  /\ \A q \in Path : MappedIn(w, q) => MappedIn(r, q)
  /\ \A d \in DOMAIN w.watches : d \in DOMAIN r.watches /\ r.watches[d] = w.watches[d]

LEMMA WatchDirGrows ==
  ASSUME disk \in Disk, NEW w \in WatchState, Fits(w), NEW p \in Path, IsDir(disk[p].meta), Visible(p)
  PROVE  LET r == WatchDir(disk, p, w)
         IN  r \in WatchState /\ Fits(r) /\ MappedIn(r, p) /\ Extends(w, r)
<1> DEFINE i == disk[p].ino
           d == IF w.wd[i] = 0 THEN w.last + 1 ELSE w.wd[i]
           r == WatchDir(disk, p, w)
<1>1. r \in WatchState
  BY WatchDirType
<1>2. r = [wd |-> [w.wd EXCEPT ![i] = d], last |-> IF w.wd[i] = 0 THEN d ELSE w.last, watches |-> Inserted(w.watches, d, p)]
  BY DEF WatchDir
<1>3. /\ w.wd \in [Inode -> Nat] /\ w.last \in Nat /\ DOMAIN w.watches \subseteq 1 .. w.last
      /\ \A j \in Inode : w.wd[j] \in Nat /\ w.wd[j] <= w.last
      /\ \A e \in DOMAIN w.watches : w.watches[e] \in Path
  <2>1. w.wd \in [Inode -> Nat] /\ w.last \in Nat /\ Descriptors(w.watches, w.last) /\ \A j \in Inode : w.wd[j] <= w.last
    BY Typed DEF WatchState
  <2>2. QED BY <2>1 DEF Descriptors
<1>4. i \in Inode /\ \A q \in Path : disk[q].ino \in Inode
  BY DiskKinds
<1>5. \A q \in Path : IsDir(disk[q].meta) /\ disk[q].ino = i => q = p
  BY DiskShape, DiskKinds, Kinds DEF Listed
<1> HIDE DEF i
<1>6. d \in Nat /\ d # 0 /\ (w.wd[i] # 0 => d = w.wd[i]) /\ (w.wd[i] = 0 => d = w.last + 1)
  BY <1>3, <1>4
<1>7. /\ \A e \in DOMAIN w.watches : e \in Nat /\ e # 0 /\ e <= w.last
      /\ \A j, k \in Inode : w.wd[j] = w.wd[k] /\ w.wd[j] # 0 => j = k
      /\ \A e \in DOMAIN w.watches : /\ Visible(w.watches[e]) /\ IsDir(disk[w.watches[e]].meta)
                                     /\ w.wd[disk[w.watches[e]].ino] = e
  BY <1>3 DEF Fits
<1>8. /\ r.wd[i] = d /\ \A j \in Inode \ {i} : r.wd[j] = w.wd[j]
      /\ r.last = IF w.wd[i] = 0 THEN d ELSE w.last
      /\ DOMAIN r.watches = DOMAIN w.watches \cup {d} /\ r.watches[d] = p
      /\ \A e \in DOMAIN w.watches \ {d} : r.watches[e] = w.watches[e]
  BY <1>2, <1>3, <1>4 DEF Inserted
<1> HIDE DEF d, r
<1>9. d \in DOMAIN w.watches => w.watches[d] = p /\ w.wd[i] = d
  <2> SUFFICES ASSUME d \in DOMAIN w.watches PROVE w.watches[d] = p /\ w.wd[i] = d
    OBVIOUS
  <2>1. w.wd[i] # 0
    BY <1>3, <1>6, <1>7
  <2>2. disk[w.watches[d]].ino = i
    BY <1>3, <1>4, <1>6, <1>7, <2>1
  <2>3. QED BY <1>3, <1>5, <1>6, <1>7, <2>1, <2>2
<1>10. \A e \in DOMAIN w.watches : e \in DOMAIN r.watches /\ r.watches[e] = w.watches[e]
  BY <1>8, <1>9
<1>11. \A j \in Inode : w.wd[j] # 0 => r.wd[j] = w.wd[j]
  BY <1>6, <1>8
<1>12. \A q \in Path : MappedIn(w, q) => MappedIn(r, q)
  <2> TAKE q \in Path
  <2> HAVE MappedIn(w, q)
  <2>1. w.wd[disk[q].ino] \in DOMAIN w.watches /\ w.watches[w.wd[disk[q].ino]] = q
    BY DEF MappedIn
  <2>2. w.wd[disk[q].ino] # 0
    BY <1>7, <2>1
  <2>3. r.wd[disk[q].ino] = w.wd[disk[q].ino]
    BY <1>4, <1>11, <2>2
  <2>4. QED BY <1>10, <2>1, <2>3 DEF MappedIn
<1>13. MappedIn(r, p)
  BY <1>8 DEF MappedIn, i
<1>14. Fits(r)
  <2>1. \A j \in Inode : r.wd[j] <= r.last
    BY <1>1 DEF WatchState
  <2>2. ASSUME NEW j \in Inode \ {i}, r.wd[j] = d PROVE FALSE
    <3>1. w.wd[j] = d /\ w.wd[j] # 0
      BY <1>6, <1>8, <2>2
    <3>2. CASE w.wd[i] = 0
      BY <1>3, <1>6, <3>1, <3>2
    <3>3. CASE w.wd[i] # 0
      BY <1>4, <1>6, <1>7, <3>1, <3>3
    <3>4. QED BY <3>2, <3>3
  <2>3. \A j, k \in Inode : r.wd[j] = r.wd[k] /\ r.wd[j] # 0 => j = k
    <3> TAKE j, k \in Inode
    <3> HAVE r.wd[j] = r.wd[k] /\ r.wd[j] # 0
    <3>1. CASE j = i \/ k = i
      BY <1>8, <2>2, <3>1
    <3>2. CASE j # i /\ k # i
      BY <1>7, <1>8, <3>2
    <3>3. QED BY <3>1, <3>2
  <2>4. ASSUME NEW e \in DOMAIN r.watches
        PROVE  Visible(r.watches[e]) /\ IsDir(disk[r.watches[e]].meta) /\ r.wd[disk[r.watches[e]].ino] = e
    <3>1. CASE e = d
      BY <1>8, <3>1 DEF i
    <3>2. CASE e # d
      <4>1. e \in DOMAIN w.watches /\ r.watches[e] = w.watches[e]
        BY <1>8, <2>4, <3>2
      <4>2. w.wd[disk[w.watches[e]].ino] = e /\ e # 0 /\ disk[w.watches[e]].ino \in Inode
        BY <1>3, <1>4, <1>7, <4>1
      <4>3. r.wd[disk[w.watches[e]].ino] = e
        BY <1>11, <4>2
      <4>4. QED BY <1>7, <4>1, <4>3
    <3>3. QED BY <3>1, <3>2
  <2>5. QED BY <2>1, <2>3, <2>4 DEF Fits
<1>15. QED BY <1>1, <1>10, <1>12, <1>13, <1>14 DEF Extends, r

\* All that is to be watched is watched in the end.
LEMMA WatchingGrows ==
  ASSUME disk \in Disk, NEW w \in WatchState, Fits(w), NEW ps \in SUBSET Path,
         \A p \in ps : IsDir(disk[p].meta) /\ Visible(p)
  PROVE  LET r == Watching(disk, w, ps)
         IN  r \in WatchState /\ Fits(r) /\ Extends(w, r) /\ \A p \in ps : MappedIn(r, p)
<1> DEFINE X == {x \in WatchState : Fits(x) /\ Extends(w, x)}
           T == {y \in (SUBSET ps) \X X : \A p \in y[1] : MappedIn(y[2], p)}
<1>1. w \in X
  BY DEF Extends
<1>2. ASSUME NEW p \in ps, NEW x \in X
      PROVE  LET r == WatchDir(disk, p, x) IN r \in X /\ MappedIn(r, p) /\ Extends(x, r)
  <2> DEFINE r == WatchDir(disk, p, x)
  <2>1. r \in WatchState /\ Fits(r) /\ MappedIn(r, p) /\ Extends(x, r)
    BY WatchDirGrows
  <2> HIDE DEF r
  <2>2. Extends(w, r)
    BY <2>1 DEF Extends
  <2>3. QED BY <2>1, <2>2 DEF r
<1> HIDE DEF X
<1>3. WatchingIn(disk, w, ps, X)
  BY <1>1, <1>2 DEF WatchingIn
<1>4. WatchingKeeps(disk, w, ps, X, T)
  <2>1. T \in SUBSET ((SUBSET ps) \X X) /\ <<{}, w>> \in T
    BY <1>1
  <2>2. ASSUME NEW R \in SUBSET ps, NEW x \in X, R # {}, <<R \ {Latest(R)}, x>> \in T
        PROVE  <<R, WatchDir(disk, Latest(R), x)>> \in T
    <3> DEFINE l == Latest(R)
               r == WatchDir(disk, l, x)
    <3>1. l \in R /\ l \in ps
      BY <2>2, LatestExists DEF IsLatest
    <3>2. r \in X /\ MappedIn(r, l) /\ Extends(x, r)
      BY <1>2, <3>1
    <3>3. \A p \in R \ {l} : MappedIn(x, p)
      BY <2>2
    <3> HIDE DEF l, r
    <3>4. \A p \in R : MappedIn(r, p)
      BY <3>2, <3>3 DEF Extends
    <3>5. QED BY <3>2, <3>4 DEF r, l
  <2> HIDE DEF T
  <2>3. QED BY <2>1, <2>2 DEF WatchingKeeps
<1> HIDE DEF T
<1>5. <<ps, Watching(disk, w, ps)>> \in T
  BY <1>3, <1>4, WatchingFold
<1>6. QED BY <1>5 DEF T, X

------------------------------------------------------------------------------
(* What keeps the invariant while things only appear *)

LEMMA OfChildTypes ==
  ASSUME GrowTypes, NEW p \in Path \ {Root}, NEW kind \in {"CREATE", "MODIFY"}
  PROVE  LET evs == OfChild(kind, p)
             wd == kernel.wd[disk[Parent(p)].ino]
         IN  /\ evs \in Seq(Event) /\ wd \in Nat
             /\ wd # 0 => /\ Len(evs) = 1 /\ evs[1].wd = wd /\ evs[1].kind # "OVERFLOW"
                          /\ evs[1].path = <<p[Len(p)]>>
<1> DEFINE wd == kernel.wd[disk[Parent(p)].ino]
           e == [kind |-> kind, wd |-> wd, path |-> <<p[Len(p)]>>]
<1>1. Parent(p) \in Path /\ disk \in Disk /\ kernel \in Kernel
  BY ParentMeans DEF GrowTypes
<1>2. disk[Parent(p)].ino \in Inode
  BY <1>1, DiskKinds
<1>3. wd \in Nat
  BY <1>1, <1>2 DEF Kernel
<1>4. OfChild(kind, p) = IF wd = 0 THEN <<>> ELSE <<e>>
  BY DEF OfChild
<1> HIDE DEF wd
<1>5. p[Len(p)] \in Nat
  <2>1. Len(p) \in Nat /\ Len(p) > 0
    BY ParentMeans, PathTypes
  <2>2. Len(p) \in 1 .. Len(p)
    BY <2>1
  <2>3. QED BY <2>2, PathTypes
<1>6. e \in Event /\ e.wd = wd /\ e.kind # "OVERFLOW" /\ e.path = <<p[Len(p)]>>
  BY <1>3, <1>5 DEF Event
<1> HIDE DEF e
<1>7. QED BY <1>3, <1>4, <1>6 DEF wd

\* What other programs do: something appears at p, or the file there is written,
\* and those who watch its directory are told.
GrowsAt(p) ==
  /\ disk' \in Disk /\ \A q \in Path \ {p} : disk'[q] = disk[q]
  /\ Listed(disk', p)
  /\ Listed(disk, p) => disk'[p].ino = disk[p].ino /\ IsFile(disk[p].meta) /\ IsFile(disk'[p].meta)
  /\ \E kind \in {"CREATE", "MODIFY"} : kernel' = [kernel EXCEPT !.queue = Push(@, OfChild(kind, p))]
  /\ UNCHANGED <<habit, watches, pending, changes, tree, events, known>>

LEMMA Growth ==
  ASSUME Grows, GrowTypes, Operation
  PROVE  \E p \in Path \ {Root} : GrowsAt(p)
<1>1. disk \in Disk /\ disk \in [Path -> [meta : {Dir, Other, Deleted} \cup Files, ino : Inode]] /\ habit.at \subseteq Path
  BY HabitsAssumption DEF GrowTypes, Habit, Disk, Files, Inode
<1>2. PICK p \in habit.at : CreateFile(p) \/ WriteFile(p) \/ Symlink(p) \/ Mkdir(p)
  BY DEF Grows, Operation, Unlink, Rmdir, RenameFile, RenameDir, Do
<1>3. p \in Path
  BY <1>1, <1>2
<1>4. ASSUME Room(p), NEW i \in FreeIno, NEW m \in {Dir, Other} \cup Files,
             disk' = [disk EXCEPT ![p] = [meta |-> m, ino |-> i]]
      PROVE  /\ p # Root /\ disk' \in Disk /\ \A q \in Path \ {p} : disk'[q] = disk[q]
             /\ Listed(disk', p) /\ ~Listed(disk, p)
  <2>1. disk' \in Disk
    BY <1>1, <1>3, <1>4, DiskWith
  <2>2. disk'[p].meta = m
    BY <1>1, <1>3, <1>4
  <2>3. QED BY <1>1, <1>4, <2>1, <2>2, Kinds DEF Room, Listed
<1>5. CASE CreateFile(p)
  <2>1. PICK i \in FreeIno, s \in Stamp : disk' = [disk EXCEPT ![p] = [meta |-> File(s), ino |-> i]]
    BY <1>5 DEF CreateFile
  <2>2. File(s) \in Files /\ Room(p)
    BY <1>5, Kinds DEF CreateFile
  <2>3. QED BY <1>3, <1>4, <1>5, <2>1, <2>2 DEF CreateFile, Do, Notifies, GrowsAt
<1>6. CASE Symlink(p)
  BY <1>3, <1>4, <1>6 DEF Symlink, Do, Notifies, GrowsAt
<1>7. CASE Mkdir(p)
  BY <1>3, <1>4, <1>7 DEF Mkdir, Do, Notifies, GrowsAt
<1>8. CASE WriteFile(p)
  <2>1. PICK s \in Stamp : disk' = [disk EXCEPT ![p].meta = File(s)]
    BY <1>8 DEF WriteFile
  <2>2. IsFile(disk[p].meta) /\ File(s) \in Files /\ IsFile(File(s)) /\ File(s) # Deleted
    BY <1>8, Kinds DEF WriteFile
  <2>3. p # Root
    BY <2>2, <1>1, DiskShape, Kinds
  <2>4. disk' \in Disk
    BY <1>1, <1>3, <2>1, <2>2, DiskWritten
  <2>5. disk'[p].meta = File(s) /\ disk'[p].ino = disk[p].ino /\ \A q \in Path \ {p} : disk'[q] = disk[q]
    BY <1>1, <1>3, <2>1
  <2>6. QED BY <1>3, <1>8, <2>2, <2>3, <2>4, <2>5 DEF WriteFile, Do, Notifies, GrowsAt, Listed
<1>9. QED BY <1>2, <1>5, <1>6, <1>7, <1>8
LEMMA OperationBase ==
  ASSUME NEW M, NEW V, Grows, GrowBase(M, V), Operation, \A p \in Path \ {Root} : Parent(p) \in M => p \in V
  PROVE  GrowBase(M, V)'
<1>1. PICK p \in Path \ {Root} : GrowsAt(p)
  BY Growth DEF GrowBase
<1>2. PICK kind \in {"CREATE", "MODIFY"} : kernel' = [kernel EXCEPT !.queue = Push(@, OfChild(kind, p))]
  BY <1>1 DEF GrowsAt
<1> DEFINE evs == OfChild(kind, p)
<1>3. /\ disk \in Disk /\ disk' \in Disk /\ kernel \in Kernel
      /\ UNCHANGED <<habit, watches, pending, changes, tree, events, known>>
  BY <1>1 DEF GrowsAt, GrowBase, GrowTypes
<1>4. \A q \in Path : Listed(disk, q) => /\ Listed(disk', q) /\ disk'[q].ino = disk[q].ino
                                         /\ IsDir(disk'[q].meta) <=> IsDir(disk[q].meta)
                                         /\ Exists(disk, q) => Exists(disk', q)
  <2> TAKE q \in Path
  <2>1. CASE q = p
    <3>1. Listed(disk, p) => ~IsDir(disk[p].meta) /\ ~IsDir(disk'[p].meta) /\ Exists(disk', p)
      BY <1>1, <1>3, DiskKinds, Kinds DEF GrowsAt
    <3>2. QED BY <1>1, <2>1, <3>1 DEF GrowsAt
  <2>2. CASE q # p
    BY <1>1, <2>2 DEF GrowsAt, Listed, Exists, ForPath
  <2>3. QED BY <2>1, <2>2
<1>5. \A q \in Path : HasNode(tree, q) => Listed(disk, q) /\ Exists(disk, q)
  BY <1>3, DiskKinds, Kinds DEF GrowBase, NodesIn
<1>6. /\ Push(kernel.queue, evs) \in Seq(Event) /\ evs \in Seq(Event)
      /\ Overflowed(Push(kernel.queue, evs)) \/ Push(kernel.queue, evs) = kernel.queue \o evs
      /\ Overflowed(kernel.queue) => Overflowed(Push(kernel.queue, evs))
  <2>1. evs \in Seq(Event) /\ kernel.queue \in Seq(Event)
    BY OfChildTypes DEF GrowBase, GrowTypes, Kernel
  <2>2. habit.queue \in Nat
    BY HabitsAssumption DEF GrowBase, GrowTypes, Habit
  <2>3. [kind |-> "OVERFLOW", wd |-> 0, path |-> <<>>] \in Event
    <3>1. <<>> \in Seq(Nat)
      OBVIOUS
    <3>2. QED BY <3>1 DEF Event
  <2> HIDE DEF evs
  <2>4. QED BY <2>1, <2>2, <2>3, PushMeans
<1>7. kernel' \in Kernel /\ kernel'.wd = kernel.wd /\ kernel'.last = kernel.last /\ kernel'.queue = Push(kernel.queue, evs)
  BY <1>2, <1>3, <1>6 DEF Kernel
<1>8. GrowTypes'
  BY <1>3, <1>7 DEF GrowBase, GrowTypes
<1>9. NodesIn(tree)'
  BY <1>3, <1>4, <1>5 DEF GrowBase, NodesIn
<1>10. Fits(Descriptions)'
  <2>1. \A d \in DOMAIN watches : watches[d] \in Path /\ Listed(disk, watches[d])
    BY Kinds DEF GrowBase, GrowTypes, Fits, Descriptions, Listed
  <2>2. Fits(Descriptions)
    BY DEF GrowBase
  <2>3. QED BY <1>3, <1>4, <1>7, <2>1, <2>2 DEF Fits, Descriptions
<1>11. DirsMappedBut(M)'
  BY <1>3, <1>4, <1>5, <1>7 DEF GrowBase, DirsMappedBut, Mapped, MappedIn, Descriptions
<1>12. FlagsVisible' /\ KnownIn(tree, events)'
  BY <1>3 DEF GrowBase, FlagsVisible, KnownIn
<1>13. AccountedBut(V)'
  <2>1. CASE RecrawlDue
    <3>1. RecrawlDue'
      BY <1>3, <1>6, <1>7, <2>1 DEF RecrawlDue
    <3>2. QED BY <3>1 DEF AccountedBut
  <2>2. CASE Overflowed(kernel'.queue)
    BY <2>2 DEF AccountedBut, RecrawlDue
  <2>3. CASE ~RecrawlDue /\ ~Overflowed(kernel'.queue)
    <3>1. kernel'.queue = kernel.queue \o evs /\ kernel.queue \in Seq(Event) /\ evs \in Seq(Event)
      BY <1>3, <1>6, <1>7, <2>3 DEF Kernel
    <3>2. /\ DOMAIN kernel.queue = 1 .. Len(kernel.queue) /\ Len(kernel.queue) \in Nat
          /\ DOMAIN kernel'.queue = 1 .. Len(kernel.queue) + Len(evs) /\ Len(evs) \in Nat
          /\ \A i \in 1 .. Len(kernel.queue) : kernel'.queue[i] = kernel.queue[i]
          /\ \A i \in 1 .. Len(evs) : kernel'.queue[Len(kernel.queue) + i] = evs[i]
      BY <3>1
    <3>3. \A q \in Path : Told(q) => Told(q)'
      <4>1. \A i \in 1 .. Len(kernel.queue) : i \in DOMAIN kernel'.queue
        BY <3>2
      <4>2. QED BY <1>3, <3>2, <4>1 DEF Told
    <3>4. \A q \in Path : Flagged(q)' <=> Flagged(q)
      BY <1>3 DEF Flagged
    <3>5. SUFFICES ASSUME NEW q \in Path \ {Root}, OwedIn(tree, q)'
                   PROVE  (Knows(tree, q) \/ Told(q) \/ Flagged(q) \/ q \in V)'
      BY DEF AccountedBut
    <3>6. CASE q # p
      <4>1. disk'[q] = disk[q]
        BY <1>1, <3>6 DEF GrowsAt
      <4>2. OwedIn(tree, q) /\ (Knows(tree, q)' <=> Knows(tree, q))
        BY <1>3, <3>5, <4>1 DEF OwedIn, Knows, Exists, ForPath
      <4>3. Knows(tree, q) \/ Told(q) \/ Flagged(q) \/ q \in V
        BY <2>3, <4>2 DEF GrowBase, AccountedBut
      <4>4. QED BY <3>3, <3>4, <4>2, <4>3
    <3>7. CASE q = p
      <4> DEFINE d == Parent(p)
                 wd == kernel.wd[disk[d].ino]
      <4>1. /\ d \in Path /\ d \o <<p[Len(p)]>> = p
            /\ HasNode(tree, d) /\ IsDir(disk'[d].meta)
        <5>1. d \in Path /\ d \o <<p[Len(p)]>> = p /\ p \in Under(d)
          BY ParentMeans
        <5>2. HasNode(tree, d) /\ Listed(disk', p)
          BY <1>1, <1>3, <3>5, <3>7 DEF OwedIn, GrowsAt
        <5>3. QED BY <1>3, <5>1, <5>2, DiskShape
      <4>2. IsDir(tree[d].meta)
        BY <1>4, <1>5, <4>1 DEF GrowBase, NodesIn
      <4>3. d \in M => p \in V
        OBVIOUS
      <4> HIDE DEF d
      <4>4. CASE Mapped(d)
        <5>1. wd \in DOMAIN watches /\ watches[wd] = d /\ wd # 0
          BY <4>4 DEF Mapped, MappedIn, Descriptions, GrowBase, GrowTypes
        <5>2. Len(evs) = 1 /\ evs[1].wd = wd /\ evs[1].kind # "OVERFLOW" /\ evs[1].path = <<p[Len(p)]>>
          BY <5>1, OfChildTypes DEF GrowBase, d
        <5> HIDE DEF evs, wd
        <5>3. Len(kernel.queue) + 1 \in DOMAIN kernel'.queue /\ kernel'.queue[Len(kernel.queue) + 1] = evs[1]
          BY <3>2, <5>2
        <5>4. Told(p)'
          BY <1>3, <4>1, <5>1, <5>2, <5>3 DEF Told
        <5>5. QED BY <3>7, <5>4
      <4>5. QED BY <3>7, <4>1, <4>2, <4>3, <4>4 DEF GrowBase, DirsMappedBut
    <3>8. QED BY <3>6, <3>7
  <2>4. QED BY <2>1, <2>2, <2>3
<1>14. QED BY <1>8, <1>9, <1>10, <1>11, <1>12, <1>13 DEF GrowBase

LEMMA ChildOf ==
  ASSUME NEW d \in Path, NEW path \in Seq(Nat), Len(path) = 1, d \o path \in Path
  PROVE  d \o path # Root /\ Parent(d \o path) = d
<1> DEFINE p == d \o path
<1>1. d \in Seq(Nat) /\ Len(d) \in Nat /\ p \in Path
  BY PathTypes
<1>2. Len(p) = Len(d) + 1 /\ \A i \in 1 .. Len(d) : p[i] = d[i]
  <2>1. Len(d \o path) = Len(d) + Len(path)
    BY <1>1, ConcatProperties
  <2>2. \A i \in 1 .. Len(d) : (d \o path)[i] = d[i]
    BY <1>1, ConcatProperties
  <2>3. QED BY <1>1, <2>1, <2>2
<1> HIDE DEF p
<1>3. p # Root
  <2>1. Len(p) # 0
    BY <1>1, <1>2
  <2>2. QED BY <2>1 DEF Root
<1>4. Parent(p) \in Path /\ Len(Parent(p)) = Len(p) - 1 /\ \A i \in 1 .. Len(p) - 1 : Parent(p)[i] = p[i]
  BY <1>1, <1>3, ParentMeans
<1>5. Parent(p) \in Seq(Nat) /\ Len(Parent(p)) = Len(d) /\ \A i \in 1 .. Len(d) : Parent(p)[i] = d[i]
  <2>1. Len(p) - 1 = Len(d)
    BY <1>1, <1>2
  <2>2. QED BY <1>2, <1>4, <2>1, PathTypes
<1>6. Parent(p) = d
  BY <1>1, <1>5, SeqEqual
<1>7. QED BY <1>3, <1>6 DEF p

\* A flag that is added stays, and is of use.
LEMMA FlagAdded ==
  ASSUME NEW c \in Changes, NEW p \in Path, NEW now \in BOOLEAN, ~c.recrawl
  PROVE  LET n == AddWatcher(c, p, now)
         IN  /\ n \in Changes /\ ~n.recrawl /\ n.flags[p] # "none"
             /\ \A q \in Path \ {p} : n.flags[q] = c.flags[q]
<1> DEFINE flag == IF now \/ c.flags[p] = "crawl" THEN "crawl" ELSE "stat"
<1>1. AddWatcher(c, p, now) = [c EXCEPT !.flags = [c.flags EXCEPT ![p] = flag]]
  BY DEF AddWatcher
<1>2. flag \in {"none", "stat", "crawl"} /\ flag # "none"
  OBVIOUS
<1> HIDE DEF flag
<1>3. c.flags \in [Path -> {"none", "stat", "crawl"}]
  BY DEF Changes
<1>4. [c.flags EXCEPT ![p] = flag] \in [Path -> {"none", "stat", "crawl"}]
  BY <1>2, <1>3
<1>5. [c EXCEPT !.flags = [c.flags EXCEPT ![p] = flag]] = [flags |-> [c.flags EXCEPT ![p] = flag], recrawl |-> c.recrawl]
  BY DEF Changes
<1>6. QED BY <1>1, <1>2, <1>3, <1>4, <1>5 DEF Changes
\* handle_event while directories stay where they are.
LEMMA Handled ==
  ASSUME GrowTypes, HandleEvent
  PROVE  LET e == Head(kernel.queue)
             p == watches[e.wd] \o e.path
         IN  /\ kernel.queue # <<>> /\ e \in Event
             /\ kernel' = [kernel EXCEPT !.queue = Tail(@)]
             /\ UNCHANGED <<habit, disk, ops, watches, changes, tree, events, known>>
             /\ \/ e.kind = "OVERFLOW" /\ pending' = Recrawl
                \/ /\ e.kind # "OVERFLOW" /\ (e.wd \in DOMAIN watches => p \in Ignored)
                   /\ pending' = pending
                \/ /\ e.kind # "OVERFLOW" /\ e.wd \in DOMAIN watches /\ p \notin Ignored
                   /\ pending' = AddWatcher(pending, p, e.kind = "CREATE")
<1> DEFINE e == Head(kernel.queue)
           p == watches[e.wd] \o e.path
<1>1. kernel.queue # <<>> /\ kernel' = [kernel EXCEPT !.queue = Tail(@)] /\ UNCHANGED <<habit, disk, ops, changes, tree, events, known>>
  BY DEF HandleEvent
<1>2. kernel.queue \in Seq(Event)
  BY DEF GrowTypes, Kernel
<1>3. e \in Event
  BY <1>1, <1>2
<1>4. e.kind \in {"CREATE", "MODIFY", "OVERFLOW"}
  BY <1>3 DEF Event
<1> HIDE DEF e
<1>5. CASE e.kind = "OVERFLOW"
  BY <1>1, <1>3, <1>5 DEF HandleEvent, e
<1>6. CASE e.kind # "OVERFLOW" /\ e.wd \notin DOMAIN watches
  BY <1>1, <1>3, <1>4, <1>6 DEF HandleEvent, e
<1>7. CASE e.kind # "OVERFLOW" /\ e.wd \in DOMAIN watches
  <2>1. watches' = watches /\ pending' = IF p \in Ignored THEN pending ELSE AddWatcher(pending, p, e.kind \in {"CREATE", "DELETE"})
    BY <1>4, <1>7 DEF HandleEvent, e
  <2>2. (e.kind \in {"CREATE", "DELETE"}) = (e.kind = "CREATE")
    BY <1>4
  <2>3. QED BY <1>1, <1>3, <1>7, <2>1, <2>2 DEF e
<1>8. QED BY <1>5, <1>6, <1>7

LEMMA HandleEventBase ==
  ASSUME NEW M, NEW V, GrowBase(M, V), HandleEvent
  PROVE  GrowBase(M, V)'
<1> DEFINE e == Head(kernel.queue)
           p == watches[e.wd] \o e.path
<1>1. /\ kernel.queue # <<>> /\ e \in Event
      /\ kernel' = [kernel EXCEPT !.queue = Tail(@)]
      /\ UNCHANGED <<habit, disk, watches, changes, tree, events, known>>
      /\ \/ e.kind = "OVERFLOW" /\ pending' = Recrawl
         \/ /\ e.kind # "OVERFLOW" /\ (e.wd \in DOMAIN watches => p \in Ignored)
            /\ pending' = pending
         \/ /\ e.kind # "OVERFLOW" /\ e.wd \in DOMAIN watches /\ p \notin Ignored
            /\ pending' = AddWatcher(pending, p, e.kind = "CREATE")
  BY Handled DEF GrowBase
<1>2. kernel \in Kernel /\ kernel.queue \in Seq(Event)
  BY DEF GrowBase, GrowTypes, Kernel
<1>3. /\ Tail(kernel.queue) \in Seq(Event) /\ Len(kernel.queue) \in Nat
      /\ DOMAIN kernel.queue = 1 .. Len(kernel.queue) /\ DOMAIN Tail(kernel.queue) = 1 .. Len(kernel.queue) - 1
      /\ \A i \in 1 .. Len(kernel.queue) - 1 : Tail(kernel.queue)[i] = kernel.queue[i + 1]
      /\ kernel.queue[1] = e
  BY <1>1, <1>2
<1>4. kernel' \in Kernel /\ kernel'.wd = kernel.wd /\ kernel'.last = kernel.last /\ kernel'.queue = Tail(kernel.queue)
  BY <1>1, <1>2, <1>3 DEF Kernel
<1> HIDE DEF e
<1>5. ASSUME e.kind # "OVERFLOW", e.wd \in DOMAIN watches, p \in Path
      PROVE  p # Root /\ (p \notin Ignored => Visible(p))
  <2>1. watches[e.wd] \in Path /\ Visible(watches[e.wd])
    BY <1>5 DEF GrowBase, GrowTypes, Fits, Descriptions
  <2>2. e.path \in Seq(Nat) /\ Len(e.path) = 1
    BY <1>1, <1>5 DEF Event
  <2>3. p # Root /\ Parent(p) = watches[e.wd]
    BY <1>5, <2>1, <2>2, ChildOf
  <2>4. QED BY <1>5, <2>1, <2>3, VisibleParent
<1> HIDE DEF p
<1>6. pending' = pending \/ pending' = Recrawl
        \/ (p \in Path /\ ~pending.recrawl /\ e.kind # "OVERFLOW" /\ e.wd \in DOMAIN watches /\ p \notin Ignored
            /\ pending' = AddWatcher(pending, p, e.kind = "CREATE"))
  BY <1>1 DEF AddWatcher
<1>7. pending \in Changes /\ (e.kind = "CREATE") \in BOOLEAN
  BY DEF GrowBase, GrowTypes
<1>8. /\ pending' \in Changes
      /\ \A q \in Path : pending'.flags[q] # "none" => pending.flags[q] # "none" \/ (q # Root /\ Visible(q))
  <2>1. CASE pending' = pending
    BY <1>7, <2>1
  <2>2. CASE pending' = Recrawl
    BY <2>2, NoChanges
  <2>3. CASE p \in Path /\ ~pending.recrawl /\ p # Root /\ Visible(p) /\ pending' = AddWatcher(pending, p, e.kind = "CREATE")
    <3>1. pending' \in Changes /\ \A q \in Path \ {p} : pending'.flags[q] = pending.flags[q]
      BY <1>7, <2>3, FlagAdded
    <3>2. QED BY <2>3, <3>1
  <2>4. QED BY <1>5, <1>6, <2>1, <2>2, <2>3
<1>9. GrowTypes'
  BY <1>1, <1>4, <1>8 DEF GrowBase, GrowTypes
<1>10. NodesIn(tree)' /\ KnownIn(tree, events)'
  BY <1>1 DEF GrowBase, NodesIn, KnownIn
<1>11. Fits(Descriptions)' /\ DirsMappedBut(M)'
  BY <1>1, <1>4 DEF GrowBase, Fits, DirsMappedBut, Mapped, MappedIn, Descriptions
<1>12. FlagsVisible'
  BY <1>1, <1>8 DEF GrowBase, FlagsVisible
<1>13. AccountedBut(V)'
  <2>1. CASE RecrawlDue'
    BY <2>1 DEF AccountedBut
  <2>2. CASE ~RecrawlDue'
    <3>1. e.kind # "OVERFLOW" /\ ~pending'.recrawl /\ ~changes.recrawl
      <4>1. ~pending'.recrawl /\ ~changes.recrawl
        BY <1>1, <2>2 DEF RecrawlDue
      <4>2. pending' # Recrawl
        BY <4>1, NoChanges, Zenon
      <4>3. QED BY <1>1, <4>1, <4>2
    <3>2. ~pending.recrawl
      BY <1>6, <3>1, NoChanges DEF AddWatcher
    <3>3. ~Overflowed(kernel.queue)
      <4> SUFFICES ASSUME NEW i \in 1 .. Len(kernel.queue), kernel.queue[i].kind = "OVERFLOW" PROVE FALSE
        BY <1>3 DEF Overflowed
      <4>1. i # 1
        BY <1>3, <3>1
      <4>2. i - 1 \in 1 .. Len(kernel.queue) - 1 /\ (i - 1) + 1 = i
        BY <1>3, <4>1
      <4>3. i - 1 \in DOMAIN kernel'.queue /\ kernel'.queue[i - 1].kind = "OVERFLOW"
        BY <1>3, <1>4, <4>2
      <4>4. QED BY <2>2, <4>3 DEF RecrawlDue, Overflowed
    <3>4. ~RecrawlDue
      BY <3>1, <3>2, <3>3 DEF RecrawlDue
    <3>5. ASSUME NEW q \in Path \ {Root}, Visible(q), Told(q)
          PROVE  Told(q)' \/ Flagged(q)'
      <4>1. PICK i \in 1 .. Len(kernel.queue) : /\ kernel.queue[i].wd \in DOMAIN watches
                                                /\ watches[kernel.queue[i].wd] \o kernel.queue[i].path = q
                                                /\ kernel.queue[i].kind # "OVERFLOW"
        BY <1>3, <3>5 DEF Told
      <4>2. CASE i = 1
        <5>1. e.wd \in DOMAIN watches /\ p = q /\ q \notin Ignored
          BY <1>3, <3>5, <4>1, <4>2 DEF p, Visible
        <5>2. pending' = AddWatcher(pending, q, e.kind = "CREATE")
          BY <1>1, <3>1, <5>1
        <5>3. QED BY <1>7, <3>2, <5>2, FlagAdded DEF Flagged
      <4>3. CASE i # 1
        <5>1. i - 1 \in 1 .. Len(kernel.queue) - 1 /\ (i - 1) + 1 = i
          BY <1>3, <4>3
        <5>2. i - 1 \in DOMAIN kernel'.queue /\ kernel'.queue[i - 1] = kernel.queue[i]
          BY <1>3, <1>4, <5>1
        <5>3. QED BY <1>1, <4>1, <5>2 DEF Told
      <4>4. QED BY <4>2, <4>3
    <3>6. \A q \in Path : Flagged(q) => Flagged(q)'
      <4>1. \A q \in Path : pending.flags[q] # "none" => pending'.flags[q] # "none"
        <5>1. pending' # Recrawl
          BY <3>1, NoChanges, Zenon
        <5>2. CASE pending' = pending
          BY <5>2
        <5>3. CASE p \in Path /\ pending' = AddWatcher(pending, p, e.kind = "CREATE")
          <6>1. pending'.flags[p] # "none" /\ \A q \in Path \ {p} : pending'.flags[q] = pending.flags[q]
            BY <1>7, <3>2, <5>3, FlagAdded
          <6>2. QED BY <6>1
        <5>4. QED BY <1>6, <5>1, <5>2, <5>3
      <4>2. QED BY <1>1, <4>1 DEF Flagged
    <3>7. \A q \in Path : (q \in V' <=> q \in V) /\ (Knows(tree, q)' <=> Knows(tree, q)) /\ (OwedIn(tree, q)' <=> OwedIn(tree, q))
      BY <1>1 DEF Knows, OwedIn
    <3>8. SUFFICES ASSUME NEW q \in Path \ {Root}, OwedIn(tree, q)'
                   PROVE  (Knows(tree, q) \/ Told(q) \/ Flagged(q) \/ q \in V)'
      BY DEF AccountedBut
    <3>9. OwedIn(tree, q)
      BY <3>7, <3>8
    <3>10. Knows(tree, q) \/ Told(q) \/ Flagged(q) \/ q \in V
      BY <3>4, <3>9 DEF GrowBase, AccountedBut
    <3>11. QED BY <3>5, <3>6, <3>7, <3>9, <3>10 DEF OwedIn
  <2>3. QED BY <2>1, <2>2
<1>14. QED BY <1>9, <1>10, <1>11, <1>12, <1>13 DEF GrowBase

LEMMA TakePendingBase ==
  ASSUME NEW M, NEW V, GrowBase(M, V), TakePending
  PROVE  GrowBase(M, V)'
<1>1. /\ changes = Nothing /\ changes' = pending /\ pending' = Nothing
      /\ UNCHANGED <<habit, disk, kernel, watches, tree, events, known>>
  BY DEF TakePending
<1>2. GrowTypes'
  BY <1>1, NoChanges DEF GrowBase, GrowTypes
<1>3. NodesIn(tree)' /\ KnownIn(tree, events)' /\ Fits(Descriptions)' /\ DirsMappedBut(M)'
  BY <1>1 DEF GrowBase, NodesIn, KnownIn, Fits, DirsMappedBut, Mapped, MappedIn, Descriptions
<1>4. FlagsVisible'
  BY <1>1, NoChanges DEF GrowBase, FlagsVisible
<1>5. /\ RecrawlDue' <=> RecrawlDue
      /\ \A p \in Path : Flagged(p)' <=> Flagged(p)
  BY <1>1, NoChanges DEF RecrawlDue, Flagged
<1>6. \A p \in Path : /\ (Knows(tree, p)' <=> Knows(tree, p)) /\ (OwedIn(tree, p)' <=> OwedIn(tree, p))
                      /\ (Told(p)' <=> Told(p))
  BY <1>1 DEF Knows, OwedIn, Told
<1>7. AccountedBut(V)'
  BY <1>5, <1>6 DEF GrowBase, AccountedBut
<1>8. QED BY <1>2, <1>3, <1>4, <1>7 DEF GrowBase

LEMMA DeliverBase ==
  ASSUME NEW M, NEW V, GrowBase(M, V), Deliver
  PROVE  GrowBase(M, V)'
<1>1. /\ events' = [p \in Path |-> NoEvent]
      /\ UNCHANGED <<habit, disk, kernel, watches, pending, changes, tree>>
  BY DEF Deliver
<1>2. /\ known' \in [Path -> Stamp \cup {NoFile}]
      /\ \A p \in Path : known'[p] = IF IsFile(tree[p].meta) THEN tree[p].meta.stamp ELSE NoFile
  <2>1. known' = [p \in Path |->
                 CASE events[p] = NoEvent -> known[p]
                   [] Present(events[p]) /\ IsFile(tree[p].meta) -> tree[p].meta.stamp
                   [] Present(events[p]) /\ ~IsFile(tree[p].meta) -> known[p]
                   [] OTHER -> NoFile]
    BY DEF Deliver
  <2>2. ASSUME NEW p \in Path
        PROVE  /\ known'[p] = IF IsFile(tree[p].meta) THEN tree[p].meta.stamp ELSE NoFile
               /\ known'[p] \in Stamp \cup {NoFile}
    <3>1. events[p] \in {NoEvent, "Create", "Modified"} /\ known[p] \in Stamp \cup {NoFile}
      BY DEF GrowBase, GrowTypes, GrownEvents
    <3>2. /\ events[p] # NoEvent => IsFile(tree[p].meta)
          /\ events[p] = NoEvent => known[p] = IF IsFile(tree[p].meta) THEN tree[p].meta.stamp ELSE NoFile
      BY DEF GrowBase, KnownIn
    <3>3. CASE events[p] = NoEvent
      BY <2>1, <3>1, <3>2, <3>3 DEF Present, NoEvent
    <3>4. CASE events[p] # NoEvent
      <4>1. IsFile(tree[p].meta) /\ Present(events[p])
        BY <3>1, <3>2, <3>4 DEF Present
      <4>2. tree[p].meta.stamp \in Stamp
        BY <4>1, TreeTypes, NodeKinds, Kinds DEF GrowBase, GrowTypes
      <4>3. QED BY <2>1, <3>4, <4>1, <4>2
    <3>5. QED BY <3>3, <3>4
  <2>3. QED BY <2>1, <2>2
<1>3. GrowTypes'
  BY <1>1, <1>2 DEF GrowBase, GrowTypes, GrownEvents
<1>4. NodesIn(tree)' /\ Fits(Descriptions)' /\ DirsMappedBut(M)' /\ FlagsVisible'
  BY <1>1 DEF GrowBase, NodesIn, Fits, DirsMappedBut, Mapped, MappedIn, Descriptions, FlagsVisible
<1>5. KnownIn(tree, events)'
  BY <1>1, <1>2 DEF KnownIn
<1>6. AccountedBut(V)'
  BY <1>1 DEF GrowBase, AccountedBut, RecrawlDue, Knows, OwedIn, Told, Flagged
<1>7. QED BY <1>3, <1>4, <1>5, <1>6 DEF GrowBase

\* The worker's crawl or transaction: what was pending, or everything, is known
\* afterwards, and what is new to the tree is known and watched.
LEMMA ReconcileBase ==
  ASSUME GrowBase({}, {}), Reconcile
  PROVE  GrowBase({}, {})'
<1> DEFINE s == [tree |-> tree, events |-> events, watched |-> {}]
           t == IF changes.recrawl THEN Crawl(disk, s, Root) ELSE ApplyTransaction(disk, s, changes.flags)
           w == Watching(disk, Descriptions, t.watched)
           due == IF changes.recrawl THEN Path \ {Root} ELSE {p \in Path : changes.flags[p] # "none"}
<1>1. /\ tree' = t.tree /\ events' = t.events /\ WatchDirs(t.watched)
      /\ changes' = Nothing /\ UNCHANGED <<habit, disk, pending, known>>
  BY Zenon DEF Reconcile
<1>2. /\ disk \in Disk /\ NodesIn(tree) /\ kernel \in Kernel /\ Fits(Descriptions) /\ changes \in Changes
      /\ watches \in [DOMAIN watches -> Path] /\ DOMAIN watches \subseteq Nat \ {0}
  BY DEF GrowBase, GrowTypes
<1>3. s \in Grower /\ Sound(s) /\ s.tree = tree
  <2>1. s \in Grower /\ s.tree = tree /\ s.events = events /\ s.watched = {}
    BY DEF GrowBase, GrowTypes, Grower
  <2>2. QED BY <2>1 DEF GrowBase, Sound
<1> HIDE DEF s
<1>4. t \in Grower /\ Sound(t) /\ Grown(s, t) /\ Settled(t, due)
  <2>1. CASE changes.recrawl
    <3>1. HasNode(s.tree, Root) /\ IsDir(s.tree[Root].meta) /\ Root \in Path
      BY <1>2, <1>3, DiskShape, Kinds, PathAssumption DEF NodesIn
    <3>2. QED BY <1>2, <1>3, <2>1, <3>1, CrawlGrows, UnderRoot
  <2>2. CASE ~changes.recrawl
    <3>1. \A p \in Path : changes.flags[p] # "none" => p # Root /\ Visible(p)
      BY DEF GrowBase, FlagsVisible
    <3>2. QED BY <1>2, <1>3, <2>2, <3>1, TransactionGrows
  <2>3. QED BY <2>1, <2>2
<1> HIDE DEF t
<1>5. t.watched \in SUBSET Path /\ \A p \in t.watched : IsDir(disk[p].meta) /\ Visible(p)
  BY <1>4 DEF Grower, Sound, NodesIn
<1>6. Descriptions \in WatchState
  <2>1. kernel.wd \in [Inode -> Nat] /\ kernel.last \in Nat /\ \A i \in Inode : kernel.wd[i] <= kernel.last
    BY <1>2 DEF Kernel, Fits, Descriptions
  <2>2. \A d \in DOMAIN watches : d \in 1 .. kernel.last
    <3> TAKE d \in DOMAIN watches
    <3>1. watches[d] \in Path /\ d \in Nat \ {0} /\ kernel.wd[disk[watches[d]].ino] = d
      BY <1>2 DEF Fits, Descriptions
    <3>2. disk[watches[d]].ino \in Inode
      BY <1>2, <3>1, DiskKinds
    <3>3. QED BY <2>1, <3>1, <3>2
  <2>3. Descriptors(watches, kernel.last)
    BY <1>2, <2>2 DEF Descriptors
  <2>4. watches \in UNION {[D -> Path] : D \in SUBSET (Nat \ {0})} /\ DOMAIN watches \subseteq 1 .. kernel.last
    BY <2>1, <2>3, Typed
  <2>5. QED BY <2>1, <2>4 DEF WatchState, Descriptions
<1>7. w \in WatchState /\ Fits(w) /\ Extends(Descriptions, w) /\ \A p \in t.watched : MappedIn(w, p)
  BY <1>2, <1>5, <1>6, WatchingGrows
<1>8. kernel' = [kernel EXCEPT !.wd = w.wd, !.last = w.last] /\ watches' = w.watches
  BY <1>1, WatchDirsFolds DEF Descriptions
<1> HIDE DEF w
<1>9. /\ w.wd \in [Inode -> Nat] /\ w.last \in Nat /\ w = [wd |-> w.wd, last |-> w.last, watches |-> w.watches]
      /\ Descriptors(w.watches, w.last)
  BY <1>7, Typed DEF WatchState
<1>10. /\ kernel' \in Kernel /\ kernel'.queue = kernel.queue /\ kernel'.wd = w.wd /\ kernel'.last = w.last
  BY <1>2, <1>8, <1>9 DEF Kernel
<1>11. Descriptions' = w
  BY <1>8, <1>9, <1>10 DEF Descriptions
<1>12. GrowTypes'
  <2>1. watches' \in [DOMAIN watches' -> Path] /\ DOMAIN watches' \subseteq Nat \ {0}
    BY <1>8, <1>9 DEF Descriptors
  <2>2. tree' \in GrownTrees /\ events' \in GrownEvents
    BY <1>1, <1>4 DEF Grower
  <2>3. QED BY <1>1, <1>10, <2>1, <2>2, NoChanges DEF GrowBase, GrowTypes
<1>13. NodesIn(tree)' /\ KnownIn(tree, events)'
  BY <1>1, <1>4 DEF Sound, NodesIn, KnownIn
<1>14. Fits(Descriptions)'
  BY <1>1, <1>7, <1>11 DEF Fits
<1>15. DirsMappedBut({})'
  <2>1. ASSUME NEW p \in Path, HasNode(t.tree, p), IsDir(t.tree[p].meta)
        PROVE  MappedIn(w, p)
    <3>1. CASE p \in t.watched
      BY <1>7, <3>1
    <3>2. CASE HasNode(tree, p)
      <4>1. IsDir(tree[p].meta)
        BY <1>3, <1>4, <2>1, <3>2 DEF Grown
      <4>2. MappedIn(Descriptions, p)
        BY <2>1, <3>2, <4>1 DEF GrowBase, DirsMappedBut, Mapped
      <4>3. QED BY <1>7, <4>2 DEF Extends
    <3>3. QED BY <1>3, <1>4, <2>1, <3>1, <3>2 DEF Grown
  <2>2. \A p \in Path : Mapped(p)' <=> MappedIn(w, p)
    BY <1>1, <1>11 DEF Mapped, MappedIn
  <2>3. QED BY <1>1, <2>1, <2>2 DEF DirsMappedBut
<1>16. FlagsVisible'
  BY <1>1, NoChanges DEF GrowBase, FlagsVisible
<1>17. AccountedBut({})'
  <2>1. CASE RecrawlDue'
    BY <2>1 DEF AccountedBut
  <2>2. CASE ~RecrawlDue'
    <3>1. \A p \in Path : /\ Knows(tree, p)' <=> Knows(t.tree, p)
                          /\ OwedIn(tree, p)' <=> OwedIn(t.tree, p)
      BY <1>1 DEF Knows, OwedIn
    <3>2. \A p \in Path : Told(p) => Told(p)'
      <4>1. \A d \in DOMAIN watches : d \in DOMAIN watches' /\ watches'[d] = watches[d]
        BY <1>7, <1>8 DEF Extends, Descriptions
      <4>2. QED BY <1>10, <4>1 DEF Told
    <3>3. SUFFICES ASSUME NEW p \in Path \ {Root}, OwedIn(t.tree, p)
                   PROVE  Knows(t.tree, p) \/ Told(p)' \/ Flagged(p)'
      BY <3>1 DEF AccountedBut
    <3>4. CASE p \in due
      BY <1>4, <3>3, <3>4 DEF Settled
    <3>5. CASE p \notin due
      <4>1. ~changes.recrawl /\ changes.flags[p] = "none"
        BY <3>5
      <4>2. ~RecrawlDue
        BY <1>1, <1>10, <2>2, <4>1 DEF RecrawlDue
      <4>3. Knows(t.tree, p) \/ OwedIn(tree, p)
        BY <1>3, <1>4, <3>3 DEF Grown
      <4>4. Knows(tree, p) => Knows(t.tree, p)
        BY <1>3, <1>4 DEF Grown
      <4>5. OwedIn(tree, p) => Knows(tree, p) \/ Told(p) \/ Flagged(p)
        BY <4>2 DEF GrowBase, AccountedBut
      <4>6. Flagged(p) => Flagged(p)'
        BY <1>1, <4>1 DEF Flagged
      <4>7. QED BY <3>2, <4>3, <4>4, <4>5, <4>6
    <3>6. QED BY <3>4, <3>5
  <2>3. QED BY <2>1, <2>2
<1>18. QED BY <1>12, <1>13, <1>14, <1>15, <1>16, <1>17 DEF GrowBase

LEMMA WatchedMeans ==
  ASSUME Grows
  PROVE  \A p \in Path : p \in Watched <=> p # Root /\ Exists(disk, p) /\ Visible(p)
BY DEF Grows, Watched, Visible

\* The tree is the disk, as far as it is visible, and so is what a handler knows.
LEMMA InitBase ==
  ASSUME Init, Grows
  PROVE  GrowBase({}, {})
<1>1. PICK h \in Habits : Start(h)
  BY DEF Init
<1>2. /\ habit = h /\ disk = h.disk /\ disk \in Disk /\ h \in Habit
      /\ pending = Nothing /\ changes = Nothing /\ events = [p \in Path |-> NoEvent] /\ known = WatchedFiles
  BY <1>1, Started
<1>3. h.recursive = TRUE /\ \A p \in Path : disk[p].meta # Other
  BY <1>2 DEF Grows, Habit
<1>4. PICK lost \in CutOff(disk, Walk(disk, Root, h.recursive)) :
        LET dirs == CrawledDirs(disk, h.recursive, lost) IN
        /\ tree = CrawledTree(disk, h.recursive, lost)
        /\ dirs \in SUBSET Path
        /\ kernel.queue = <<>> /\ kernel.wd \in [Inode -> Nat] /\ kernel \in Kernels
        /\ watches \in [1 .. kernel.last -> dirs] /\ DOMAIN watches = 1 .. kernel.last
        /\ \A c, d \in DOMAIN watches : watches[c] = watches[d] => c = d
        /\ \A p \in dirs : \E d \in DOMAIN watches : watches[d] = p
        /\ \A i \in Inode : kernel.wd[i] # 0 => kernel.wd[i] \in DOMAIN watches /\ disk[watches[kernel.wd[i]]].ino = i
        /\ \A p \in dirs : kernel.wd[disk[p].ino] # 0
  BY <1>1, Started
\* Nothing stops a walk while there are no links.
<1>5. lost = {}
  <2> SUFFICES ASSUME NEW q \in lost PROVE FALSE
    OBVIOUS
  <2>1. PICK r \in Walk(disk, Root, TRUE) : ~Exists(disk, r)
    BY <1>3 DEF CutOff
  <2>2. r \in Path /\ Listed(disk, r)
    BY <2>1 DEF Walk, Under
  <2>3. QED BY <1>2, <1>3, <2>1, <2>2, DiskKinds
<1> DEFINE met == Met(disk, TRUE, {})
           dirs == CrawledDirs(disk, TRUE, {})
           InTree(p) == Exists(disk, p) /\ Visible(p)
<1>6. /\ tree = [p \in Path |-> IF p \in {Root} \cup met THEN Added(disk, p, TRUE) ELSE NoNode]
      /\ kernel.queue = <<>> /\ kernel.wd \in [Inode -> Nat] /\ kernel \in Kernels
      /\ watches \in [1 .. kernel.last -> dirs] /\ DOMAIN watches = 1 .. kernel.last
      /\ \A p \in dirs : \E d \in DOMAIN watches : watches[d] = p
      /\ \A i \in Inode : kernel.wd[i] # 0 => kernel.wd[i] \in DOMAIN watches /\ disk[watches[kernel.wd[i]]].ino = i
      /\ \A p \in dirs : kernel.wd[disk[p].ino] # 0
  BY <1>3, <1>4, <1>5, Zenon DEF CrawledTree
<1>7. \A p \in Path : p \in {Root} \cup met <=> InTree(p)
  <2> TAKE p \in Path
  <2>1. CASE p = Root
    BY <1>2, <2>1, DiskShape, RootVisible
  <2>2. CASE p # Root
    <3>1. p \in Walk(disk, Root, TRUE) <=> Listed(disk, p) /\ Visible(p)
      BY <2>2, UnderRoot DEF Walk, Visible
    <3>2. Exists(disk, p) => Listed(disk, p)
      BY <1>2, DiskKinds, Kinds
    <3>3. p \in met <=> p \in Walk(disk, Root, TRUE) /\ Exists(disk, p)
      BY DEF Met
    <3>4. QED BY <2>2, <3>1, <3>2, <3>3
  <2>3. QED BY <2>1, <2>2
<1>8. dirs \subseteq Path /\ \A p \in Path : p \in dirs <=> InTree(p) /\ IsDir(disk[p].meta)
  <2>1. met \subseteq Path
    BY DEF Met, Walk, Under
  <2>2. IsDir(disk[Root].meta)
    BY <1>2, DiskShape, Kinds
  <2>3. dirs = {Root} \cup {p \in met : IsDir(disk[p].meta)}
    BY DEF CrawledDirs
  <2>4. QED BY <1>7, <2>1, <2>2, <2>3, PathAssumption
<1> HIDE DEF met, dirs
<1>9. \A p \in Path : /\ InTree(p) => tree[p] \in TreeNode /\ tree[p].meta = disk[p].meta /\ HasNode(tree, p)
                      /\ ~InTree(p) => tree[p] = NoNode /\ ~HasNode(tree, p)
  <2> TAKE p \in Path
  <2>1. CASE InTree(p)
    <3>1. tree[p] = Added(disk, p, TRUE)
      BY <1>6, <1>7, <2>1
    <3> DEFINE listed == IsDir(disk[p].meta) /\ (TRUE \/ p = Root)
    <3>2. Added(disk, p, TRUE) = [meta |-> disk[p].meta, ino |-> disk[p].ino, watch |-> "recursive", listed |-> listed]
      BY DEF Added, Node
    <3>3. listed \in BOOLEAN
      OBVIOUS
    <3>4. disk[p].meta \in {Dir} \cup Files /\ disk[p].ino \in Inode
      BY <1>2, <2>1, DiskKinds
    <3> HIDE DEF listed
    <3>5. tree[p] = [meta |-> disk[p].meta, ino |-> disk[p].ino, watch |-> "recursive", listed |-> listed]
      BY <3>1, <3>2
    <3>6. tree[p] \in TreeNode /\ tree[p].meta = disk[p].meta
      BY <3>3, <3>4, <3>5 DEF TreeNode
    <3>7. QED BY <2>1, <3>6, NodeKinds DEF HasNode
  <2>2. CASE ~InTree(p)
    BY <1>6, <1>7, <2>2 DEF HasNode
  <2>3. QED BY <2>1, <2>2
<1>10. \A p \in Path : known[p] = IF IsFile(tree[p].meta) THEN tree[p].meta.stamp ELSE NoFile
  <2> TAKE p \in Path
  <2>1. p \in Watched /\ IsFile(disk[p].meta) <=> IsFile(tree[p].meta)
    <3>1. IsFile(disk[p].meta) => p # Root
      BY <1>2, DiskShape, Kinds
    <3>2. IsFile(tree[p].meta) <=> InTree(p) /\ IsFile(disk[p].meta)
      BY <1>9, NodeKinds
    <3>3. IsFile(disk[p].meta) => Exists(disk, p)
      BY <1>2, DiskKinds, Kinds
    <3>4. QED BY <3>1, <3>2, <3>3, WatchedMeans
  <2>2. IsFile(tree[p].meta) => tree[p].meta = disk[p].meta
    BY <1>9, NodeKinds
  <2>3. known[p] = IF p \in Watched /\ IsFile(disk[p].meta) THEN disk[p].meta.stamp ELSE NoFile
    BY <1>2 DEF WatchedFiles
  <2>4. QED BY <2>1, <2>2, <2>3
<1>11. GrowTypes
  <2>1. kernel \in Kernel
    <3>1. kernel = [queue |-> kernel.queue, wd |-> kernel.wd, last |-> kernel.last] /\ kernel.last \in Nat
      BY <1>6 DEF Kernels
    <3>2. <<>> \in Seq(Event)
      OBVIOUS
    <3>3. QED BY <1>6, <3>1, <3>2 DEF Kernel
  <2>2. watches \in [DOMAIN watches -> Path] /\ DOMAIN watches \subseteq Nat \ {0}
    <3>1. kernel.last \in Nat
      BY <1>6 DEF Kernels
    <3>2. QED BY <1>6, <1>8, <3>1
  <2>3. tree \in GrownTrees /\ events \in GrownEvents
    BY <1>2, <1>6, <1>9 DEF GrownTrees, GrownEvents
  <2>4. known \in [Path -> Stamp \cup {NoFile}]
    <3>1. \A p \in Path : IsFile(tree[p].meta) => tree[p].meta.stamp \in Stamp
      BY <1>9, NodeKinds, Kinds
    <3>2. known = [p \in Path |-> known[p]]
      BY <1>2 DEF WatchedFiles
    <3>3. \A p \in Path : known[p] \in Stamp \cup {NoFile}
      BY <1>10, <3>1
    <3>4. QED BY <3>2, <3>3
  <2>5. QED BY <1>2, <2>1, <2>2, <2>3, <2>4, NoChanges DEF GrowTypes
<1>12. NodesIn(tree)
  <2>1. HasNode(tree, Root)
    BY <1>2, <1>9, DiskShape, RootVisible, PathAssumption
  <2>2. ASSUME NEW p \in Path, HasNode(tree, p), NEW q \in Path, p \in Under(q)
        PROVE  HasNode(tree, q) /\ IsDir(tree[q].meta)
    <3>1. Listed(disk, p) /\ Visible(p)
      BY <1>2, <1>9, <2>2, DiskKinds, Kinds
    <3>2. IsDir(disk[q].meta)
      BY <1>2, <2>2, <3>1, DiskShape
    <3>3. Exists(disk, q)
      BY <1>2, <3>2, DiskKinds
    <3>4. Visible(q)
      BY <2>2, <3>1, UnderTransitive DEF Visible
    <3>5. QED BY <1>9, <3>2, <3>3, <3>4
  <2>3. QED BY <1>9, <2>1, <2>2 DEF NodesIn
<1>13. Fits(Descriptions)
  <2>1. \A i, j \in Inode : kernel.wd[i] <= kernel.last /\ (kernel.wd[i] = kernel.wd[j] /\ kernel.wd[i] # 0 => i = j)
    <3>1. kernel.last \in Nat /\ \A i \in Inode : kernel.wd[i] \in Nat
      BY <1>6 DEF Kernels
    <3>2. QED BY <1>6, <3>1
  <2>2. ASSUME NEW d \in DOMAIN watches
        PROVE  Visible(watches[d]) /\ IsDir(disk[watches[d]].meta) /\ kernel.wd[disk[watches[d]].ino] = d
    <3> DEFINE i == disk[watches[d]].ino
    <3>1. watches[d] \in dirs /\ watches[d] \in Path
      BY <1>6, <1>8
    <3>2. Visible(watches[d]) /\ IsDir(disk[watches[d]].meta) /\ i \in Inode /\ Listed(disk, watches[d])
      BY <1>2, <1>8, <3>1, DiskKinds, Kinds
    <3>3. kernel.wd[i] \in DOMAIN watches /\ disk[watches[kernel.wd[i]]].ino = i
      BY <1>6, <3>1, <3>2
    <3>4. watches[kernel.wd[i]] \in Path
      BY <1>6, <1>8, <3>3
    <3>5. watches[kernel.wd[i]] = watches[d]
      BY <1>2, <3>1, <3>2, <3>3, <3>4, DiskShape
    <3>6. \A c, e \in DOMAIN watches : watches[c] = watches[e] => c = e
      BY <1>3, <1>4
    <3>7. QED BY <3>2, <3>3, <3>5, <3>6
  <2>3. QED BY <2>1, <2>2 DEF Fits, Descriptions
<1>14. DirsMappedBut({})
  <2> SUFFICES ASSUME NEW p \in Path, HasNode(tree, p), IsDir(tree[p].meta) PROVE Mapped(p)
    BY DEF DirsMappedBut
  <2>1. p \in dirs
    BY <1>8, <1>9
  <2>2. PICK d \in DOMAIN watches : watches[d] = p
    BY <1>6, <2>1
  <2>3. kernel.wd[disk[p].ino] = d
    BY <1>13, <2>2 DEF Fits, Descriptions
  <2>4. QED BY <2>2, <2>3 DEF Mapped, MappedIn, Descriptions
<1>15. FlagsVisible
  BY <1>2, NoChanges DEF FlagsVisible
<1>16. KnownIn(tree, events)
  BY <1>2, <1>10 DEF KnownIn
<1>17. AccountedBut({})
  BY <1>9 DEF AccountedBut, OwedIn, Knows
<1>18. QED BY <1>11, <1>12, <1>13, <1>14, <1>15, <1>16, <1>17 DEF GrowBase

------------------------------------------------------------------------------
(* Theorems about what grows *)

\* The habit stays, so what never happens never happens.
LEMMA HabitStays == [Next]_vars => habit' = habit
<1>1. Operation => habit' = habit
  BY DEF Operation, CreateFile, WriteFile, Unlink, Symlink, Mkdir, Rmdir, RenameFile, RenameDir, Do
<1>2. HandleEvent \/ TakePending \/ Reconcile \/ Deliver => habit' = habit
  BY Zenon DEF HandleEvent, TakePending, Reconcile, Deliver
<1>3. QED BY <1>1, <1>2 DEF Next, Program, vars

LEMMA UnchangedBase ==
  ASSUME NEW M, NEW V, GrowBase(M, V),
         UNCHANGED <<habit, disk, kernel, watches, pending, changes, tree, events, known>>
  PROVE  GrowBase(M, V)'
<1>1. GrowTypes'
  BY DEF GrowBase, GrowTypes
<1>2. NodesIn(tree)' /\ Fits(Descriptions)' /\ DirsMappedBut(M)' /\ FlagsVisible' /\ KnownIn(tree, events)'
  BY DEF GrowBase, NodesIn, Fits, Descriptions, DirsMappedBut, Mapped, MappedIn, FlagsVisible, KnownIn
<1>3. AccountedBut(V)'
  BY DEF GrowBase, AccountedBut, RecrawlDue, Knows, OwedIn, Told, Flagged
<1>4. QED BY <1>1, <1>2, <1>3 DEF GrowBase

\* What the tree does not know is accounted for throughout, as long as nothing is
\* deleted or moved.
THEOREM GrowBaseHolds == Spec => [](Grows => GrowBase({}, {}))
<1> DEFINE Inv == Grows => GrowBase({}, {})
<1>1. Init => Inv
  BY InitBase
<1>2. Inv /\ [Next]_vars => Inv'
  <2> SUFFICES ASSUME Inv, [Next]_vars, Grows' PROVE GrowBase({}, {})'
    OBVIOUS
  <2>1. Grows
    BY HabitStays DEF Grows
  <2>2. CASE Operation
    BY <2>1, <2>2, OperationBase
  <2>3. CASE HandleEvent
    BY <2>1, <2>3, HandleEventBase
  <2>4. CASE TakePending
    BY <2>1, <2>4, TakePendingBase
  <2>5. CASE Reconcile
    BY <2>1, <2>5, ReconcileBase
  <2>6. CASE Deliver
    BY <2>1, <2>6, DeliverBase
  <2>7. CASE UNCHANGED vars
    BY <2>1, <2>7, UnchangedBase DEF vars
  <2>8. QED BY <2>2, <2>3, <2>4, <2>5, <2>6, <2>7 DEF Next, Program
<1>3. QED BY <1>1, <1>2, PTL DEF Spec

\* With no events under way and nothing pending, the tree is the disk.
LEMMA TreeIsDisk ==
  ASSUME GrowBase({}, {}), Idle
  PROVE  \A p \in Path : /\ HasNode(tree, p) <=> Exists(disk, p) /\ Visible(p)
                         /\ HasNode(tree, p) => tree[p].meta = disk[p].meta
<1>1. /\ kernel.queue = <<>> /\ pending = Nothing /\ changes = Nothing
      /\ disk \in Disk /\ NodesIn(tree) /\ tree \in GrownTrees
  BY DEF Idle, GrowBase, GrowTypes
<1>2. ~RecrawlDue
  BY <1>1, NoChanges DEF RecrawlDue, Overflowed
<1>3. \A p \in Path : ~Told(p) /\ ~Flagged(p)
  BY <1>1, NoChanges DEF Told, Flagged
<1>4. \A p \in Path \ {Root} : OwedIn(tree, p) => Knows(tree, p)
  BY <1>2, <1>3 DEF GrowBase, AccountedBut
<1>5. HasNode(tree, Root) /\ Exists(disk, Root) /\ tree[Root].meta = disk[Root].meta
  <2>1. HasNode(tree, Root) /\ disk[Root].meta = Dir /\ IsDir(tree[Root].meta) /\ Exists(disk, Root)
    BY <1>1, DiskShape, Kinds, PathAssumption DEF NodesIn
  <2>2. QED BY <1>1, <2>1, TreeTypes, NodeKinds, PathAssumption
<1> DEFINE Seen(p) == Exists(disk, p) /\ Visible(p)
           Lost == {p \in Path : Seen(p) /\ ~Knows(tree, p)}
           T == {Len(p) : p \in Lost}
\* The shortest path that the tree has not got has a parent that it has.
<1>6. Lost = {}
  <2> SUFFICES ASSUME Lost # {} PROVE FALSE
    OBVIOUS
  <2>1. T \in SUBSET Nat /\ T # {}
    BY PathTypes
  <2>2. PICK m \in T : \A k \in T : m <= k
    BY <2>1, FirstNumber
  <2>3. PICK p \in Lost : \A q \in Lost : Len(p) <= Len(q)
    BY <2>2
  <2>4. p \in Path \ {Root} /\ Seen(p)
    BY <1>5, <2>3 DEF Knows
  <2>5. Parent(p) \in Path /\ p \in Under(Parent(p)) /\ Len(Parent(p)) = Len(p) - 1 /\ Len(p) \in Nat
    BY <2>4, ParentMeans, PathTypes
  <2>6. Seen(Parent(p))
    <3>1. Listed(disk, p)
      BY <1>1, <2>4, DiskKinds, Kinds
    <3>2. IsDir(disk[Parent(p)].meta)
      BY <1>1, <2>5, <3>1, DiskShape
    <3>3. Exists(disk, Parent(p))
      BY <1>1, <2>5, <3>2, DiskKinds
    <3>4. QED BY <2>4, <3>3, VisibleParent
  <2>7. Parent(p) \notin Lost
    BY <2>3, <2>5
  <2>8. HasNode(tree, Parent(p))
    BY <2>5, <2>6, <2>7 DEF Knows
  <2>9. Knows(tree, p)
    BY <1>4, <2>4, <2>8 DEF OwedIn
  <2>10. QED BY <2>3, <2>9
<1>7. QED
  <2> TAKE p \in Path
  <2>1. HasNode(tree, p) => Seen(p)
    BY <1>1 DEF NodesIn
  <2>2. Seen(p) => Knows(tree, p)
    BY <1>6
  <2>3. QED BY <2>1, <2>2 DEF Knows

LEMMA SyncMeans ==
  ASSUME Grows, GrowBase({}, {})
  PROVE  InSync
<1>1. ASSUME Idle
      PROVE  known = WatchedFiles
  <2>1. known \in [Path -> Stamp \cup {NoFile}] /\ KnownIn(tree, events) /\ \A p \in Path : events[p] = NoEvent
    BY <1>1 DEF GrowBase, GrowTypes, Idle, Quiet
  <2>2. ASSUME NEW p \in Path
        PROVE  known[p] = IF p \in Watched /\ IsFile(disk[p].meta) THEN disk[p].meta.stamp ELSE NoFile
    <3>1. known[p] = IF IsFile(tree[p].meta) THEN tree[p].meta.stamp ELSE NoFile
      BY <2>1 DEF KnownIn
    <3>2. disk \in Disk /\ tree \in GrownTrees
      BY <1>1 DEF GrowBase, GrowTypes
    <3>3. IsFile(disk[p].meta) => p # Root
      BY <3>2, DiskShape, Kinds
    <3>4. IsFile(tree[p].meta) => HasNode(tree, p)
      BY <3>2, TreeTypes, NodeKinds
    <3>5. /\ HasNode(tree, p) <=> Exists(disk, p) /\ Visible(p)
          /\ HasNode(tree, p) => tree[p].meta = disk[p].meta
      BY <1>1, TreeIsDisk
    <3>6. p \in Watched <=> p # Root /\ Exists(disk, p) /\ Visible(p)
      BY <1>1, WatchedMeans
    <3>7. QED BY <3>1, <3>3, <3>4, <3>5, <3>6
  <2>3. QED BY <2>1, <2>2 DEF WatchedFiles
<1>2. QED BY <1>1 DEF InSync

LEMMA CoverMeans ==
  ASSUME Grows, GrowBase({}, {})
  PROVE  WatchesCover
<1>1. ASSUME Idle, NEW p \in Watched \cup {Root}, IsDir(disk[p].meta)
      PROVE  LET d == kernel.wd[disk[p].ino] IN d # 0 /\ watches[d] = p
  <2>1. p \in Path /\ Exists(disk, p) /\ Visible(p)
    <3>1. CASE p = Root
      BY <1>1, <3>1, DiskShape, RootVisible, PathAssumption DEF GrowBase, GrowTypes
    <3>2. CASE p # Root
      <4>1. p \in Watched /\ p \in Path
        BY <1>1, <3>2 DEF Watched
      <4>2. QED BY <1>1, <4>1, WatchedMeans
    <3>3. QED BY <3>1, <3>2
  <2>2. HasNode(tree, p) /\ IsDir(tree[p].meta)
    BY <1>1, <2>1, TreeIsDisk
  <2>3. Mapped(p)
    BY <1>1, <2>1, <2>2 DEF GrowBase, DirsMappedBut
  <2>4. QED BY <1>1, <2>3 DEF Mapped, MappedIn, Descriptions, GrowBase, GrowTypes
<1>2. QED BY <1>1 DEF WatchesCover

\* Sentry.InSync while things only appear or are written, for any disk at the start,
\* any filter, any number of operations and any length of the kernel's queue: once
\* everything has been reported, a handler knows exactly the files that are there
\* and not ignored, with their contents, though events came late, were taken twice
\* or were lost to an overflow (README.md:7, :12, worker.rs:133-155).
THEOREM GrowingStaysInSync == Spec => [](Grows => InSync)
<1>1. (Grows => GrowBase({}, {})) => (Grows => InSync)
  BY SyncMeans
<1>2. QED BY <1>1, GrowBaseHolds, PTL

\* Sentry.WatchesCover under the same habits: every directory to watch, also one
\* that came to be with what is in it before its own watch, is watched, and its
\* descriptor stands for its path (inotify.rs:134-138, tree.rs:458-555).
THEOREM GrowingStaysCovered == Spec => [](Grows => WatchesCover)
<1>1. (Grows => GrowBase({}, {})) => (Grows => WatchesCover)
  BY CoverMeans
<1>2. QED BY <1>1, GrowBaseHolds, PTL

------------------------------------------------------------------------------
(* Nothing ignored *)

\* What a change at p does to s: only p may get a node, only what has one is reported,
\* and what is not below p is what it was.
Touches(s, r, p) ==
  /\ r \in Walker /\ r.watched = s.watched /\ Keeps(s.tree, r.tree)
  /\ \A q \in Path :
       /\ HasNode(r.tree, q) => HasNode(s.tree, q) \/ q = p
       /\ r.events[q] # s.events[q] => HasNode(r.tree, q)
       /\ q # p /\ q \notin Under(p) => r.tree[q].meta = s.tree[q].meta

LEMMA NothingTouched == \A s \in Walker : \A p : Touches(s, s, p)
BY DEF Touches, Keeps

LEMMA TouchesFurther ==
  ASSUME NEW s, NEW a, NEW r, NEW p, Touches(s, a, p), Touches(a, r, p)
  PROVE  Touches(s, r, p)
BY DEF Touches, Keeps

LEMMA EmitTouches ==
  ASSUME NEW s \in Walker, NEW p \in Path, NEW ty \in EventType \cup {NoEvent}
  PROVE  /\ Emit(s, p, ty) \in Walker /\ Emit(s, p, ty).tree = s.tree /\ Emit(s, p, ty).watched = s.watched
         /\ \A q \in Path \ {p} : Emit(s, p, ty).events[q] = s.events[q]
         /\ HasNode(s.tree, p) => Touches(s, Emit(s, p, ty), p)
<1> DEFINE e == Emit(s, p, ty)
<1>1. e \in Walker /\ e.tree = s.tree
  BY EmitType
<1>2. s.events \in EventMaps
  BY DEF Walker
<1>3. e.watched = s.watched /\ \A q \in Path \ {p} : e.events[q] = s.events[q]
  BY <1>2 DEF Emit, EventMaps, Walker
<1> HIDE DEF e
<1>4. HasNode(s.tree, p) => Touches(s, e, p)
  BY <1>1, <1>3 DEF Touches, Keeps
<1>5. QED BY <1>1, <1>3, <1>4 DEF e

LEMMA SetNodeTouches ==
  ASSUME NEW s \in Walker, NEW p \in Path, NEW n \in AnyNode
  PROVE  Touches(s, SetNode(s, p, n), p) /\ SetNode(s, p, n).events = s.events
<1> DEFINE r == SetNode(s, p, n)
<1>1. r \in Walker /\ r.tree = [s.tree EXCEPT ![p] = n] /\ Keeps(s.tree, r.tree)
  BY SetNodeType
<1>2. r.events = s.events /\ r.watched = s.watched
  BY DEF SetNode, Walker
<1>3. s.tree \in [Path -> AnyNode \cup {NoNode}]
  BY DEF Walker, Trees
<1> HIDE DEF r
<1>4. \A q \in Path \ {p} : r.tree[q] = s.tree[q]
  BY <1>1, <1>3
<1>5. Touches(s, r, p)
  BY <1>1, <1>2, <1>4 DEF Touches, HasNode
<1>6. QED BY <1>2, <1>5 DEF r

LEMMA MarkTouches ==
  ASSUME NEW s \in Walker, NEW p \in Path, NEW a, Touches(s, a, p), NEW t,
         NEW q \in Path, q = p \/ q \in Under(p), HasNode(s.tree, q)
  PROVE  Touches(s, Mark(t, q, a), p)
<1> DEFINE ty == IF IsFile(t[q].meta) THEN "Delete" ELSE NoEvent
           e == Emit(a, q, ty)
           n == [e.tree[q] EXCEPT !.meta = Deleted]
           r == SetNode(e, q, n)
<1>1. a \in Walker /\ HasNode(a.tree, q)
  BY DEF Touches, Keeps
<1>2. ty \in EventType \cup {NoEvent}
  BY EventTypes
<1> HIDE DEF ty
<1>3. e \in Walker /\ e.tree = a.tree /\ Touches(a, e, q)
  BY <1>1, <1>2, EmitTouches
<1>4. e.tree[q] \in AnyNode
  BY <1>1, <1>3, HasAny DEF Walker
<1>5. n \in AnyNode
  BY <1>4 DEF AnyNode
<1>6. Mark(t, q, a) = r
  BY DEF Mark, SetNode, ty
<1> HIDE DEF e, n
<1>7. Touches(e, r, q)
  BY <1>3, <1>5, SetNodeTouches
<1> HIDE DEF r
<1>8. Touches(a, r, q)
  BY <1>3, <1>7, TouchesFurther
<1>9. \A u \in Path : u # p /\ u \notin Under(p) => u # q /\ u \notin Under(q)
  BY UnderTransitive
<1>10. Touches(s, r, p)
  BY <1>8, <1>9 DEF Touches, Keeps
<1>11. QED BY <1>6, <1>10

\* FileTree::delete_rec
LEMMA DeleteRecTouches ==
  ASSUME NEW s \in Walker, NEW p \in Path, HasNode(s.tree, p)
  PROVE  Touches(s, DeleteRec(s, p), p)
<1>1. PICK below \in SUBSET Path :
        /\ \A q \in below : q \in Under(p) /\ HasNode(s.tree, q)
        /\ DeleteRec(s, p) = IF s.tree[p].listed THEN MarkedGone(s.tree, [s EXCEPT !.tree[p].meta = Deleted], below)
                                                 ELSE s
  BY DeleteRecFolds
<1> DEFINE t == s.tree
           b == [s EXCEPT !.tree[p].meta = Deleted]
           n == [s.tree[p] EXCEPT !.meta = Deleted]
           X == {a \in Walker : Touches(s, a, p)}
<1>2. s.tree[p] \in AnyNode
  BY HasAny DEF Walker
<1>3. n \in AnyNode
  BY <1>2 DEF AnyNode
<1>4. b = SetNode(s, p, n)
  BY DEF SetNode
<1> HIDE DEF b, n, t
<1>5. b \in X
  BY <1>3, <1>4, SetNodeTouches DEF Touches
<1>6. \A q \in below, a \in X : Mark(t, q, a) \in X
  <2> TAKE q \in below, a \in X
  <2>1. Touches(s, Mark(t, q, a), p)
    BY <1>1, MarkTouches
  <2>2. QED BY <2>1 DEF Touches
<1>7. s \in X
  BY NothingTouched
<1> HIDE DEF X
<1>8. MarkedGoneIn(t, b, below, X)
  BY <1>5, <1>6 DEF MarkedGoneIn
<1>9. MarkedGone(t, b, below) \in X
  BY <1>8, MarkedGoneStays
<1>10. DeleteRec(s, p) \in X
  BY <1>1, <1>7, <1>9 DEF t, b
<1>11. QED BY <1>10 DEF X

\* FileTree::apply_change
LEMMA ApplyKnownTouches ==
  ASSUME NEW fs \in Disk, NEW s \in Walker, NEW p \in Path, NEW flags, HasNode(s.tree, p)
  PROVE  LET a == ApplyKnown(fs, s, p, flags)
         IN  Touches(s, a.s, p) /\ (IsDir(fs[p].meta) => a.s.tree[p].meta = fs[p].meta)
<1> DEFINE node == [s.tree[p] EXCEPT !.watch = Marked(@, "mark" \in flags)]
           inode_changed == fs[p].ino # node.ino
           changed == ChangeType(node.meta, fs[p].meta, inode_changed \/ "origin" \in flags)
           old == [node EXCEPT !.meta = Deleted]
           gone == SetNode(s, p, old)
           listed == node.listed \/ (IsDir(fs[p].meta) /\ WatchesChildren(node))
           new == Node(fs[p], node.watch, listed)
           e == Emit(s, p, changed)
           a == ApplyKnown(fs, s, p, flags)
<1>1. s.tree[p] \in AnyNode
  BY HasAny DEF Walker
<1>2. node \in AnyNode
  BY <1>1 DEF AnyNode, Marked
<1>3. old \in AnyNode
  BY <1>2 DEF AnyNode
<1>4. listed \in BOOLEAN
  BY <1>2, AnyKinds DEF WatchesChildren, IsDir
<1> HIDE DEF listed, node
<1>5. CASE Exists(fs, p)
  <2>1. fs[p].meta \in {Dir} \cup Files /\ fs[p].ino \in Ino \cup {RootIno}
    <3>1. fs[p].meta \in {Dir} \cup Files /\ fs[p].ino \in Inode /\ fs[p].ino # 0
      BY <1>5, DiskKinds, DiskIs, Kinds DEF DiskOf
    <3>2. QED BY <3>1 DEF Inode
  <2>2. new = [meta |-> fs[p].meta, ino |-> fs[p].ino, watch |-> node.watch, listed |-> listed]
    BY DEF Node
  <2>3. new \in AnyNode /\ new.meta = fs[p].meta
    BY <1>2, <1>4, <2>1, <2>2, AnyKinds DEF AnyNode
  <2>4. changed \in EventType \cup {NoEvent}
    BY EventTypes
  <2> HIDE DEF changed, new
  <2>5. e \in Walker /\ Touches(s, e, p)
    BY <2>4, EmitTouches
  <2>6. a.s = SetNode(e, p, new)
    BY <1>5 DEF ApplyKnown, changed, new, node, listed
  <2> HIDE DEF e, a
  <2>7. Touches(e, SetNode(e, p, new), p)
    BY <2>3, <2>5, SetNodeTouches
  <2>8. SetNode(e, p, new).tree = [e.tree EXCEPT ![p] = new] /\ e.tree \in [Path -> AnyNode \cup {NoNode}]
    BY <2>3, <2>5, SetNodeType DEF Walker, Trees
  <2>9. SetNode(e, p, new).tree[p] = new
    BY <2>8
  <2>10. QED BY <2>3, <2>5, <2>6, <2>7, <2>9, TouchesFurther DEF a
<1>6. CASE ~Exists(fs, p)
  <2> HIDE DEF old
  <2>1. gone \in Walker /\ HasNode(gone.tree, p) /\ Touches(s, gone, p)
    BY <1>3, SetNodeType, SetNodeTouches
  <2>2. a.s = CASE IsDir(node.meta) -> DeleteRec(gone, p) [] IsFile(node.meta) -> Emit(gone, p, "Delete") [] OTHER -> gone
    BY <1>6 DEF ApplyKnown, old, node
  <2> HIDE DEF gone, a
  <2>3. Touches(gone, DeleteRec(gone, p), p)
    BY <2>1, DeleteRecTouches
  <2>4. Touches(gone, Emit(gone, p, "Delete"), p)
    BY <2>1, EmitTouches, EventTypes
  <2>5. IsDir(node.meta) \/ IsFile(node.meta) \/ (~IsDir(node.meta) /\ ~IsFile(node.meta))
    BY DEF IsDir, IsFile
  <2>6. a.s \in {DeleteRec(gone, p), Emit(gone, p, "Delete"), gone}
    BY <2>2, <2>5, Zenon DEF IsDir, IsFile
  <2>7. ~IsDir(fs[p].meta)
    BY <1>6, DiskKinds
  <2>8. QED BY <2>1, <2>3, <2>4, <2>6, <2>7, TouchesFurther DEF a
<1>7. QED BY <1>5, <1>6

LEMMA ApplyNewTouches ==
  ASSUME NEW fs \in Disk, NEW s \in Walker, NEW p \in Path, NEW flags, ~HasNode(s.tree, p)
  PROVE  Touches(s, ApplyNew(fs, s, p, flags).s, p)
<1> DEFINE recursive == "mark" \in flags \/ IsRecursive(s.tree[Parent(p)])
           ty == IF IsFile(fs[p].meta) THEN "Create" ELSE NoEvent
           e == Emit(s, p, ty)
           watch == Marked("none", recursive)
           listed == IsDir(fs[p].meta) /\ recursive
           new == Node(fs[p], watch, listed)
           d == Parent(p)
           dir == [e.tree[d] EXCEPT !.listed = TRUE]
           f == SetNode(e, d, dir)
           r == ApplyNew(fs, s, p, flags).s
<1>1. CASE Exists(fs, p) /\ p # Root /\ HasNode(s.tree, Parent(p))
  <2>1. fs[p].meta \in {Dir} \cup Files /\ fs[p].ino \in Ino \cup {RootIno}
    <3>1. fs[p].meta \in {Dir} \cup Files /\ fs[p].ino \in Inode /\ fs[p].ino # 0
      BY <1>1, DiskKinds, DiskIs, Kinds DEF DiskOf
    <3>2. QED BY <3>1 DEF Inode
  <2>2. watch \in {"none", "children", "recursive"} /\ listed \in BOOLEAN
    BY DEF Marked, IsDir, IsRecursive
  <2>3. ty \in EventType \cup {NoEvent}
    BY EventTypes
  <2>4. r = NewNode(e, p, new)
    BY <1>1 DEF ApplyNew
  <2>5. NewNode(e, p, new) = SetNode(f, p, new)
    BY <1>1 DEF NewNode, SetNode
  <2> HIDE DEF watch, listed, ty, r
  <2>6. new = [meta |-> fs[p].meta, ino |-> fs[p].ino, watch |-> watch, listed |-> listed]
    BY DEF Node
  <2>7. new \in AnyNode
    BY <2>1, <2>2, <2>6 DEF AnyNode
  <2> HIDE DEF new
  <2>8. /\ e \in Walker /\ e.tree = s.tree /\ e.watched = s.watched
        /\ \A q \in Path \ {p} : e.events[q] = s.events[q]
    BY <2>3, EmitTouches
  <2>9. d \in Path /\ d # p /\ e.tree[d] \in AnyNode
    <3>1. d \in Path /\ HasNode(s.tree, d)
      BY <1>1, PathAssumption
    <3>2. QED BY <2>8, <3>1, HasAny DEF Walker
  <2>10. dir \in AnyNode /\ dir.meta = e.tree[d].meta
    BY <2>9 DEF AnyNode
  <2> HIDE DEF dir, e
  <2>11. f \in Walker /\ f.tree = [e.tree EXCEPT ![d] = dir] /\ f.events = e.events /\ f.watched = e.watched /\ Keeps(e.tree, f.tree)
    BY <2>8, <2>9, <2>10, SetNodeType, SetNodeTouches DEF Touches
  <2> HIDE DEF f
  <2>12. Touches(f, SetNode(f, p, new), p) /\ SetNode(f, p, new).events = f.events /\ HasNode(SetNode(f, p, new).tree, p)
    BY <2>7, <2>11, SetNodeType, SetNodeTouches
  <2>13. \A q \in Path : (HasNode(f.tree, q) => HasNode(s.tree, q)) /\ f.tree[q].meta = s.tree[q].meta
    <3>1. s.tree \in [Path -> AnyNode \cup {NoNode}]
      BY DEF Walker, Trees
    <3>2. HasNode(s.tree, d)
      BY <1>1
    <3>3. QED BY <2>8, <2>9, <2>10, <2>11, <3>1, <3>2 DEF HasNode
  <2>14. Touches(s, SetNode(f, p, new), p)
    BY <2>8, <2>11, <2>12, <2>13 DEF Touches, Keeps
  <2>15. QED BY <2>4, <2>5, <2>14 DEF r
<1>2. CASE ~(Exists(fs, p) /\ p # Root /\ HasNode(s.tree, Parent(p)))
  <2>1. r = s
    BY <1>2 DEF ApplyNew
  <2>2. QED BY <2>1, NothingTouched
<1>3. QED BY <1>1, <1>2

LEMMA ApplyChangeTouches ==
  ASSUME NEW fs \in Disk, NEW s \in Walker, NEW p \in Path, NEW flags
  PROVE  LET a == ApplyChange(fs, s, p, flags)
         IN  /\ Touches(s, a.s, p)
             /\ HasNode(s.tree, p) /\ IsDir(fs[p].meta) => a.s.tree[p].meta = fs[p].meta
BY ApplyKnownTouches, ApplyNewTouches DEF ApplyChange

LEMMA ReportGoneTouches ==
  ASSUME NEW s \in Walker, NEW q \in Path, HasNode(s.tree, q)
  PROVE  Touches(s, ReportGone(q, s), q)
<1> DEFINE e == Emit(s, q, IF IsFile(s.tree[q].meta) THEN "Delete" ELSE NoEvent)
<1>1. e \in Walker /\ e.tree = s.tree /\ Touches(s, e, q)
  BY EmitTouches, EventTypes
<1>2. ReportGone(q, s) = DeleteRec(e, q)
  BY DEF ReportGone
<1> HIDE DEF e
<1>3. Touches(e, DeleteRec(e, q), q)
  BY <1>1, DeleteRecTouches
<1>4. QED BY <1>1, <1>2, <1>3, TouchesFurther

\* What a crawl did not meet is deleted; nothing else is but what is below it.
LEMMA RemovedTouches ==
  ASSUME NEW s \in Walker, NEW ps \in SUBSET Path, \A p \in ps : HasNode(s.tree, p)
  PROVE  LET r == Removed(s, ps)
         IN  /\ r \in Walker /\ r.watched = s.watched /\ Keeps(s.tree, r.tree)
             /\ \A q \in Path :
                  /\ HasNode(r.tree, q) => HasNode(s.tree, q)
                  /\ r.events[q] # s.events[q] => HasNode(s.tree, q)
                  /\ (\A p \in ps : q # p /\ q \notin Under(p)) => r.tree[q].meta = s.tree[q].meta
<1> DEFINE X == {r \in Walker :
                   /\ r.watched = s.watched /\ Keeps(s.tree, r.tree)
                   /\ \A q \in Path :
                        /\ HasNode(r.tree, q) => HasNode(s.tree, q)
                        /\ r.events[q] # s.events[q] => HasNode(s.tree, q)
                        /\ (\A p \in ps : q # p /\ q \notin Under(p)) => r.tree[q].meta = s.tree[q].meta}
<1>1. s \in X
  BY DEF Keeps
<1>2. \A p \in ps, a \in X : ReportGone(p, a) \in X
  <2> TAKE p \in ps, a \in X
  <2> DEFINE r == ReportGone(p, a)
  <2>1. a \in Walker /\ p \in Path /\ HasNode(s.tree, p) /\ HasNode(a.tree, p)
    BY DEF Keeps
  <2>2. Touches(a, r, p)
    BY <2>1, ReportGoneTouches
  <2> HIDE DEF r
  <2>3. r \in Walker /\ r.watched = s.watched /\ Keeps(s.tree, r.tree)
    BY <2>2 DEF Touches, Keeps
  <2>4. ASSUME NEW q \in Path
        PROVE  /\ HasNode(r.tree, q) => HasNode(s.tree, q)
               /\ r.events[q] # s.events[q] => HasNode(s.tree, q)
               /\ (\A u \in ps : q # u /\ q \notin Under(u)) => r.tree[q].meta = s.tree[q].meta
    BY <2>1, <2>2 DEF Touches
  <2>5. QED BY <2>3, <2>4 DEF r
<1> HIDE DEF X
<1>3. RemovedIn(s, ps, X)
  BY <1>1, <1>2 DEF RemovedIn
<1>4. Removed(s, ps) \in X
  BY <1>3, RemovedStays
<1>5. QED BY <1>4 DEF X

\* Of what is ignored nothing is in the tree, reported or about to be watched.
Clean(s) == \A q \in Path : ~Visible(q) => ~HasNode(s.tree, q) /\ s.events[q] = NoEvent /\ q \notin s.watched

LEMMA TouchedClean ==
  ASSUME NEW s, Clean(s), NEW p \in Path, NEW r, Touches(s, r, p), Visible(p) \/ HasNode(s.tree, p)
  PROVE  Clean(r)
<1>1. Visible(p)
  BY DEF Clean
<1>2. QED BY <1>1 DEF Clean, Touches

LEMMA VisitClean ==
  ASSUME NEW fs \in Disk, NEW s \in Walker, Clean(s), NEW p \in Path, Visible(p), NEW recursive
  PROVE  Visit(fs, p, s, recursive) \in Walker /\ Clean(Visit(fs, p, s, recursive))
<1> DEFINE a == ApplyChange(fs, s, p, CrawlFlags(recursive)).s
           w == AddWatch(a, p)
<1>1. Touches(s, a, p)
  BY ApplyChangeTouches
<1>2. Visit(fs, p, s, recursive) = IF IsDir(a.tree[p].meta) /\ recursive THEN w ELSE a
  BY DEF Visit
<1> HIDE DEF a
<1>3. a \in Walker /\ Clean(a)
  BY <1>1, TouchedClean DEF Touches
<1>4. w \in Walker /\ w.tree = a.tree /\ w.events = a.events /\ w.watched = a.watched \cup {p}
  BY <1>3, AddWatchType DEF AddWatch, Walker
<1> HIDE DEF w
<1>5. Clean(w)
  BY <1>3, <1>4 DEF Clean
<1>6. QED BY <1>2, <1>3, <1>4, <1>5

LEMMA CrawlClean ==
  ASSUME NEW fs \in Disk, NEW s \in Walker, Clean(s), NEW p \in Path, Visible(p)
  PROVE  Crawl(fs, s, p) \in Walker /\ Clean(Crawl(fs, s, p))
<1> DEFINE recursive == IsRecursive(s.tree[p])
           met == Walk(fs, p, recursive)
           b == AddWatch(s, p)
           after == Visited(fs, b, recursive, met)
           entered == {q \in met \cup {p} : /\ after.tree[q].listed
                                            /\ q = p \/ (IsDir(after.tree[q].meta) /\ recursive)}
           unvisited == (UNION {ChildNodes(after.tree, q) : q \in entered}) \ met
           r == Removed(after, unvisited)
           X == {a \in Walker : Clean(a)}
<1>1. Crawl(fs, s, p) = r
  BY CrawlFolds, Zenon
<1>2. met \in SUBSET Path /\ \A q \in met : Visible(q)
  <2>1. \A q \in met : q \in Under(p) /\ \A u \in Under(p) : (u = q \/ q \in Under(u)) => u \notin Ignored
    BY DEF Walk
  <2> HIDE DEF met
  <2>2. QED BY <2>1, BelowVisible DEF Under
<1>3. b \in Walker /\ b.tree = s.tree /\ b.events = s.events /\ b.watched = s.watched \cup {p}
  BY AddWatchType DEF AddWatch, Walker
<1>4. unvisited \in SUBSET Path /\ \A q \in unvisited : HasNode(after.tree, q)
  BY DEF ChildNodes, Under
<1> HIDE DEF met, unvisited, recursive, b
<1>5. b \in X
  BY <1>3 DEF Clean
<1>6. VisitedIn(fs, recursive, b, met, X)
  BY <1>2, <1>5, VisitClean DEF VisitedIn
<1> HIDE DEF X
<1>7. after \in X
  BY <1>6, VisitedStays
<1>8. after \in Walker /\ Clean(after)
  BY <1>7 DEF X
<1> HIDE DEF after
<1>9. /\ r \in Walker /\ r.watched = after.watched
      /\ \A q \in Path : /\ HasNode(r.tree, q) => HasNode(after.tree, q)
                         /\ r.events[q] # after.events[q] => HasNode(after.tree, q)
  BY <1>4, <1>8, RemovedTouches
<1> HIDE DEF r
<1>10. Clean(r)
  BY <1>8, <1>9 DEF Clean
<1>11. QED BY <1>1, <1>9, <1>10

LEMMA TransactionClean ==
  ASSUME NEW fs \in Disk, NEW s \in Walker, Clean(s), NEW c, \A p \in Path : c[p] # "none" => Visible(p)
  PROVE  ApplyTransaction(fs, s, c) \in Walker /\ Clean(ApplyTransaction(fs, s, c))
<1> DEFINE ps == {p \in Path : c[p] # "none"}
           C == {a \in Walker : Clean(a)}
           X == [s : C, skip : SUBSET Path]
           b == [s |-> s, skip |-> {}]
<1>1. ApplyTransaction(fs, s, c) = Changed(fs, c, b, ps).s
  BY TransactionFolds
<1>2. ps \in SUBSET Path /\ (\A p \in ps : Visible(p)) /\ b \in X
  OBVIOUS
<1> HIDE DEF ps, b
<1>3. \A p \in ps, x \in X : Change(fs, c, p, x) \in X
  <2> TAKE p \in ps, x \in X
  <2> DEFINE flags == {"origin"} \cup ({"crawl"} \cap {c[p]})
             a == ApplyChange(fs, x.s, p, flags)
             enter == HasNode(a.s.tree, p) /\ IsDir(a.s.tree[p].meta) /\ p \notin Ignored
             after == IF enter THEN Crawl(fs, a.s, p) ELSE a.s
  <2>1. x.s \in Walker /\ Clean(x.s) /\ x.skip \in SUBSET Path /\ p \in Path /\ Visible(p)
    BY <1>2
  <2>2. Touches(x.s, a.s, p)
    BY <2>1, ApplyChangeTouches
  <2>3. a.s \in Walker /\ Clean(a.s)
    BY <2>1, <2>2, TouchedClean DEF Touches
  <2>4. Change(fs, c, p, x) = IF Skipped(p, x.skip) THEN x
                              ELSE IF a.recurse THEN [s |-> after, skip |-> x.skip \cup {p}]
                                                ELSE [x EXCEPT !.s = a.s]
    BY Zenon DEF Change
  <2> HIDE DEF a, enter
  <2>5. after \in C /\ a.s \in C
    BY <2>1, <2>3, CrawlClean
  <2> HIDE DEF after, C
  <2>6. QED BY <2>1, <2>4, <2>5
<1> HIDE DEF X, C
<1>4. ChangedIn(fs, c, b, ps, X)
  BY <1>2, <1>3 DEF ChangedIn
<1>5. Changed(fs, c, b, ps) \in X
  BY <1>4, ChangedStays
<1>6. QED BY <1>1, <1>5 DEF X, C

\* Watches under visible paths stay such.
LEMMA WatchingClean ==
  ASSUME NEW fs \in Disk, NEW ps \in SUBSET Path, \A p \in ps : Visible(p),
         NEW w \in WatchState, \A d \in DOMAIN w.watches : Visible(w.watches[d])
  PROVE  \A d \in DOMAIN Watching(fs, w, ps).watches : Visible(Watching(fs, w, ps).watches[d])
<1> DEFINE X == {v \in WatchState : \A d \in DOMAIN v.watches : Visible(v.watches[d])}
<1>1. \A p \in ps, v \in X : WatchDir(fs, p, v) \in X
  <2> TAKE p \in ps, v \in X
  <2>1. WatchDir(fs, p, v) \in WatchState
    BY WatchDirType
  <2>2. WatchDir(fs, p, v) = v \/ \E d : WatchDir(fs, p, v).watches = Inserted(v.watches, d, p)
    BY DEF WatchDir
  <2>3. QED BY <2>1, <2>2 DEF Inserted
<1>2. w \in X
  OBVIOUS
<1> HIDE DEF X
<1>3. WatchingIn(fs, w, ps, X)
  BY <1>1, <1>2 DEF WatchingIn
<1>4. Watching(fs, w, ps) \in X
  BY <1>3, WatchingStays
<1>5. QED BY <1>4 DEF X

SentryState == [tree |-> tree, events |-> events, watched |-> {}]

LEMMA IgnoredMeans ==
  IgnoredStaysOut <=>
    /\ Clean(SentryState)
    /\ \A p \in Path : ~Visible(p) =>
         /\ known[p] = NoFile /\ pending.flags[p] = "none" /\ changes.flags[p] = "none"
         /\ \A d \in DOMAIN watches : watches[d] # p
BY DEF IgnoredStaysOut, Visible, Clean, SentryState

LEMMA ZeroOrOne == \A n \in Nat : n <= 1 => n = 0 \/ n = 1
OBVIOUS

LEMMA HandleEventIgnored ==
  ASSUME TypeInv, IgnoredStaysOut, HandleEvent
  PROVE  IgnoredStaysOut'
<1> DEFINE e == Head(kernel.queue)
           dir == watches[e.wd]
           child == dir \o e.path
           less == Restrict(watches, DOMAIN watches \ {e.wd})
           now == e.kind \in {"CREATE", "DELETE"}
<1>1. /\ kernel.queue # <<>> /\ UNCHANGED <<changes, tree, events, known>>
  BY DEF HandleEvent
<1>2. kernel.queue \in Seq(Note)
  BY DEF TypeInv, Kernels
<1>3. e \in Note
  BY <1>1, <1>2
<1>4. e.path \in Seq(Nat) /\ Len(e.path) <= 1 /\ Len(e.path) \in Nat
  BY <1>3 DEF Note
<1> HIDE DEF e
<1>5. e.wd \in DOMAIN watches => dir \in Path /\ Visible(dir)
  BY IgnoredMeans DEF TypeInv, Descriptors
<1>6. e.wd \in DOMAIN watches /\ child \in Path => Visible(child) \/ child \in Ignored
  <2> SUFFICES ASSUME e.wd \in DOMAIN watches, child \in Path, child \notin Ignored PROVE Visible(child)
    OBVIOUS
  <2> HIDE DEF dir
  <2>1. CASE Len(e.path) = 1
    <3>1. child # Root /\ Parent(child) = dir
      BY <1>4, <1>5, <2>1, ChildOf
    <3>2. QED BY <1>5, <3>1, VisibleParent
  <2>2. CASE Len(e.path) = 0
    <3>1. e.path = <<>> /\ dir \in Seq(Nat)
      BY <1>4, <1>5, <2>2, EmptySeq, PathTypes
    <3>2. child = dir
      BY <3>1, ConcatEmptySeq
    <3>3. QED BY <1>5, <3>2
  <2>4. Len(e.path) = 0 \/ Len(e.path) = 1
    BY <1>4, ZeroOrOne, Zenon
  <2>5. QED BY <2>1, <2>2, <2>4, Zenon
<1>7. \A d \in DOMAIN less : d \in DOMAIN watches /\ less[d] = watches[d]
  BY DEF Restrict
<1>8. pending \in Changes
  BY DEF TypeInv
<1>9. ASSUME NEW p, NEW crawls \in BOOLEAN, p \in Path => Visible(p)
      PROVE  \A q \in Path : ~Visible(q) => AddWatcher(pending, p, crawls).flags[q] = pending.flags[q]
  <2>1. CASE pending.recrawl \/ p \notin Path
    BY <2>1 DEF AddWatcher
  <2>2. CASE ~pending.recrawl /\ p \in Path
    <3>1. \A q \in Path \ {p} : AddWatcher(pending, p, crawls).flags[q] = pending.flags[q]
      BY <1>8, <2>2, FlagAdded
    <3>2. QED BY <1>9, <2>2, <3>1
  <2>3. QED BY <2>1, <2>2
<1>10. now \in BOOLEAN
  OBVIOUS
<1> HIDE DEF less, dir, child, now
<1>11. /\ \A q \in Path : ~Visible(q) => pending'.flags[q] \in {pending.flags[q], "none"}
       /\ watches' \in {watches, less}
  <2>1. CASE e.kind = "OVERFLOW"
    <3>1. pending' = Recrawl /\ watches' = watches
      BY <2>1 DEF HandleEvent, e
    <3>2. QED BY <3>1, NoChanges
  <2>2. CASE e.kind # "OVERFLOW" /\ e.wd \notin DOMAIN watches
    <3>1. pending' \in {Recrawl, pending} /\ watches' = watches
      BY <2>2 DEF HandleEvent, e
    <3>2. QED BY <3>1, NoChanges
  <2>3. CASE e.kind \in {"MOVE_SELF", "IGNORED"} /\ e.wd \in DOMAIN watches
    <3>1. pending' = AddWatcher(pending, dir, TRUE) /\ watches' \in {less, watches}
      BY <2>3 DEF HandleEvent, e, dir, less
    <3>2. QED BY <1>5, <1>9, <2>3, <3>1
  <2>4. CASE e.kind \notin {"OVERFLOW", "MOVE_SELF", "IGNORED"} /\ e.wd \in DOMAIN watches
    <3>1. pending' = (IF child \in Ignored THEN pending ELSE AddWatcher(pending, child, now)) /\ watches' = watches
      BY <2>4 DEF HandleEvent, e, dir, child, now
    <3>2. QED BY <1>6, <1>9, <1>10, <2>4, <3>1
  <2>5. QED BY <2>1, <2>2, <2>3, <2>4
<1>12. \A p \in Path : ~Visible(p) => pending'.flags[p] = "none" /\ \A d \in DOMAIN watches' : watches'[d] # p
  BY <1>7, <1>11, IgnoredMeans
<1>13. QED BY <1>1, <1>12 DEF IgnoredStaysOut, Visible

LEMMA TakePendingIgnored ==
  ASSUME IgnoredStaysOut, TakePending
  PROVE  IgnoredStaysOut'
<1>1. changes' = pending /\ pending' = Nothing /\ UNCHANGED <<watches, tree, events, known>>
  BY DEF TakePending
<1>2. QED BY <1>1, NoChanges DEF IgnoredStaysOut

\* What was not reported is not known.
LEMMA DeliverIgnored ==
  ASSUME IgnoredStaysOut, Deliver
  PROVE  IgnoredStaysOut'
<1>1. /\ events' = [p \in Path |-> NoEvent] /\ UNCHANGED <<watches, pending, changes, tree>>
      /\ \A p \in Path : events[p] = NoEvent => known'[p] = known[p]
  BY DEF Deliver, Present, NoEvent
<1>2. QED BY <1>1 DEF IgnoredStaysOut

LEMMA ReconcileIgnored ==
  ASSUME TypeInv, IgnoredStaysOut, Reconcile
  PROVE  IgnoredStaysOut'
<1> DEFINE s == SentryState
           t == IF changes.recrawl THEN Crawl(disk, s, Root) ELSE ApplyTransaction(disk, s, changes.flags)
           b == [wd |-> kernel.wd, last |-> kernel.last, watches |-> watches]
           w == Watching(disk, b, t.watched)
<1>1. /\ tree' = t.tree /\ events' = t.events /\ WatchDirs(t.watched)
      /\ changes' = Nothing /\ UNCHANGED <<pending, known>>
  BY Zenon DEF Reconcile, SentryState
<1>2. disk \in Disk /\ s \in Walker /\ Clean(s)
  BY IgnoredMeans DEF TypeInv, Walker, SentryState
<1>3. \A p \in Path : changes.flags[p] # "none" => Visible(p)
  BY IgnoredMeans
<1> HIDE DEF s
<1>4. t \in Walker /\ Clean(t)
  BY <1>2, <1>3, CrawlClean, TransactionClean, PathAssumption, RootVisible
<1> HIDE DEF t
<1>5. t.watched \in SUBSET Path /\ \A p \in t.watched : Visible(p)
  BY <1>4 DEF Walker, Clean
<1>6. watches' = w.watches
  BY <1>1, WatchDirsFolds
<1>7. b \in WatchState
  <2>1. kernel.wd \in [Inode -> Nat] /\ kernel.last \in Nat
    BY DEF TypeInv, Kernels
  <2>2. QED BY <2>1, Typed DEF WatchState, TypeInv
<1>8. \A d \in DOMAIN b.watches : Visible(b.watches[d])
  <2>1. \A d \in DOMAIN watches : watches[d] \in Path
    BY DEF TypeInv, Descriptors
  <2>2. QED BY <2>1, IgnoredMeans
<1> HIDE DEF b
<1>9. \A d \in DOMAIN w.watches : Visible(w.watches[d])
  BY <1>2, <1>5, <1>7, <1>8, WatchingClean
<1> HIDE DEF w
<1>10. ASSUME NEW p \in Path, ~Visible(p)
       PROVE  /\ ~HasNode(tree', p) /\ events'[p] = NoEvent /\ known'[p] = NoFile
              /\ pending'.flags[p] = "none" /\ changes'.flags[p] = "none"
              /\ \A d \in DOMAIN watches' : watches'[d] # p
  BY <1>1, <1>4, <1>6, <1>9, <1>10, IgnoredMeans, NoChanges DEF Clean
<1>11. QED BY <1>10 DEF IgnoredStaysOut, Visible

LEMMA OperationIgnored ==
  ASSUME IgnoredStaysOut, Operation \/ UNCHANGED vars
  PROVE  IgnoredStaysOut'
<1>1. UNCHANGED <<watches, pending, changes, tree, events, known>>
  <2>1. ASSUME NEW op, Do(op) PROVE UNCHANGED <<watches, pending, changes, tree, events, known>>
    BY <2>1 DEF Do
  <2>2. ASSUME Operation PROVE \E op : Do(op)
    BY <2>2 DEF Operation, CreateFile, WriteFile, Unlink, Symlink, Mkdir, Rmdir, RenameFile, RenameDir
  <2>3. QED BY <2>1, <2>2 DEF vars
<1>2. QED BY <1>1 DEF IgnoredStaysOut

LEMMA InitIgnored ==
  ASSUME Init
  PROVE  IgnoredStaysOut
<1>1. PICK h \in Habits : Start(h)
  BY DEF Init
<1>2. /\ disk \in Disk /\ pending = Nothing /\ changes = Nothing /\ events = [p \in Path |-> NoEvent] /\ known = WatchedFiles
  BY <1>1, Started
<1>3. PICK lost \in CutOff(disk, Walk(disk, Root, h.recursive)) :
        LET dirs == CrawledDirs(disk, h.recursive, lost) IN
        /\ tree = CrawledTree(disk, h.recursive, lost)
        /\ watches \in [1 .. kernel.last -> dirs] /\ DOMAIN watches = 1 .. kernel.last
  BY <1>1, Started
<1>4. \A p \in Path : p \in {Root} \cup Met(disk, h.recursive, lost) => Visible(p)
  <2>1. \A p \in Met(disk, h.recursive, lost) :
          p \in Under(Root) /\ \A u \in Under(Root) : (u = p \/ p \in Under(u)) => u \notin Ignored
    BY DEF Met, Walk
  <2>2. QED BY <2>1, RootVisible, BelowVisible, PathAssumption
<1>5. \A p \in Path : ~Visible(p) => ~HasNode(tree, p)
  BY <1>3, <1>4 DEF CrawledTree, HasNode
<1>6. \A d \in DOMAIN watches : watches[d] \in {Root} \cup Met(disk, h.recursive, lost)
  BY <1>3 DEF CrawledDirs
<1>7. \A p \in Path : ~Visible(p) => known[p] = NoFile
  BY <1>2 DEF WatchedFiles, Watched, Visible
<1>8. QED BY <1>2, <1>4, <1>5, <1>6, <1>7, NoChanges DEF IgnoredStaysOut, Visible

\* Sentry.IgnoredStaysOut: whatever other programs do, moves into and out of ignored
\* directories included, nothing ignored comes into the tree, is watched, is looked at
\* or is reported (tree.rs:498-503, :588-595, inotify.rs:105-110).
THEOREM IgnoredIsLeftAlone == Spec => []IgnoredStaysOut
<1>1. Init => TypeInv /\ IgnoredStaysOut
  BY InitType, InitIgnored
<1>2. TypeInv /\ IgnoredStaysOut /\ [Next]_vars => TypeInv' /\ IgnoredStaysOut'
  BY TypeInvStep, OperationIgnored, HandleEventIgnored, TakePendingIgnored, ReconcileIgnored, DeliverIgnored
     DEF Next, Program
<1>3. QED BY <1>1, <1>2, PTL DEF Spec
==============================================================================
