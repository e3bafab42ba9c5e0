---------------------------- MODULE CanonicalPath ----------------------------
(***************************************************************************)
(* Canonical paths as the program sees them (path.rs): sequences of bytes  *)
(* that start with the separator and do not end with it. (The terminating  *)
(* NUL that Unix paths carry is stripped before anything is compared.)     *)
(* Operators only. Definitions named X_bug are wrong on purpose.           *)
(***************************************************************************)
EXTENDS Naturals, Sequences

Sep == 47                 \* PATH_SEPARATOR; "!" is 33, letters are above

Rank_bug(b) == b          \* plain bytes: "!" comes before the separator

\* The separator is below every other byte.
Rank(b) == IF b = Sep THEN 0 ELSE b + 1

SameUpTo(p, q, n) == \A i \in 1 .. n : p[i] = q[i]

\* cmp(p, q) is Less: by the first byte that differs, else by length.
Less(p, q) ==
  \/ \E i \in 1 .. Len(p) :
       i <= Len(q) /\ SameUpTo(p, q, i - 1) /\ p[i] # q[i] /\ Rank(p[i]) < Rank(q[i])
  \/ Len(p) < Len(q) /\ SameUpTo(p, q, Len(p))

\* CannonicalPath::is_parent_of: parent or any ancestor.
IsParentOf(p, q) == Len(p) < Len(q) /\ SameUpTo(p, q, Len(p)) /\ q[Len(p) + 1] = Sep

\* CannonicalPath::parent: up to the last separator.
Parent(p) == SubSeq(p, 1, (CHOOSE i \in 1 .. Len(p) : /\ p[i] = Sep
                                                      /\ \A j \in i + 1 .. Len(p) : p[j] # Sep) - 1)

\* Does a watch of p, maybe of all that is below it, tell of changes in d?
Reaches(p, recursive, d) == d = p \/ (recursive /\ IsParentOf(p, d))
==============================================================================
