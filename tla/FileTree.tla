------------------------------- MODULE FileTree ------------------------------
(***************************************************************************)
(* The in-memory view of the watched tree (tree.rs) as operators: given    *)
(* the state `fs` of the disk, what a pending change or a crawl makes of   *)
(* the tree, which events it emits and which directories it watches.       *)
(*                                                                         *)
(* The operators work on a record s with the fields                        *)
(*   tree    [Path -> Node]         path_table and nodes                   *)
(*   events  [Path -> type]         the debouncer, see EventDebouncer      *)
(*   watched SUBSET Path            the directories add_watch was called   *)
(*                                  for                                    *)
(* A path is the sequence of its names, names are numbers: is_parent_of is *)
(* "strict prefix of" and the order of paths is the lexicographic one.     *)
(* There is one root. A directory has a size other than 0, so a watched    *)
(* one always gets a list of children. The file system does not change     *)
(* while an operator runs, nor does a readdir or an lstat fail.            *)
(***************************************************************************)
EXTENDS Naturals, SequencesExt, FileEvents
\* Definitions named X_bug are wrong on purpose: X with a plausible mistake.

CONSTANTS Path,           \* all paths there may be, closed under parents
          Ignored         \* the paths the filter ignores

Root == <<>>

Parent(p) == Front(p)

ASSUME PathAssumption == /\ IsFiniteSet(Path) /\ Path \subseteq Seq(Nat) /\ Root \in Path
                         /\ \A p \in Path \ {Root} : Parent(p) \in Path

Under(p) == {q \in Path : IsStrictPrefix(p, q)}

\* The order in which PendingChanges::drain hands out changes.
Before(p, q) ==
  \/ IsStrictPrefix(p, q)
  \/ \E i \in DOMAIN p \cap DOMAIN q :
       p[i] < q[i] /\ \A j \in 1 .. i - 1 : p[j] = q[j]

\* op(p, s) for every p of ps in that order.
FoldPaths(op(_, _), s, ps) ==
  MapThenFoldSet(op, s, LAMBDA p : p,
                 LAMBDA S : CHOOSE p \in S : \A q \in S \ {p} : Before(q, p), ps)

------------------------------------------------------------------------------
(* The disk: what is there and its inode. A readdir lists everything, Metadata  *)
(* knows regular files and directories only: symlinks, sockets, ... are Other.  *)

Absent == [meta |-> Deleted, ino |-> 0]
Other  == [kind |-> "Other"]

Listed(fs, p) == fs[p].meta # Deleted

\* Metadata::for_path; nothing for what is neither a file nor a directory.
ForPath(fs, p) == IF fs[p].meta = Other THEN Absent ELSE fs[p]

Exists(fs, p) == ForPath(fs, p) # Absent

\* The paths under p that a walk from p meets: no ignored one, none below an
\* ignored one, and only the children of p unless the walk is recursive.
Walk(fs, p, recursive) ==
  {q \in Under(p) : /\ Listed(fs, q)
                    /\ recursive \/ Parent(q) = p
                    /\ \A r \in Under(p) : (r = q \/ q \in Under(r)) => r \notin Ignored}

------------------------------------------------------------------------------
(* Nodes; `listed`: children.is_some(), `watch`: RECURSIVE or WATCH_CHILDREN *)

Node(d, watch, listed) == [meta |-> d.meta, ino |-> d.ino, watch |-> watch, listed |-> listed]

NoNode == Node([meta |-> [kind |-> "NoNode"], ino |-> 0], "none", FALSE)

HasNode(t, p) == t[p] # NoNode

ChildNodes(t, p) == {q \in Under(p) : Parent(q) = p /\ HasNode(t, q)}

WatchesChildren(node) == node.watch # "none"
IsRecursive(node) == node.watch = "recursive"
Marked(watch, mark) == IF mark THEN "recursive" ELSE watch

Emit(s, p, ty) ==
  IF ty = NoEvent THEN s
  ELSE [s EXCEPT !.events[p] = IF @ = NoEvent THEN ty ELSE Merge(@, ty)]

AddWatch(s, p) == [s EXCEPT !.watched = @ \cup {p}]

SetNode(s, p, node) == [s EXCEPT !.tree[p] = node]

\* add_child: a new node; its parent has a list of children from now on.
NewNode(s, p, node) ==
  SetNode(IF p = Root THEN s ELSE [s EXCEPT !.tree[Parent(p)].listed = TRUE], p, node)

\* The node that FileTree::add makes for a path that is new to the tree.
Added(fs, p, recursive) ==
  Node(fs[p], CASE recursive -> "recursive"
                [] ~recursive /\ p = Root -> "children"
                [] OTHER -> "none",
       IsDir(fs[p].meta) /\ (recursive \/ p = Root))

DeleteRec_bug(s, p) == [s EXCEPT !.tree[p].meta = Deleted]    \* not recursive

\* FileTree::delete_rec. A node without a list of children is left as it is.
\* The walk goes down through directories that have a list.
DeleteRec(s, p) ==
  LET open(q) == IsDir(s.tree[q].meta) /\ s.tree[q].listed
      below == {q \in Under(p) : /\ HasNode(s.tree, q)
                                 /\ \A r \in Under(p) : q \in Under(r) => open(r)}
      mark(q, acc) ==
        [Emit(acc, q, IF IsFile(s.tree[q].meta) THEN "Delete" ELSE NoEvent)
           EXCEPT !.tree[q].meta = Deleted]
  IN  IF s.tree[p].listed
        THEN FoldPaths(mark, [s EXCEPT !.tree[p].meta = Deleted], below)
        ELSE s

\* Must the content of a path the tree knows be looked at?
NeedsCrawl(flagged, inode_changed, changed) ==
  flagged \/ inode_changed \/ changed = "Create"

\* FileTree::apply_change on a path the tree has a node for. Of the flags of a
\* change, "crawl" is NEEDS_(NON_)RECURSIVE_CRAWL, "mark" MARK_RECURSIVE and
\* "origin" ORIGIN_WATCHER.
ApplyKnown(fs, s, p, flags) ==
  LET node == [s.tree[p] EXCEPT !.watch = Marked(@, "mark" \in flags)]
      inode_changed == fs[p].ino # node.ino
      changed == ChangeType(node.meta, fs[p].meta, inode_changed \/ "origin" \in flags)
      gone == SetNode(s, p, [node EXCEPT !.meta = Deleted])
  IN  IF Exists(fs, p)
        THEN [s |-> SetNode(Emit(s, p, changed), p,
                      Node(fs[p], node.watch,
                           node.listed \/ (IsDir(fs[p].meta) /\ WatchesChildren(node)))),
              recurse |-> /\ NeedsCrawl("crawl" \in flags, inode_changed, changed)
                          /\ WatchesChildren(node)]
        ELSE [s |-> CASE IsDir(node.meta)  -> DeleteRec(gone, p)
                      [] IsFile(node.meta) -> Emit(gone, p, "Delete")
                      [] OTHER             -> gone,
              recurse |-> TRUE]

ApplyNew_bug(fs, s, p, flags) ==      \* a path that is gone again gets a node
  [s |-> SetNode(s, p, Node(ForPath(fs, p), "none", FALSE)), recurse |-> FALSE]

\* FileTree::apply_change on a path that is new to the tree.
ApplyNew(fs, s, p, flags) ==
  IF Exists(fs, p) /\ p # Root /\ HasNode(s.tree, Parent(p))
    THEN LET recursive == "mark" \in flags \/ IsRecursive(s.tree[Parent(p)])
         IN  [s |-> NewNode(Emit(s, p, IF IsFile(fs[p].meta) THEN "Create" ELSE NoEvent), p,
                      Node(fs[p], Marked("none", recursive), IsDir(fs[p].meta) /\ recursive)),
              recurse |-> recursive]
    ELSE [s |-> s, recurse |-> TRUE]

ApplyChange(fs, s, p, flags) ==
  IF HasNode(s.tree, p) THEN ApplyKnown(fs, s, p, flags) ELSE ApplyNew(fs, s, p, flags)

\* The flags of what a crawl meets.
CrawlFlags(recursive) == {"crawl"} \cup (IF recursive THEN {"mark"} ELSE {})

Visit_bug(fs, q, acc, recursive) ==      \* no watch
  ApplyChange(fs, acc, q, CrawlFlags(recursive)).s

\* A crawl meets q.
Visit(fs, q, acc, recursive) ==
  LET a == ApplyChange(fs, acc, q, CrawlFlags(recursive)).s
  IN  IF IsDir(a.tree[q].meta) /\ recursive THEN AddWatch(a, q) ELSE a

\* FileTree::crawl of p: watch every directory met, apply a change to everything
\* met, then delete the children of the directories entered that were not met.
Crawl(fs, s, p) ==
  LET recursive == IsRecursive(s.tree[p])
      met == Walk(fs, p, recursive)
      after == FoldPaths(LAMBDA q, acc : Visit(fs, q, acc, recursive), AddWatch(s, p), met)
      entered == {q \in met \cup {p} : /\ after.tree[q].listed
                                       /\ q = p \/ (IsDir(after.tree[q].meta) /\ recursive)}
      unvisited == (UNION {ChildNodes(after.tree, q) : q \in entered}) \ met
      remove(q, acc) ==
        DeleteRec(Emit(acc, q, IF IsFile(acc.tree[q].meta) THEN "Delete" ELSE NoEvent), q)
  IN  FoldPaths(remove, after, unvisited)

\* Does a path that was looked at with all its content cover p?
Skipped(p, roots) == \E q \in roots : p \in Under(q)

\* FileTree::apply_transaction: a change that needs a crawl also stands for the
\* pending changes below its path.
\*   changes   [Path -> {"none", "stat", "crawl"}]
ApplyTransaction(fs, s, changes) ==
  LET step(p, acc) ==
        IF Skipped(p, acc.skip) THEN acc
        ELSE LET a == ApplyChange(fs, acc.s, p, {"origin"} \cup ({"crawl"} \cap {changes[p]}))
                 enter == HasNode(a.s.tree, p) /\ IsDir(a.s.tree[p].meta) /\ p \notin Ignored
             IN  IF a.recurse
                   THEN [s |-> IF enter THEN Crawl(fs, a.s, p) ELSE a.s,
                         skip |-> acc.skip \cup {p}]
                   ELSE [acc EXCEPT !.s = a.s]
  IN  FoldPaths(step, [s |-> s, skip |-> {}], {p \in Path : changes[p] # "none"}).s

\* What crawl_root may leave out of a walk: when the tree refuses what was met
\* (it is Other), the rest of the directory it is in, in readdir's order.
CutOff(fs, walk) ==
  {lost \in SUBSET walk :
     \A q \in lost : \E r \in walk \ lost : Parent(r) = Parent(q) /\ ~Exists(fs, r)}

\* What crawl_root of the root meets and adds.
Met(fs, recursive, lost) ==
  {q \in Walk(fs, Root, recursive) : Exists(fs, q) /\ \A r \in lost : q # r /\ q \notin Under(r)}

\* FileTree::add_root and crawl_root make a tree of the root and all that is met,
\* without an event. Their directories are watched.
CrawledTree(fs, recursive, lost) ==
  [p \in Path |-> IF p \in {Root} \cup Met(fs, recursive, lost) THEN Added(fs, p, recursive)
                                                               ELSE NoNode]

CrawledDirs(fs, recursive, lost) ==
  {Root} \cup {p \in Met(fs, recursive, lost) : recursive /\ IsDir(fs[p].meta)}
==============================================================================
