--------------------------------- MODULE Roots --------------------------------
(***************************************************************************)
(* How the worker comes to its roots: Watcher::add_root asks for one, the  *)
(* worker puts it into the tree, has the backend watch it, crawls it and   *)
(* lists it for later recrawls (process_notifications in worker.rs, add    *)
(* and crawl_root in tree.rs), and how a recrawl goes over all of them     *)
(* (crawl in tree.rs). Only directories matter here: which of them have a  *)
(* node, which nodes are recursive or deleted, which are watched. They stay*)
(* where they are on the disk; what a crawl does not meet any more is      *)
(* what the filter has come to ignore.                                     *)
(*                                                                         *)
(* `call` is the worker's call of Backend::watch_dir, answered by the      *)
(* backend that a composing module adds.                                   *)
(*                                                                         *)
(* Definitions named X_bug are wrong on purpose.                           *)
(***************************************************************************)
EXTENDS CanonicalPath, SequencesExt, FiniteSets

CONSTANT Dir              \* the directories there are

ASSUME DirAssumption == \A d \in Dir : d \in Seq(Nat)

Request == [path : Dir, recursive : BOOLEAN]

VARIABLES filter,         \* Config.filter: the directories it ignores
          recrawl,        \* PendingChanges: is a recrawl due?
          stop,           \* the backend's shutdown flag
          todo,           \* Notifications.roots
          batch,          \* what the worker took of it
          nodes,          \* FileTree: "none", "plain", "children" or "recursive"
          tree,           \* which nodes are NodeMeta::Deleted, which have a list of
                          \* children, which are in the list of their parent
          roots,          \* Worker.roots
          wpc,            \* the worker: "loop", "batch", "root", "crawl" or "recrawl"
          towatch,        \* what the running crawl has yet to watch
          snapshot,       \* the filter it uses
          tocrawl,        \* what is left of the running recrawl
          call,           \* Backend::watch_dir: where the call is
          answers,        \* history: how the requests were answered, in that order
          watched,        \* history: the directories watch_dir succeeded for
          reopened        \* history: was a filter taken back, in part at least?

rootsVars == <<filter, recrawl, stop, todo, batch, nodes, tree, roots, wpc, towatch, snapshot, tocrawl,
               call, answers, watched, reopened>>

\* What only the worker's steps change, once a request or a filter is there.
workerOnly == <<filter, todo, batch, nodes, tree, roots, wpc, towatch, snapshot, tocrawl, answers, watched,
                reopened>>

NoCall == [pc |-> "none", path |-> <<>>, recursive |-> FALSE, ok |-> TRUE]

CallWatchDir(p, recursive) ==
  call' = [pc |-> "called", path |-> p, recursive |-> recursive, ok |-> TRUE]

\* watch_dir returns.
Return == /\ call' = NoCall
          /\ watched' = IF call.ok THEN watched \cup {call.path} ELSE watched

------------------------------------------------------------------------------
(* The filter and the walks *)

\* Filter::ignore_path_rec: is the directory ignored, or one above it?
IgnoreRec(f, d) == \E e \in f : e = d \/ IsParentOf(e, d)

\* The directories below p that a walk meets; what is in `stops` is not entered.
Met(stops, p, recursive) ==
  {d \in Dir : /\ IsParentOf(p, d)
               /\ recursive \/ Parent(d) = p
               /\ ~\E e \in stops : IsParentOf(p, e) /\ (e = d \/ IsParentOf(e, d))}

\* Everything met has a node afterwards (crawl_root: FileTree::add; crawl:
\* apply_change with MARK_RECURSIVE).
WithMet(ns, met, recursive) ==
  [d \in Dir |-> IF d \notin met THEN ns[d]
                 ELSE IF recursive THEN "recursive"
                 ELSE IF ns[d] = "none" THEN "plain" ELSE ns[d]]

\* New nodes, these with a list of children, come into the list of the parent that
\* the tree has, which is made for them if there is none (add_child).
WithNew(t, new, lists) ==
  LET linked == {d \in new : Parent(d) \in Dir /\ (nodes[Parent(d)] # "none" \/ Parent(d) \in new)}
  IN  [t EXCEPT !.linked = @ \cup linked, !.lists = @ \cup lists \cup {Parent(d) : d \in linked}]

\* delete_rec: q and, down the lists of children, what is not deleted already.
DeleteRec(t, q) ==
  IF q \notin t.lists THEN {}
  ELSE {q} \cup {d \in t.linked :
                   /\ IsParentOf(q, d)
                   /\ \A e \in Dir : (IsParentOf(q, e) /\ IsParentOf(e, d)) => e \in t.linked \ t.dead}

\* The children that a crawl of p has not come by in the directories it was in.
NotMet(t, p, met, recursive) ==
  {d \in t.linked \ met : /\ IsParentOf(p, d)
                          /\ Parent(d) = p \/ (recursive /\ Parent(d) \in met)}

\* What a crawl makes of the tree: what it meets is there and, if its children are
\* watched, has a list of them; what it does not meet is deleted.
Crawled(p, met, recursive) ==
  LET watching == {d \in met : recursive \/ nodes[d] \in {"children", "recursive"}}
      t == WithNew(tree, {d \in met : nodes[d] = "none"}, watching)
      gone == UNION {DeleteRec(t, d) : d \in NotMet(t, p, met, recursive)}
  IN  [t EXCEPT !.dead = (@ \ met) \cup gone]

------------------------------------------------------------------------------
(* The API *)

\* add_root; an ignored root is dropped without a word.
AddRoot(r) ==
  /\ ~IgnoreRec(filter, r.path)
  /\ todo' = Append(todo, r)
  /\ UNCHANGED <<filter, recrawl, stop, batch, nodes, tree, roots, wpc, towatch, snapshot, tocrawl, call,
                 answers, watched, reopened>>

\* set_filter with recrawl.
SetFilter(f) ==
  /\ filter' = f
  /\ recrawl' = TRUE
  /\ reopened' = (reopened \/ ~(filter \subseteq f))
  /\ UNCHANGED <<stop, todo, batch, nodes, tree, roots, wpc, towatch, snapshot, tocrawl, call, answers,
                 watched>>

------------------------------------------------------------------------------
(* The worker *)

\* process_notifications takes all requests, unless the backend is shut down.
TakeRequests ==
  /\ wpc = "loop" /\ ~stop /\ todo # <<>>
  /\ batch' = todo
  /\ todo' = <<>>
  /\ wpc' = "batch"
  /\ UNCHANGED <<filter, recrawl, stop, nodes, tree, roots, towatch, snapshot, tocrawl, call, answers,
                 watched, reopened>>

Answer_bug(answer) ==         \* one request at a time
  LET r == Head(batch) IN
  /\ answers' = Append(answers, [path |-> r.path, recursive |-> r.recursive, answer |-> answer])
  /\ batch' = Tail(batch)
  /\ wpc' = "loop"


\* The callback of the request is called, the next one is due.
Answer(answer) ==
  LET r == Head(batch) IN
  /\ answers' = Append(answers, [path |-> r.path, recursive |-> r.recursive, answer |-> answer])
  /\ batch' = Tail(batch)
  /\ wpc' = IF Tail(batch) = <<>> THEN "loop" ELSE "batch"

\* FileTree::add finds nothing to add or to make recursive.
IsKnown(r) == nodes[r.path] # "none" /\ (~r.recursive \/ nodes[r.path] = "recursive")

\* It finds a node that is no directory any more: "invalid root".
IsInvalid(r) == r.recursive /\ r.path \in tree.dead

\* In both cases the callback hears "true".
KnownRoot ==
  /\ wpc = "batch" /\ IsKnown(Head(batch)) /\ ~IsInvalid(Head(batch))
  /\ Answer("known")
  /\ UNCHANGED <<filter, recrawl, stop, todo, nodes, tree, roots, towatch, snapshot, tocrawl, call, watched,
                 reopened>>

InvalidRoot ==
  /\ wpc = "batch" /\ IsInvalid(Head(batch))
  /\ Answer("invalid")
  /\ UNCHANGED <<filter, recrawl, stop, todo, nodes, tree, roots, towatch, snapshot, tocrawl, call, watched,
                 reopened>>

\* Otherwise there is a new node or one that becomes recursive, and the backend is
\* asked to watch it.
NewRoot ==
  LET r == Head(batch) IN
  /\ wpc = "batch" /\ ~IsKnown(r) /\ ~IsInvalid(r)
  /\ nodes' = [nodes EXCEPT ![r.path] = IF r.recursive THEN "recursive" ELSE "children"]
  /\ tree' = IF nodes[r.path] = "none" THEN WithNew(tree, {r.path}, {r.path}) ELSE tree
  /\ CallWatchDir(r.path, r.recursive)
  /\ wpc' = "root"
  /\ UNCHANGED <<filter, recrawl, stop, todo, batch, roots, towatch, snapshot, tocrawl, answers, watched,
                 reopened>>

\* The backend could not.
RootRefused ==
  /\ wpc = "root" /\ call.pc = "done" /\ ~call.ok
  /\ Return
  /\ Answer("failed")
  /\ UNCHANGED <<filter, recrawl, stop, todo, nodes, tree, roots, towatch, snapshot, tocrawl, reopened>>

\* crawl_root enters neither what is ignored nor what is recursive already.
CrawlRootSkips == filter \cup {d \in Dir : nodes[d] = "recursive"}

\* It did: the filter is read, crawl_root starts. What it meets and has as deleted it
\* takes for no directory and does not watch.
CrawlRoot ==
  LET r == Head(batch)
      met == Met(CrawlRootSkips, r.path, r.recursive)
      new == {d \in met : nodes[d] = "none"} IN
  /\ wpc = "root" /\ call.pc = "done" /\ call.ok
  /\ Return
  /\ nodes' = WithMet(nodes, met, r.recursive)
  /\ tree' = WithNew(tree, new, IF r.recursive THEN new ELSE {})
  /\ towatch' = IF r.recursive THEN met \ tree.dead ELSE {}
  /\ snapshot' = filter
  /\ wpc' = "crawl"
  /\ UNCHANGED <<filter, recrawl, stop, todo, batch, roots, tocrawl, answers, reopened>>

\* The next directory of a crawl is watched, parents first; that this may fail
\* is only logged.
WatchNext ==
  /\ wpc \in {"crawl", "recrawl"} /\ call.pc = "none"
  /\ \E d \in towatch : /\ \A e \in towatch \ {d} : Less(d, e)
                        /\ CallWatchDir(d, TRUE)
                        /\ towatch' = towatch \ {d}
  /\ UNCHANGED <<filter, recrawl, stop, todo, batch, nodes, tree, roots, wpc, snapshot, tocrawl, answers,
                 watched, reopened>>

Watched ==
  /\ wpc \in {"crawl", "recrawl"} /\ call.pc = "done"
  /\ Return
  /\ UNCHANGED <<filter, recrawl, stop, todo, batch, nodes, tree, roots, wpc, towatch, snapshot, tocrawl,
                 answers, reopened>>

\* Where the root goes in the sorted list: partition_point.
Position(p) == Cardinality({i \in DOMAIN roots : Less(roots[i].path, p)}) + 1

\* The n-th of a set of positions, and a list reduced to the positions in a set.
Nth(S, n) == CHOOSE j \in S : Cardinality({k \in S : k <= j}) = n
Kept(q, S) == [n \in 1 .. Cardinality(S) |-> q[Nth(S, n)]]

Listed_bug(r, f) == InsertAt(roots, Position(r.path), r)      \* children are kept

\* The children of a recursive root that the list has: they follow its position
\* without a gap. Up to the first root that is no child they go, unless they are
\* ignored.
Superseded(r, f) ==
  {j \in Position(r.path) .. Len(roots) :
     /\ r.recursive /\ ~IgnoreRec(f, roots[j].path)
     /\ \A k \in Position(r.path) .. j : IsParentOf(r.path, roots[k].path)}

\* The list with r.
Listed(r, f) == InsertAt(Kept(roots, DOMAIN roots \ Superseded(r, f)), Position(r.path), r)

\* The crawl is done, the root goes into the list and the callback hears "true".
ListRoot ==
  /\ wpc = "crawl" /\ call.pc = "none" /\ towatch = {}
  /\ roots' = Listed(Head(batch), snapshot)
  /\ Answer("yes")
  /\ UNCHANGED <<filter, recrawl, stop, todo, nodes, tree, towatch, snapshot, tocrawl, call, watched,
                 reopened>>

\* PendingChanges::take_recrawl resets it.
TakeRecrawl == recrawl' = FALSE

ToCrawl_bug == SelectSeq(roots, LAMBDA r : ~r.recursive)     \* the others watch what is new

\* All roots in the list, in its order.
ToCrawl == roots

\* A recrawl, with the filter there is now.
Recrawl ==
  /\ wpc = "loop" /\ ~stop /\ recrawl
  /\ TakeRecrawl
  /\ tocrawl' = ToCrawl
  /\ snapshot' = filter
  /\ wpc' = "recrawl"
  /\ UNCHANGED <<filter, stop, todo, batch, nodes, tree, roots, towatch, call, answers, watched, reopened>>

\* The next root is crawled and watched again, if its node is recursive with all
\* directories that are met. Of the root itself nobody asks whether it is deleted.
CrawlNext ==
  LET p == Head(tocrawl).path
      recursive == nodes[p] = "recursive"
      met == Met(snapshot, p, recursive) IN
  /\ wpc = "recrawl" /\ call.pc = "none" /\ towatch = {} /\ tocrawl # <<>>
  /\ nodes' = WithMet(nodes, met, recursive)
  /\ tree' = Crawled(p, met, recursive)
  /\ towatch' = {p} \cup (IF recursive THEN met ELSE {})
  /\ tocrawl' = Tail(tocrawl)
  /\ UNCHANGED <<filter, recrawl, stop, todo, batch, roots, wpc, snapshot, call, answers, watched, reopened>>

RecrawlDone_bug ==            \* the flag is reset afterwards
  /\ wpc = "recrawl" /\ call.pc = "none" /\ towatch = {} /\ tocrawl = <<>>
  /\ wpc' = "loop"
  /\ recrawl' = FALSE
  /\ UNCHANGED <<filter, stop, todo, batch, nodes, tree, roots, towatch, snapshot, tocrawl, call, answers,
                 watched, reopened>>

RecrawlDone ==
  /\ wpc = "recrawl" /\ call.pc = "none" /\ towatch = {} /\ tocrawl = <<>>
  /\ wpc' = "loop"
  /\ UNCHANGED <<filter, recrawl, stop, todo, batch, nodes, tree, roots, towatch, snapshot, tocrawl, call,
                 answers, watched, reopened>>

Worker == \/ TakeRequests \/ KnownRoot \/ InvalidRoot \/ NewRoot \/ RootRefused \/ CrawlRoot \/ WatchNext
          \/ Watched \/ ListRoot \/ Recrawl \/ CrawlNext \/ RecrawlDone

RootsInit ==
  /\ filter = {} /\ recrawl = FALSE /\ stop = FALSE
  /\ todo = <<>> /\ batch = <<>>
  /\ nodes = [d \in Dir |-> "none"]
  /\ tree = [dead |-> {}, lists |-> {}, linked |-> {}]
  /\ roots = <<>> /\ wpc = "loop" /\ towatch = {} /\ snapshot = {} /\ tocrawl = <<>>
  /\ call = NoCall /\ answers = <<>> /\ watched = {} /\ reopened = FALSE

------------------------------------------------------------------------------
\* The values that the variables have.
RootsTypes ==
  /\ filter \subseteq Dir /\ snapshot \subseteq Dir /\ recrawl \in BOOLEAN /\ stop \in BOOLEAN
  /\ todo \in Seq(Request) /\ batch \in Seq(Request)
  /\ roots \in Seq(Request) /\ tocrawl \in Seq(Request)
  /\ nodes \in [Dir -> {"none", "plain", "children", "recursive"}]
  /\ tree \in [dead : SUBSET Dir, lists : SUBSET Dir, linked : SUBSET Dir]
  /\ towatch \subseteq Dir /\ watched \subseteq Dir
  /\ wpc \in {"loop", "batch", "root", "crawl", "recrawl"}
  /\ call \in [pc : {"none", "called", "resume", "create", "done"}, path : Dir \cup {<<>>},
               recursive : BOOLEAN, ok : BOOLEAN]
  /\ answers \in Seq([path : Dir, recursive : BOOLEAN, answer : {"known", "invalid", "failed", "yes"}])
  /\ reopened \in BOOLEAN

\* Which of them the worker uses where: watch_dir is called by the right steps only,
\* and nothing is left over from a crawl.
RootsControl ==
  /\ (batch = <<>>) <=> wpc \in {"loop", "recrawl"}
  /\ towatch # {} => wpc \in {"crawl", "recrawl"}
  /\ tocrawl # <<>> => wpc = "recrawl"
  /\ call.pc # "none" => wpc \in {"root", "crawl", "recrawl"} /\ call.path \in Dir
  /\ wpc = "root" => call.pc # "none" /\ call.path = Head(batch).path

------------------------------------------------------------------------------
(* Properties of the list of roots *)

\* The roots are in tree order, what partition_point and the removal of children
\* rely on: what is below a root follows it, with nothing in between that is not.
TreeOrder ==
  \A i, k \in DOMAIN roots :
    IsParentOf(roots[i].path, roots[k].path) =>
      i < k /\ \A j \in i .. k : Reaches(roots[i].path, TRUE, roots[j].path)

\* Is there a root for d?
InList(d) == \E n \in DOMAIN roots : roots[n].path = d

\* The answers given.
Given == {answers[n] : n \in DOMAIN answers}

\* Was a recursive request refused for a directory between p and d?
Refused(p, d) == \E a \in Given : /\ a.answer = "failed" /\ a.recursive
                                  /\ Reaches(p, TRUE, a.path) /\ Reaches(a.path, TRUE, d)

\* A recrawl crawls no directory twice: no root below a recursive one is listed,
\* unless a walk does not get there, as the filter ignores it (worker.rs:84-103).
\* A root that was flat before it became recursive is listed twice; then its
\* children are not found. And a directory whose watch was refused keeps a node that
\* says "recursive": no crawl enters it any more (worker.rs:63-74, tree.rs:588-595).
\* And once a filter is taken back, the roots stay that were listed because of it.
NoDoubleCrawl ==
  ~reopened =>
    \A i, k \in DOMAIN roots :
      (roots[i].recursive /\ IsParentOf(roots[i].path, roots[k].path)) =>
        \/ IgnoreRec(filter, roots[k].path)
        \/ \E j \in DOMAIN roots : j # i /\ roots[j].path = roots[i].path
        \/ Refused(roots[i].path, roots[k].path)
==============================================================================
