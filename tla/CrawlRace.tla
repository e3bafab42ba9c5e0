------------------------------ MODULE CrawlRace ------------------------------
(***************************************************************************)
(* Sentry, where the worker does its work step by step while the disk      *)
(* changes and events are handled: one change at a time, and a crawl with  *)
(* a step for every system call and every entry of a directory. Here       *)
(* Reconcile is cut into NextChange, StartRecrawl and the steps of a crawl *)
(* (FileTree::apply_transaction, FileTree::crawl).                         *)
(*                                                                         *)
(* Definitions named X_bug are wrong on purpose.                           *)
(***************************************************************************)
EXTENDS Sentry

VARIABLE crawl            \* the running crawl; `changes` is what is left of the transaction

NoCrawl == [pc |-> "none"]

Order_bug == <<"read", "watch", "map", "next">>

\* What is done with a directory: it is watched before the walk reads it.
Order == <<"watch", "map", "read", "next">>

Starts_bug(node) == IF node.listed THEN "read" ELSE "watch"     \* known, so it is watched

\* Every directory a crawl meets is watched, again if need be.
Starts(node) == Order[1]

\* A crawl that comes to the directory p. open: the inodes the walk may read (the one
\* it has opened, any for the first directory); listing: the directories it is in, the
\* last one on top, with the entries to come; flagged: nodes with the maybe_deleted flag.
Enter(t, p, open, listing, flagged) ==
  [pc |-> Starts(t[p]), at |-> p, open |-> open, wd |-> 0,
   listing |-> Append(listing, [of |-> p, entries |-> {}]),
   flagged |-> flagged \cup (IF t[p].listed THEN ChildNodes(t, p) ELSE {})]

CrawlOf(t, p) == Enter(t, p, Ino \cup {RootIno}, <<>>, {})

State == [tree |-> tree, events |-> events, watched |-> {}]

Becomes(s) == tree' = s.tree /\ events' = s.events

UntilNow == <<habit, disk, ops, known>>

------------------------------------------------------------------------------
(* The worker outside of a crawl *)

StartRecrawl ==
  /\ crawl = NoCrawl /\ changes.recrawl
  /\ changes' = Nothing
  /\ crawl' = CrawlOf(tree, Root)
  /\ UNCHANGED <<UntilNow, kernel, watches, pending, tree, events>>

\* apply_transaction: the next change. If it needs a crawl, what is pending below
\* its path is dropped.
NextChange ==
  \E p \in Path :
    LET a == ApplyChange(disk, State, p, {"origin"} \cup ({"crawl"} \cap {changes.flags[p]}))
        enter == a.recurse /\ HasNode(a.s.tree, p) /\ IsDir(a.s.tree[p].meta) /\ p \notin Ignored
        done == {p} \cup (IF a.recurse THEN Under(p) ELSE {})
    IN  /\ crawl = NoCrawl /\ changes.flags[p] # "none"
        /\ \A q \in Path : changes.flags[q] # "none" => q = p \/ Before(p, q)
        /\ Becomes(a.s)
        /\ changes' = [changes EXCEPT !.flags = [q \in Path |-> IF q \in done THEN "none" ELSE @[q]]]
        /\ crawl' = IF enter THEN CrawlOf(a.s.tree, p) ELSE NoCrawl
        /\ UNCHANGED <<UntilNow, kernel, watches, pending>>

------------------------------------------------------------------------------
(* A crawl *)

CrawlStep(pc) == crawl.pc = pc /\ UNCHANGED <<UntilNow, pending, changes>>

Then(pc) == LET i == CHOOSE i \in DOMAIN Order : Order[i] = pc IN Order[i + 1]

\* inotify_add_watch: the kernel watches.
KernelWatch ==
  LET w == WatchDir(disk, crawl.at, [wd |-> kernel.wd, last |-> kernel.last, watches |-> watches])
  IN  /\ CrawlStep("watch")
      /\ kernel' = [kernel EXCEPT !.wd = w.wd, !.last = w.last]
      /\ crawl' = [crawl EXCEPT !.pc = Then("watch"),
                                !.wd = IF IsDir(disk[crawl.at].meta) THEN w.wd[disk[crawl.at].ino] ELSE 0]
      /\ UNCHANGED <<watches, tree, events>>

\* The descriptor goes into the map; events that were handled before are lost.
MapWatch ==
  /\ CrawlStep("map")
  /\ watches' = IF crawl.wd = 0 THEN watches ELSE Inserted(watches, crawl.wd, crawl.at)
  /\ crawl' = [crawl EXCEPT !.pc = Then("map")]
  /\ UNCHANGED <<kernel, tree, events>>

Here == Last(crawl.listing)

With(entries) == Append(Front(crawl.listing), [Here EXCEPT !.entries = entries])

\* The walk reads the directory it has opened. One that is gone by now has no
\* entries, whatever has taken its place.
ReadDirectory ==
  LET entries == {[path |-> q, dir |-> IsDir(disk[q].meta)] :
                    q \in {q \in Under(crawl.at) : Parent(q) = crawl.at /\ Listed(disk, q)}}
  IN  /\ CrawlStep("read")
      /\ crawl' = [crawl EXCEPT !.pc = Then("read"),
                                !.listing = With(IF disk[crawl.at].ino \in crawl.open THEN entries
                                                                                      ELSE {})]
      /\ UNCHANGED <<kernel, watches, tree, events>>

PassedOver_bug(e) == e.dir /\ ~IsDir(disk[e.path].meta)      \* the filter is not asked

\* The walk opens what the listing says is a directory; if it is none any more the
\* entry is an error and passed over, as is what the filter ignores.
PassedOver(e) == e.path \in Ignored \/ (e.dir /\ ~IsDir(disk[e.path].meta))

\* The walk's next entry, in any order.
NextEntry ==
  /\ CrawlStep("next")
  /\ \E e \in Here.entries :
       LET rest == [crawl EXCEPT !.listing = With(Here.entries \ {e})]
       IN  crawl' = IF PassedOver(e) THEN rest
                    ELSE [rest EXCEPT !.pc = "visit", !.at = e.path,
                                      !.open = IF e.dir THEN {disk[e.path].ino} ELSE {}]
  /\ UNCHANGED <<kernel, watches, tree, events>>

\* The entry's state now is applied. A directory is watched, and read if it was
\* a directory in the listing.
VisitEntry ==
  LET p == crawl.at
      a == ApplyChange(disk, State, p, CrawlFlags(TRUE)).s
      flagged == IF HasNode(a.tree, p) THEN crawl.flagged \ {p} ELSE crawl.flagged
  IN  /\ CrawlStep("visit")
      /\ Becomes(a)
      /\ crawl' = IF IsDir(a.tree[p].meta) THEN Enter(a.tree, p, crawl.open, crawl.listing, flagged)
                  ELSE [crawl EXCEPT !.pc = "next", !.flagged = flagged]
      /\ UNCHANGED <<kernel, watches>>

DeleteMissing_bug(q, s) ==      \* delete_rec empties all of the stack, which is the crawl's
  [s EXCEPT !.tree = [p \in Path |-> IF p = q \/ \E l \in DOMAIN crawl.listing : crawl.listing[l].of = p
                                       THEN [@[p] EXCEPT !.meta = Deleted] ELSE @[p]]]

\* What was not met is deleted, and what is below it.
DeleteMissing(q, s) == DeleteRec(Emit(s, q, IF IsFile(s.tree[q].meta) THEN "Delete" ELSE NoEvent), q)

\* No more entries: the children of the directory that were not met are deleted.
LeaveDirectory ==
  LET gone == {q \in crawl.flagged : Parent(q) = Here.of}
  IN  /\ CrawlStep("next") /\ Here.entries = {}
      /\ Becomes(FoldPaths(DeleteMissing, State, gone))
      /\ crawl' = IF Len(crawl.listing) = 1 THEN NoCrawl
                  ELSE [crawl EXCEPT !.listing = Front(@), !.flagged = @ \ gone]
      /\ UNCHANGED <<kernel, watches>>

CrawlSteps ==
  KernelWatch \/ MapWatch \/ ReadDirectory \/ NextEntry \/ VisitEntry \/ LeaveDirectory

------------------------------------------------------------------------------
RaceInit == Init /\ habit.recursive /\ crawl = NoCrawl

Others == (Operation \/ HandleEvent) /\ UNCHANGED crawl

WorkerTakes == crawl = NoCrawl /\ (TakePending \/ Deliver) /\ UNCHANGED crawl

RaceNext == Others \/ WorkerTakes \/ StartRecrawl \/ NextChange \/ CrawlSteps

RaceSpec == RaceInit /\ [][RaceNext]_<<vars, crawl>>

------------------------------------------------------------------------------
(* Properties *)

\* InSync though the disk changes during crawls: what appears, changes or goes
\* while a directory is crawled is met or announced (README.md:7, :12).
CrawlsInSync == crawl = NoCrawl => InSync

\* Nor is a directory that appears then left unwatched.
CrawlsCover == crawl = NoCrawl => WatchesCover

\* Whatever happens on the disk meanwhile, a crawl is in directories that the tree
\* has as directories, each in the one before. What it may have to delete is in one of
\* them, where it is looked at before the crawl ends (tree.rs:514-529, :543-553). Of
\* delete_rec this sees what it deletes, not that it works on the crawl's stack.
CrawlKeepsItsPlace ==
  crawl # NoCrawl =>
    /\ crawl.listing # <<>>
    /\ \A l \in DOMAIN crawl.listing :
         /\ IsDir(tree[crawl.listing[l].of].meta)
         /\ l > 1 => Parent(crawl.listing[l].of) = crawl.listing[l - 1].of
    /\ \A q \in crawl.flagged : /\ HasNode(tree, q)
                                /\ \E l \in DOMAIN crawl.listing : crawl.listing[l].of = Parent(q)
==============================================================================
