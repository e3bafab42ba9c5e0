-------------------------- MODULE CrawlRace_proofs ---------------------------
(***************************************************************************)
(* Proofs about CrawlRace, for any paths, disks, queue lengths and filters.*)
(*                                                                         *)
(* While other programs make and write files, directories and links,       *)
(* whatever happens between two steps of a crawl: a handler comes to know  *)
(* all files and every directory is watched (CrawlsInSync, CrawlsCover).   *)
(* The invariant, GrowInv, accounts for what the tree does not know: it is *)
(* told by an event that can still be placed, or pending, or ahead of the  *)
(* crawl, or there will be a recrawl. It is that of Sentry, GrowBase, but  *)
(* for what the crawl is going to watch and to visit, with what holds of   *)
(* the crawl itself.                                                       *)
(*                                                                         *)
(* Whatever other programs do, deletions and moves included: a crawl stays *)
(* in directories of the tree (CrawlKeepsItsPlace), nothing ignored comes  *)
(* in (IgnoredStaysOut), and everything keeps its type. The invariant,     *)
(* RaceInv, says where in the tree the crawl is: what its steps change is  *)
(* below the last directory of its stack, so none of the stack is lost.    *)
(***************************************************************************)
EXTENDS CrawlRace, Sentry_proofs

------------------------------------------------------------------------------
(* The invariant *)

Entry == [path : Path, dir : BOOLEAN]
Level == [of : Path, entries : SUBSET Entry]
RunningCrawl == [pc : {"watch", "map", "read", "next", "visit"}, at : Path, open : SUBSET Inode, wd : Nat,
                 listing : Seq(Level), flagged : SUBSET Path]
CrawlTyped == crawl \in RunningCrawl \cup {NoCrawl}

\* The running crawl will come to the path q.
IsEntry(q, listing) == \E l \in DOMAIN listing : \E e \in listing[l].entries : e.path = q
WillVisit(q) ==
  \/ crawl.pc \in {"watch", "map", "read"} /\ q # Root /\ Parent(q) = crawl.at
  \/ crawl.pc = "visit" /\ q = crawl.at
  \/ crawl.pc # "none" /\ IsEntry(q, crawl.listing)

\* The directories a crawl is in, the entries to come, what it is about to do.
LevelRight(t, fs, level) ==
  /\ HasNode(t, level.of) /\ IsDir(t[level.of].meta)
  /\ \A e \in level.entries : /\ e.path # Root /\ Parent(e.path) = level.of
                             /\ Listed(fs, e.path) /\ (e.dir <=> IsDir(fs[e.path].meta))

Descends(listing) ==
  \A l, m \in DOMAIN listing : l < m => Len(listing[l].of) < Len(listing[m].of)

Levels == /\ Len(crawl.listing) > 0 /\ Descends(crawl.listing)
          /\ \A l \in DOMAIN crawl.listing : LevelRight(tree, disk, crawl.listing[l])

AtHand ==
  /\ crawl.pc \in {"watch", "map", "read"} => crawl.at = Here.of /\ Here.entries = {} /\ disk[crawl.at].ino \in crawl.open
  /\ crawl.pc = "visit" => /\ crawl.at # Root /\ Parent(crawl.at) = Here.of
                           /\ Visible(crawl.at) /\ Listed(disk, crawl.at)
                           /\ IsDir(disk[crawl.at].meta) => disk[crawl.at].ino \in crawl.open

FlaggedWillBeMet == \A q \in crawl.flagged : HasNode(tree, q) /\ WillVisit(q)

CrawlInv == crawl.pc # "none" => Levels /\ AtHand /\ FlaggedWillBeMet

\* What lies ahead of the crawl ...
Crawled(p) == \E q \in Path : (q = p \/ p \in Under(q)) /\ WillVisit(q)
ToVisit == {p \in Path : Crawled(p)}

\* ... and the directory whose descriptor its next steps put into the map.
ToMap == IF crawl.pc \in {"watch", "map"} THEN {crawl.at} ELSE {}
MapHeld == crawl.pc = "map" => crawl.wd = kernel.wd[disk[crawl.at].ino] /\ crawl.wd # 0

GrowInv == GrowBase(ToMap, ToVisit) /\ CrawlTyped /\ MapHeld /\ CrawlInv

------------------------------------------------------------------------------
(* The directories a crawl is in *)

\* The sequence of levels when a directory is entered ...
LEMMA Deeper ==
  ASSUME NEW listing \in Seq(Level), NEW p \in Path,
         Descends(listing), \A l \in DOMAIN listing : Len(listing[l].of) < Len(p)
  PROVE  LET n == Len(listing) + 1
             all == Append(listing, [of |-> p, entries |-> {}])
         IN  /\ all \in Seq(Level) /\ Len(all) = n /\ DOMAIN all = 1 .. n /\ n \in 1 .. n
             /\ \A l \in 1 .. n : l = n \/ l \in DOMAIN listing
             /\ \A l \in DOMAIN listing : l \in 1 .. n - 1 /\ l \in 1 .. n /\ all[l] = listing[l]
             /\ all[n].of = p /\ all[n].entries = {} /\ Descends(all)
<1> DEFINE top == [of |-> p, entries |-> {}]
           all == Append(listing, top)
           n == Len(listing) + 1
<1>1. top \in Level /\ top.of = p /\ top.entries = {}
  BY DEF Level
<1> HIDE DEF top
<1>2. /\ all \in Seq(Level) /\ Len(all) = n /\ DOMAIN all = 1 .. n /\ Len(listing) \in Nat
      /\ DOMAIN listing = 1 .. Len(listing)
      /\ \A l \in 1 .. Len(listing) : all[l] = listing[l]
      /\ all[n] = top
  BY <1>1
<1> HIDE DEF all
<1>3. n \in 1 .. n /\ \A l \in 1 .. n : l = n \/ l \in DOMAIN listing
  BY <1>2
<1>4. \A l \in DOMAIN listing : l \in 1 .. n - 1 /\ l \in 1 .. n
  BY <1>2
<1>5. Descends(all)
  <2> SUFFICES ASSUME NEW l \in 1 .. n, NEW m \in 1 .. n, l < m
               PROVE  Len(all[l].of) < Len(all[m].of)
    BY <1>2 DEF Descends
  <2>1. l \in DOMAIN listing
    BY <1>2
  <2>2. CASE m = n
    BY <1>1, <1>2, <2>1, <2>2
  <2>3. CASE m # n
    BY <1>2, <1>3, <2>1, <2>3 DEF Descends
  <2>4. QED BY <2>2, <2>3
<1>6. QED BY <1>1, <1>2, <1>3, <1>4, <1>5 DEF all, top

\* ... when the entries of the last one change ...
LEMMA Relisted ==
  ASSUME crawl.listing \in Seq(Level), Len(crawl.listing) > 0, NEW entries \in SUBSET Entry
  PROVE  LET n == Len(crawl.listing)
             all == With(entries)
         IN  /\ all \in Seq(Level) /\ Len(all) = n /\ DOMAIN all = 1 .. n
             /\ all[n] = [of |-> Here.of, entries |-> entries] /\ Last(all) = all[n]
             /\ \A l \in 1 .. n : l = n \/ (l \in 1 .. n - 1 /\ all[l] = crawl.listing[l])
             /\ \A l \in 1 .. n : all[l].of = crawl.listing[l].of
<1> DEFINE n == Len(crawl.listing)
           top == [of |-> Here.of, entries |-> entries]
           front == Front(crawl.listing)
           all == Append(front, top)
<1>1. n \in Nat /\ DOMAIN crawl.listing = 1 .. n /\ n \in 1 .. n
  OBVIOUS
<1>2. Here = crawl.listing[n] /\ Here \in Level
  BY <1>1 DEF Here, Last
<1>3. top \in Level /\ top.of = Here.of /\ [Here EXCEPT !.entries = entries] = top
  BY <1>2 DEF Level
<1> HIDE DEF top
<1>4. front \in Seq(Level) /\ Len(front) = n - 1 /\ \A l \in 1 .. n - 1 : front[l] = crawl.listing[l]
  <2>1. n - 1 \in Nat /\ n - 1 <= n
    BY <1>1
  <2>2. \A l \in 1 .. n - 1 : l \in 1 .. n
    BY <1>1
  <2>3. QED BY <1>1, <2>1, <2>2 DEF Front
<1> HIDE DEF front
<1>5. /\ all \in Seq(Level) /\ Len(all) = n /\ DOMAIN all = 1 .. n /\ all[n] = top
      /\ \A l \in 1 .. n - 1 : all[l] = crawl.listing[l]
  <2>1. Len(front) + 1 = n
    BY <1>1, <1>4
  <2>2. QED BY <1>1, <1>3, <1>4, <2>1
<1>6. With(entries) = all
  BY <1>3 DEF With, front
<1> HIDE DEF all
<1>7. Last(all) = all[n]
  BY <1>5 DEF Last
<1>8. \A l \in 1 .. n : l = n \/ l \in 1 .. n - 1
  BY <1>1
<1>9. \A l \in 1 .. n : all[l].of = crawl.listing[l].of
  BY <1>2, <1>3, <1>5, <1>8
<1>10. QED BY <1>5, <1>6, <1>7, <1>8, <1>9 DEF top

\* ... and when the crawl is done with it.
LEMMA Shallower ==
  ASSUME crawl.listing \in Seq(Level), Len(crawl.listing) > 1
  PROVE  LET n == Len(crawl.listing) - 1
             front == Front(crawl.listing)
         IN  /\ front \in Seq(Level) /\ Len(front) = n /\ n > 0 /\ DOMAIN front = 1 .. n
             /\ \A l \in 1 .. n : front[l] = crawl.listing[l] /\ l \in DOMAIN crawl.listing
             /\ \A l \in DOMAIN crawl.listing : l \in 1 .. n \/ crawl.listing[l] = Here
<1> DEFINE n == Len(crawl.listing) - 1
           front == Front(crawl.listing)
<1>1. n \in Nat /\ n > 0 /\ DOMAIN crawl.listing = 1 .. n + 1 /\ n + 1 = Len(crawl.listing)
  OBVIOUS
<1>2. \A l \in 1 .. n : l \in 1 .. n + 1
  BY <1>1
<1>3. front \in Seq(Level) /\ Len(front) = n /\ \A l \in 1 .. n : front[l] = crawl.listing[l]
  BY <1>1, <1>2 DEF Front
<1>4. Here = crawl.listing[n + 1]
  BY <1>1 DEF Here, Last
<1> HIDE DEF front
<1>5. \A l \in 1 .. n + 1 : l \in 1 .. n \/ l = n + 1
  BY <1>1
<1>6. QED BY <1>1, <1>2, <1>3, <1>4, <1>5 DEF front

------------------------------------------------------------------------------
(* While the crawl stays where it is *)

\* Where a crawl is: in a directory of the tree.
LEMMA CrawlIsHere ==
  ASSUME GrowTypes, CrawlTyped, NodesIn(tree), CrawlInv, crawl.pc # "none"
  PROVE  /\ crawl \in RunningCrawl /\ crawl.listing \in Seq(Level) /\ Len(crawl.listing) \in Nat
         /\ Len(crawl.listing) \in DOMAIN crawl.listing /\ DOMAIN crawl.listing = 1 .. Len(crawl.listing)
         /\ Here = crawl.listing[Len(crawl.listing)] /\ Here \in Level /\ Here.of \in Path
         /\ HasNode(tree, Here.of) /\ IsDir(tree[Here.of].meta) /\ Visible(Here.of)
         /\ IsDir(disk[Here.of].meta) /\ Listed(disk, Here.of)
<1>1. crawl \in RunningCrawl
  BY DEF CrawlTyped, NoCrawl
<1>2. crawl.listing \in Seq(Level) /\ Levels
  BY <1>1 DEF RunningCrawl, CrawlInv
<1>3. /\ Len(crawl.listing) \in Nat /\ DOMAIN crawl.listing = 1 .. Len(crawl.listing)
      /\ Len(crawl.listing) \in DOMAIN crawl.listing
  BY <1>2 DEF Levels
<1>4. Here = crawl.listing[Len(crawl.listing)] /\ Here \in Level
  BY <1>2, <1>3 DEF Here, Last
<1>5. Here.of \in Path
  BY <1>4 DEF Level
<1>6. HasNode(tree, Here.of) /\ IsDir(tree[Here.of].meta)
  BY <1>2, <1>3, <1>4 DEF Levels, LevelRight
<1>7. Visible(Here.of) /\ IsDir(disk[Here.of].meta)
  BY <1>5, <1>6 DEF NodesIn
<1>8. Listed(disk, Here.of)
  BY <1>7, Kinds DEF Listed
<1>9. QED BY <1>1, <1>2, <1>3, <1>4, <1>5, <1>6, <1>7, <1>8

\* What Sentry_proofs says of a step holds for what lies ahead of the crawl, which
\* stays the same.
LEMMA BaseStays ==
  ASSUME GrowInv, crawl' = crawl,
         (Grows /\ Operation) \/ HandleEvent \/ TakePending \/ Deliver \/ UNCHANGED vars
  PROVE  GrowBase(ToMap, ToVisit)'
<1>1. PICK M : M = ToMap
  OBVIOUS
<1>2. PICK V : V = ToVisit
  OBVIOUS
<1>3. GrowBase(M, V)
  BY <1>1, <1>2 DEF GrowInv, GrowBase, DirsMappedBut, AccountedBut
<1>4. GrowBase(M, V)'
  <2>1. CASE Grows /\ Operation
    <3>1. \A p \in Path \ {Root} : Parent(p) \in M => p \in V
      BY <1>1, <1>2 DEF ToMap, ToVisit, Crawled, WillVisit
    <3>2. QED BY <1>3, <2>1, <3>1, OperationBase
  <2>2. CASE HandleEvent
    BY <1>3, <2>2, HandleEventBase
  <2>3. CASE TakePending
    BY <1>3, <2>3, TakePendingBase
  <2>4. CASE Deliver
    BY <1>3, <2>4, DeliverBase
  <2>5. CASE UNCHANGED vars
    BY <1>3, <2>5, UnchangedBase DEF vars
  <2>6. QED BY <2>1, <2>2, <2>3, <2>4, <2>5
<1>5. ToMap' = M /\ ToVisit' = V
  <2>1. ToMap' = ToMap
    BY DEF ToMap
  <2>2. \A q \in Path : Crawled(q)' <=> Crawled(q)
    BY DEF Crawled, WillVisit
  <2>3. ToVisit' = ToVisit
    BY <2>2 DEF ToVisit
  <2>4. QED BY <1>1, <1>2, <2>1, <2>3
<1>6. QED BY <1>4, <1>5 DEF GrowBase, DirsMappedBut, AccountedBut

\* What appears or is written is nothing that the crawl has met before.
LEMMA OperationStep ==
  ASSUME Grows, GrowInv, Operation, crawl' = crawl
  PROVE  GrowInv'
<1>1. disk \in Disk /\ GrowTypes /\ CrawlTyped /\ NodesIn(tree) /\ MapHeld /\ CrawlInv
  BY DEF GrowInv, GrowBase, GrowTypes
<1>2. PICK p \in Path \ {Root} : GrowsAt(p)
  BY <1>1, Growth
<1>3. disk' \in Disk /\ kernel'.wd = kernel.wd /\ tree' = tree
  BY <1>1, <1>2 DEF GrowsAt, GrowTypes, Kernel
<1>4. \A q \in Path : Listed(disk, q) => /\ Listed(disk', q) /\ disk'[q].ino = disk[q].ino
                                         /\ IsDir(disk'[q].meta) <=> IsDir(disk[q].meta)
  <2> TAKE q \in Path
  <2>1. CASE q = p
    BY <1>1, <1>2, <1>3, <2>1, DiskKinds, Kinds DEF GrowsAt
  <2>2. CASE q # p
    BY <1>2, <2>2 DEF GrowsAt, Listed
  <2>3. QED BY <2>1, <2>2
<1>5. GrowBase(ToMap, ToVisit)' /\ CrawlTyped'
  BY <1>1, BaseStays DEF CrawlTyped
<1>6. MapHeld'
  <2>1. crawl.pc = "map" => crawl.at \in Path /\ Listed(disk, crawl.at)
    BY <1>1, CrawlIsHere DEF CrawlInv, AtHand
  <2>2. QED BY <1>1, <1>3, <1>4, <2>1 DEF MapHeld
<1>7. CrawlInv'
  <2> SUFFICES ASSUME crawl.pc # "none" PROVE Levels' /\ AtHand' /\ FlaggedWillBeMet'
    BY DEF CrawlInv
  <2>1. /\ Levels /\ AtHand /\ FlaggedWillBeMet /\ crawl \in RunningCrawl /\ crawl.listing \in Seq(Level)
        /\ Here.of \in Path /\ Listed(disk, Here.of)
    BY <1>1, CrawlIsHere DEF CrawlInv
  <2>2. crawl.at \in Path
    BY <2>1 DEF RunningCrawl
  <2>3. \A l \in DOMAIN crawl.listing : \A e \in crawl.listing[l].entries : e.path \in Path
    <3> TAKE l \in DOMAIN crawl.listing
    <3>1. crawl.listing[l] \in Level
      BY <2>1
    <3>2. crawl.listing[l].entries \subseteq Entry
      BY <3>1 DEF Level
    <3>3. QED BY <3>2 DEF Entry
  <2>4. Levels'
    BY <1>3, <1>4, <2>1, <2>3 DEF Levels, LevelRight
  <2>5. AtHand'
    BY <1>4, <2>1, <2>2 DEF AtHand, Here
  <2>6. FlaggedWillBeMet'
    BY <1>3, <2>1 DEF FlaggedWillBeMet, WillVisit
  <2>7. QED BY <2>4, <2>5, <2>6
<1>8. QED BY <1>5, <1>6, <1>7 DEF GrowInv

\* Events, batches and what is pending are nothing to a crawl.
LEMMA ElsewhereStep ==
  ASSUME GrowInv, HandleEvent \/ TakePending \/ Deliver \/ UNCHANGED vars, crawl' = crawl
  PROVE  GrowInv'
<1>1. /\ UNCHANGED <<disk, tree>> /\ kernel'.wd = kernel.wd
  <2>1. kernel \in Kernel
    BY DEF GrowInv, GrowBase, GrowTypes
  <2>2. CASE HandleEvent
    BY <2>1, <2>2 DEF HandleEvent, Kernel
  <2>3. CASE TakePending \/ Deliver \/ UNCHANGED vars
    BY <2>3 DEF TakePending, Deliver, vars
  <2>4. QED BY <2>2, <2>3
<1>2. CrawlTyped' /\ MapHeld'
  BY <1>1 DEF GrowInv, CrawlTyped, MapHeld
<1>3. CrawlInv'
  BY <1>1 DEF GrowInv, CrawlInv, Levels, AtHand, FlaggedWillBeMet, WillVisit, Here
<1>4. QED BY <1>2, <1>3, BaseStays DEF GrowInv

------------------------------------------------------------------------------
(* The worker goes on *)

\* What a change does to the tree, whoever applies it.
LEMMA AppliedStep ==
  ASSUME GrowInv, NEW p \in Path \ {Root}, Visible(p), NEW flags, UNCHANGED <<disk, known>>,
         Becomes(ApplyChange(disk, State, p, flags).s)
  PROVE  /\ tree' \in GrownTrees /\ events' \in GrownEvents /\ NodesIn(tree)' /\ KnownIn(tree, events)'
         /\ \A q \in Path : HasNode(tree, q) => HasNode(tree', q) /\ (IsDir(tree'[q].meta) <=> IsDir(tree[q].meta))
         /\ \A q \in Path \ {p} : /\ HasNode(tree', q) => HasNode(tree, q)
                                  /\ Knows(tree, q) => Knows(tree, q)'
         /\ HasNode(tree, Parent(p)) => (Exists(disk, p) => Knows(tree, p)')
         /\ ApplyChange(disk, State, p, flags).recurse \in BOOLEAN
         /\ ~HasNode(tree, p) => ApplyChange(disk, State, p, flags).recurse
<1> DEFINE a == ApplyChange(disk, State, p, flags)
<1>1. /\ State \in Grower /\ Sound(State) /\ State.tree = tree /\ State.events = events
      /\ disk \in Disk /\ NodesIn(State.tree) /\ KnownIn(State.tree, State.events)
  BY DEF GrowInv, GrowBase, GrowTypes, State, Grower, Sound
<1>2. Applied(State, a.s, a.recurse, p)
  BY <1>1, ApplyChangeGrows
<1>3. tree' = a.s.tree /\ events' = a.s.events
  BY DEF Becomes
<1> HIDE DEF a
<1>4. PICK s : s = State
  OBVIOUS
<1>5. PICK r : r = a.s
  OBVIOUS
<1>6. /\ s \in Grower /\ Sound(s) /\ s.tree = tree /\ s.events = events /\ Applied(s, r, a.recurse, p)
      /\ r.tree = tree' /\ r.events = events'
  BY <1>1, <1>2, <1>3, <1>4, <1>5
<1>7. /\ r \in Grower /\ Sound(r)
      /\ \A q \in Path : HasNode(s.tree, q) => HasNode(r.tree, q) /\ (IsDir(r.tree[q].meta) <=> IsDir(s.tree[q].meta))
      /\ \A q \in Path : Knows(s.tree, q) => Knows(r.tree, q)
      /\ \A q \in Path \ {p} : (HasNode(r.tree, q) <=> HasNode(s.tree, q)) /\ r.tree[q].meta = s.tree[q].meta
      /\ OwedIn(s.tree, p) => Knows(r.tree, p)
  BY <1>1, <1>6, AppliedMeans
<1>8. \A q \in Path : Knows(tree, q)' <=> Knows(r.tree, q)
  BY <1>6 DEF Knows
<1>9. tree' \in GrownTrees /\ events' \in GrownEvents
  BY <1>6, <1>7 DEF Grower
<1>10. NodesIn(tree)' /\ KnownIn(tree, events)'
  BY <1>6, <1>7 DEF Sound, NodesIn, KnownIn
<1>11. a.recurse \in BOOLEAN /\ (~HasNode(tree, p) => a.recurse)
  BY <1>6 DEF Applied
<1>12. HasNode(tree, Parent(p)) => (Exists(disk, p) => Knows(tree, p)')
  BY <1>6, <1>7, <1>8 DEF OwedIn
<1>13. QED BY <1>6, <1>7, <1>8, <1>9, <1>10, <1>11, <1>12 DEF a

\* What holds once a crawl has come to the directory p, whatever it was in before.
LEMMA Entered ==
  ASSUME NEW p \in Path, NEW open \in SUBSET Inode, NEW listing \in Seq(Level), NEW flagged \in SUBSET Path,
         crawl' = Enter(tree', p, open, listing, flagged), disk' \in Disk,
         HasNode(tree', p), IsDir(tree'[p].meta), disk'[p].ino \in open, Descends(listing),
         \A l \in DOMAIN listing : LevelRight(tree', disk', listing[l]) /\ Len(listing[l].of) < Len(p),
         \A q \in flagged : HasNode(tree', q) /\ IsEntry(q, listing)
  PROVE  /\ crawl' \in RunningCrawl /\ crawl'.pc = "watch" /\ crawl'.at = p /\ CrawlInv'
         /\ \A q \in Path \ {Root} : Parent(q) = p => WillVisit(q)'
         /\ \A q \in Path : IsEntry(q, listing) => WillVisit(q)'
<1> DEFINE n == Len(listing) + 1
           all == Append(listing, [of |-> p, entries |-> {}])
           met == IF tree'[p].listed THEN ChildNodes(tree', p) ELSE {}
<1>1. met \subseteq Path /\ \A q \in met : q # Root /\ Parent(q) = p /\ HasNode(tree', q)
  BY PathAssumption, UnderParent DEF ChildNodes, Under
<1>2. crawl' = [pc |-> "watch", at |-> p, open |-> open, wd |-> 0, listing |-> all, flagged |-> flagged \cup met]
  BY DEF Enter, Starts, Order
<1>3. /\ all \in Seq(Level) /\ Len(all) = n /\ DOMAIN all = 1 .. n /\ n \in 1 .. n
      /\ \A l \in 1 .. n : l = n \/ l \in DOMAIN listing
      /\ \A l \in DOMAIN listing : l \in 1 .. n - 1 /\ l \in 1 .. n /\ all[l] = listing[l]
      /\ all[n].of = p /\ all[n].entries = {} /\ Descends(all)
  BY Deeper
<1> HIDE DEF met, all
<1>4. /\ crawl'.pc = "watch" /\ crawl'.at = p /\ crawl'.open = open /\ crawl'.listing = all
      /\ crawl'.flagged = flagged \cup met
  BY <1>2
<1>5. crawl' \in RunningCrawl
  BY <1>1, <1>2, <1>3 DEF RunningCrawl
<1>6. Here'.of = p /\ Here'.entries = {}
  BY <1>3, <1>4 DEF Here, Last
<1>7. \A q \in Path : IsEntry(q, listing) => WillVisit(q)'
  BY <1>3, <1>4 DEF WillVisit, IsEntry
<1>8. \A q \in Path \ {Root} : Parent(q) = p => WillVisit(q)'
  BY <1>4 DEF WillVisit
<1>9. Levels'
  <2>1. \A l \in 1 .. n : LevelRight(tree', disk', all[l])
    BY <1>3 DEF LevelRight
  <2>2. n > 0
    BY <1>3
  <2>3. QED BY <1>3, <1>4, <2>1, <2>2 DEF Levels
<1>10. AtHand'
  BY <1>4, <1>6 DEF AtHand
<1>11. FlaggedWillBeMet'
  BY <1>1, <1>4, <1>7, <1>8 DEF FlaggedWillBeMet
<1>12. QED BY <1>4, <1>5, <1>7, <1>8, <1>9, <1>10, <1>11 DEF CrawlInv

\* Who visits the children of p comes to all that is below p.
LEMMA CrawledBelow ==
  ASSUME NEW p \in Path, \A q \in Path \ {Root} : Parent(q) = p => WillVisit(q)',
         NEW q \in Path, q \in Under(p)
  PROVE  Crawled(q)'
<1>1. PICK r \in Path \ {Root} : Parent(r) = p /\ (r = q \/ q \in Under(r))
  BY ByAChild
<1>2. WillVisit(r)'
  BY <1>1
<1>3. QED BY <1>1, <1>2 DEF Crawled

\* Any inode will do for the directory a crawl starts with.
LEMMA AnyInode ==
  ASSUME NEW fs \in Disk, NEW p \in Path, Listed(fs, p)
  PROVE  fs[p].ino \in Ino \cup {RootIno} /\ Ino \cup {RootIno} \in SUBSET Inode
<1>1. fs[p].ino \in Inode /\ fs[p].ino # 0
  <2>1. fs[p].meta = Deleted <=> fs[p].ino = 0
    BY DEF Disk
  <2>2. QED BY <2>1, DiskKinds DEF Listed
<1>2. QED BY <1>1 DEF Inode

\* A crawl that starts at p, a directory of the tree.
LEMMA Begun ==
  ASSUME NEW p \in Path, crawl' = CrawlOf(tree', p), disk' \in Disk, NodesIn(tree)',
         HasNode(tree', p), IsDir(tree'[p].meta)
  PROVE  /\ crawl' \in RunningCrawl /\ crawl'.pc = "watch" /\ crawl'.at = p /\ CrawlInv'
         /\ \A q \in Path \ {Root} : Parent(q) = p => WillVisit(q)'
<1>1. Listed(disk', p)
  BY Kinds DEF NodesIn, Listed
<1>2. disk'[p].ino \in Ino \cup {RootIno} /\ Ino \cup {RootIno} \in SUBSET Inode
  BY <1>1, AnyInode
<1>3. <<>> \in Seq(Level) /\ DOMAIN <<>> = {} /\ {} \in SUBSET Path
  OBVIOUS
<1>4. Descends(<<>>)
  BY <1>3 DEF Descends
<1>5. crawl' = Enter(tree', p, Ino \cup {RootIno}, <<>>, {})
  BY DEF CrawlOf
<1>6. QED BY <1>2, <1>3, <1>4, <1>5, Entered

LEMMA StartRecrawlStep ==
  ASSUME GrowInv, StartRecrawl
  PROVE  GrowInv'
<1>1. /\ crawl = NoCrawl /\ changes' = Nothing /\ crawl' = CrawlOf(tree', Root)
      /\ UNCHANGED <<habit, disk, known, kernel, watches, pending, tree, events>>
  BY DEF StartRecrawl, UntilNow
<1>2. NodesIn(tree)'
  BY <1>1 DEF GrowInv, GrowBase, NodesIn
<1>3. Root \in Path /\ disk' \in Disk /\ HasNode(tree', Root) /\ IsDir(tree'[Root].meta)
  <2>1. Root \in Path /\ disk \in Disk /\ IsDir(disk[Root].meta)
    BY PathAssumption, DiskShape, Kinds DEF GrowInv, GrowBase, GrowTypes
  <2>2. QED BY <1>1, <1>2, <2>1 DEF NodesIn
<1>4. /\ crawl' \in RunningCrawl /\ crawl'.pc = "watch" /\ crawl'.at = Root /\ CrawlInv'
      /\ \A q \in Path \ {Root} : Parent(q) = Root => WillVisit(q)'
  BY <1>1, <1>2, <1>3, Begun
<1>5. GrowTypes'
  BY <1>1, <1>4, NoChanges DEF GrowInv, GrowBase, GrowTypes
<1>6. KnownIn(tree, events)' /\ FlagsVisible'
  BY <1>1, NoChanges DEF GrowInv, GrowBase, KnownIn, FlagsVisible
<1>7. Fits(Descriptions)' /\ MapHeld' /\ CrawlTyped' /\ DirsMappedBut(ToMap)'
  <2>1. crawl.pc = "none"
    BY <1>1 DEF NoCrawl
  <2>2. QED BY <1>1, <1>4, <2>1 DEF GrowInv, GrowBase, Fits, Descriptions, MapHeld, CrawlTyped,
         DirsMappedBut, ToMap, Mapped, MappedIn
<1>8. AccountedBut(ToVisit)'
  <2>1. ASSUME NEW q \in Path \ {Root} PROVE Crawled(q)'
    <3>1. q \in Under(Root)
      <4>1. Len(q) > 0 /\ Len(Root) = 0
        BY ParentMeans DEF Root
      <4>2. QED BY <1>3, <4>1, UnderMeans
    <3>2. QED BY <1>3, <1>4, <3>1, CrawledBelow
  <2>2. QED BY <2>1 DEF AccountedBut, ToVisit
<1>9. QED BY <1>2, <1>4, <1>5, <1>6, <1>7, <1>8 DEF GrowInv, GrowBase

LEMMA NextChangeStep ==
  ASSUME GrowInv, NextChange
  PROVE  GrowInv'
<1>1. PICK p \in Path :
        LET a == ApplyChange(disk, State, p, {"origin"} \cup ({"crawl"} \cap {changes.flags[p]}))
            enter == a.recurse /\ HasNode(a.s.tree, p) /\ IsDir(a.s.tree[p].meta) /\ p \notin Ignored
            done == {p} \cup (IF a.recurse THEN Under(p) ELSE {})
        IN  /\ crawl = NoCrawl /\ changes.flags[p] # "none"
            /\ \A q \in Path : changes.flags[q] # "none" => q = p \/ Before(p, q)
            /\ Becomes(a.s)
            /\ changes' = [changes EXCEPT !.flags = [q \in Path |-> IF q \in done THEN "none" ELSE @[q]]]
            /\ crawl' = IF enter THEN CrawlOf(a.s.tree, p) ELSE NoCrawl
            /\ UNCHANGED <<UntilNow, kernel, watches, pending>>
  BY DEF NextChange
<1> DEFINE a == ApplyChange(disk, State, p, {"origin"} \cup ({"crawl"} \cap {changes.flags[p]}))
           enter == a.recurse /\ HasNode(tree', p) /\ IsDir(tree'[p].meta) /\ p \notin Ignored
           flags == [q \in Path |-> IF q = p \/ (a.recurse /\ q \in Under(p)) THEN "none" ELSE changes.flags[q]]
<1>2. /\ crawl = NoCrawl /\ tree' = a.s.tree /\ events' = a.s.events
      /\ changes' = [changes EXCEPT !.flags = flags]
      /\ crawl' = IF enter THEN CrawlOf(tree', p) ELSE NoCrawl
      /\ UNCHANGED <<habit, disk, known, kernel, watches, pending>>
  BY <1>1 DEF Becomes, UntilNow
<1>3. p \in Path \ {Root} /\ Visible(p)
  BY <1>1 DEF GrowInv, GrowBase, FlagsVisible
<1>4. Becomes(a.s)
  BY <1>1
<1>5. a.recurse \in BOOLEAN /\ (~HasNode(tree, p) => a.recurse)
  BY <1>2, <1>3, <1>4, AppliedStep
<1>6. /\ tree' \in GrownTrees /\ events' \in GrownEvents /\ NodesIn(tree)' /\ KnownIn(tree, events)'
      /\ \A q \in Path : HasNode(tree, q) => HasNode(tree', q) /\ (IsDir(tree'[q].meta) <=> IsDir(tree[q].meta))
      /\ \A q \in Path \ {p} : /\ HasNode(tree', q) => HasNode(tree, q)
                               /\ Knows(tree, q) => Knows(tree, q)'
      /\ HasNode(tree, Parent(p)) => (Exists(disk, p) => Knows(tree, p)')
  BY <1>2, <1>3, <1>4, AppliedStep
<1> HIDE DEF a
<1>7. flags \in [Path -> {"none", "stat", "crawl"}] /\ \A q \in Path : flags[q] # "none" => flags[q] = changes.flags[q]
  BY DEF GrowInv, GrowBase, GrowTypes, Changes
<1>8. changes' \in Changes /\ changes'.flags = flags /\ changes'.recrawl = changes.recrawl
  <2> HIDE DEF flags
  <2>1. changes \in Changes
    BY DEF GrowInv, GrowBase, GrowTypes
  <2>2. QED BY <1>2, <1>7, <2>1 DEF Changes
<1>9. enter => /\ crawl' \in RunningCrawl /\ crawl'.pc = "watch" /\ crawl'.at = p /\ CrawlInv'
               /\ \A q \in Path \ {Root} : Parent(q) = p => WillVisit(q)'
  <2>1. disk' \in Disk
    BY <1>2 DEF GrowInv, GrowBase, GrowTypes
  <2>2. QED BY <1>2, <1>6, <2>1, Begun
<1>10. ~enter => crawl' = NoCrawl /\ crawl'.pc = "none"
  BY <1>2 DEF NoCrawl
<1>11. crawl.pc = "none"
  BY <1>2 DEF NoCrawl
<1>12. CrawlInv' /\ crawl' \in RunningCrawl \cup {NoCrawl} /\ crawl'.pc \in {"none", "watch"}
  BY <1>9, <1>10 DEF CrawlInv
<1>13. GrowTypes'
  BY <1>2, <1>6, <1>8, <1>12 DEF GrowInv, GrowBase, GrowTypes
<1>14. FlagsVisible'
  <2>1. \A q \in Path : pending'.flags[q] # "none" => q # Root /\ Visible(q)
    BY <1>2 DEF GrowInv, GrowBase, FlagsVisible
  <2>2. \A q \in Path : changes.flags[q] # "none" => q # Root /\ Visible(q)
    BY DEF GrowInv, GrowBase, FlagsVisible
  <2>3. \A q \in Path : changes'.flags[q] # "none" => q # Root /\ Visible(q)
    BY <1>7, <1>8, <2>2
  <2>4. QED BY <2>1, <2>3 DEF FlagsVisible
<1>15. Fits(Descriptions)' /\ MapHeld' /\ CrawlTyped'
  BY <1>2, <1>12 DEF GrowInv, GrowBase, Fits, Descriptions, MapHeld, CrawlTyped
\* A directory that is new to the tree is crawled.
<1>16. ASSUME a.recurse, HasNode(tree', p), IsDir(tree'[p].meta)
       PROVE  enter
  <2>1. p \notin Ignored
    BY <1>3 DEF Visible
  <2>2. QED BY <1>16, <2>1
<1> HIDE DEF enter, flags
<1>17. DirsMappedBut(ToMap)'
  <2> SUFFICES ASSUME NEW q \in Path, HasNode(tree', q), IsDir(tree'[q].meta)
               PROVE  Mapped(q)' \/ (crawl'.pc \in {"watch", "map"} /\ crawl'.at = q)
    BY DEF DirsMappedBut, ToMap
  <2>1. CASE HasNode(tree, q)
    <3>1. IsDir(tree[q].meta)
      BY <1>6, <2>1
    <3>2. Mapped(q)
      BY <1>11, <2>1, <3>1 DEF GrowInv, GrowBase, DirsMappedBut, ToMap
    <3>3. QED BY <1>2, <3>2 DEF Mapped, MappedIn, Descriptions
  <2>2. CASE ~HasNode(tree, q)
    <3>1. q = p
      BY <1>6, <2>2
    <3>2. QED BY <1>5, <1>9, <1>16, <2>2, <3>1
  <2>3. QED BY <2>1, <2>2
<1>18. AccountedBut(ToVisit)'
  <2>1. CASE RecrawlDue
    BY <1>2, <1>8, <2>1 DEF AccountedBut, ToVisit, RecrawlDue
  <2>2. CASE ~RecrawlDue
    <3>1. SUFFICES ASSUME NEW q \in Path \ {Root}, OwedIn(tree, q)'
                   PROVE  (Knows(tree, q) \/ Told(q) \/ Flagged(q) \/ Crawled(q))'
      BY DEF AccountedBut, ToVisit
    <3>2. Exists(disk, q) /\ Visible(q) /\ HasNode(tree', Parent(q)) /\ Parent(q) \in Path /\ q \in Under(Parent(q))
      BY <1>2, <3>1, ParentMeans DEF OwedIn
    <3>3. CASE q = p
      <4>1. Parent(p) # p
        BY <3>2, <3>3, NotUnderItself
      <4>2. HasNode(tree, Parent(p))
        BY <1>6, <3>2, <3>3, <4>1
      <4>3. QED BY <1>6, <3>2, <3>3, <4>2
    <3>4. CASE q # p /\ a.recurse /\ q \in Under(p)
      <4>1. Parent(q) = p \/ Parent(q) \in Under(p)
        BY <3>4, UnderParent
      <4>2. HasNode(tree', p)
        BY <1>6, <3>2, <4>1 DEF NodesIn
      <4>3. IsDir(disk[p].meta)
        <5>1. disk \in Disk
          BY DEF GrowInv, GrowBase, GrowTypes
        <5>2. Listed(disk, q)
          BY <3>2, <5>1, DiskKinds, Kinds
        <5>3. QED BY <3>4, <5>1, <5>2, DiskShape
      <4>4. IsDir(tree'[p].meta)
        BY <1>2, <4>2, <4>3, <1>6 DEF NodesIn
      <4>5. enter
        BY <1>16, <3>4, <4>2, <4>4
      <4>6. Crawled(q)'
        BY <1>9, <3>4, <4>5, CrawledBelow
      <4>7. QED BY <4>6
    <3>5. CASE q # p /\ ~(a.recurse /\ q \in Under(p))
      <4>1. HasNode(tree, Parent(q))
        <5>1. CASE Parent(q) = p
          BY <1>5, <3>2, <3>5, <5>1
        <5>2. CASE Parent(q) # p
          BY <1>6, <3>2, <5>2
        <5>3. QED BY <5>1, <5>2
      <4>2. OwedIn(tree, q)
        BY <3>2, <4>1 DEF OwedIn
      <4>3. Knows(tree, q) \/ Told(q) \/ Flagged(q) \/ Crawled(q)
        BY <2>2, <4>2 DEF GrowInv, GrowBase, AccountedBut, ToVisit
      <4>4. ~Crawled(q)
        BY <1>11 DEF Crawled, WillVisit
      <4>5. Told(q)' <=> Told(q)
        BY <1>2 DEF Told
      <4>6. Flagged(q)' <=> Flagged(q)
        <5>1. changes'.flags[q] = changes.flags[q]
          BY <1>8, <3>5 DEF flags
        <5>2. QED BY <1>2, <5>1 DEF Flagged
      <4>7. QED BY <1>6, <3>5, <4>3, <4>4, <4>5, <4>6
    <3>6. QED BY <3>3, <3>4, <3>5
  <2>3. QED BY <2>1, <2>2
<1>19. QED BY <1>6, <1>12, <1>13, <1>14, <1>15, <1>17, <1>18 DEF GrowInv, GrowBase

LEMMA VisitEntryStep ==
  ASSUME GrowInv, VisitEntry
  PROVE  GrowInv'
<1>1. /\ crawl.pc = "visit" /\ crawl \in RunningCrawl /\ crawl.listing \in Seq(Level) /\ Len(crawl.listing) \in Nat
      /\ Len(crawl.listing) \in DOMAIN crawl.listing /\ DOMAIN crawl.listing = 1 .. Len(crawl.listing)
      /\ Here = crawl.listing[Len(crawl.listing)] /\ Here.of \in Path
      /\ HasNode(tree, Here.of) /\ IsDir(tree[Here.of].meta)
  BY CrawlIsHere DEF GrowInv, GrowBase, VisitEntry, CrawlStep
<1>2. PICK p \in Path \ {Root} : p = crawl.at
  BY <1>1 DEF GrowInv, GrowBase, CrawlInv, AtHand, RunningCrawl
<1> DEFINE a == ApplyChange(disk, State, p, CrawlFlags(TRUE))
           flagged == IF HasNode(tree', p) THEN crawl.flagged \ {p} ELSE crawl.flagged
<1>3. /\ tree' = a.s.tree /\ events' = a.s.events
      /\ crawl' = IF IsDir(tree'[p].meta) THEN Enter(tree', p, crawl.open, crawl.listing, flagged)
                  ELSE [crawl EXCEPT !.pc = "next", !.flagged = flagged]
      /\ UNCHANGED <<habit, disk, known, kernel, watches, pending, changes>>
  BY <1>2 DEF VisitEntry, CrawlStep, Becomes, UntilNow
<1>4. /\ Parent(p) = Here.of /\ Visible(p) /\ Listed(disk, p)
      /\ IsDir(disk[p].meta) => disk[p].ino \in crawl.open
      /\ crawl.open \in SUBSET Inode /\ crawl.flagged \in SUBSET Path
      /\ Levels /\ FlaggedWillBeMet
  BY <1>1, <1>2 DEF GrowInv, GrowBase, CrawlInv, AtHand, RunningCrawl
<1>5. Becomes(a.s)
  BY <1>3 DEF Becomes
<1>6. /\ tree' \in GrownTrees /\ events' \in GrownEvents /\ NodesIn(tree)' /\ KnownIn(tree, events)'
      /\ \A q \in Path : HasNode(tree, q) => HasNode(tree', q) /\ (IsDir(tree'[q].meta) <=> IsDir(tree[q].meta))
      /\ \A q \in Path \ {p} : /\ HasNode(tree', q) => HasNode(tree, q)
                               /\ Knows(tree, q) => Knows(tree, q)'
      /\ HasNode(tree, Parent(p)) => (Exists(disk, p) => Knows(tree, p)')
  BY <1>3, <1>4, <1>5, AppliedStep
<1> HIDE DEF a
<1>7. disk \in Disk /\ disk' \in Disk
  BY <1>3 DEF GrowInv, GrowBase, GrowTypes
<1>8. /\ \A l \in DOMAIN crawl.listing : LevelRight(tree', disk', crawl.listing[l]) /\ Len(crawl.listing[l].of) < Len(p)
      /\ Descends(crawl.listing) /\ Len(crawl.listing) > 0
  <2>1. ASSUME NEW l \in DOMAIN crawl.listing
        PROVE  LevelRight(tree', disk', crawl.listing[l]) /\ Len(crawl.listing[l].of) < Len(p)
    <3>1. crawl.listing[l].of \in Path /\ LevelRight(tree, disk, crawl.listing[l])
      <4>1. crawl.listing[l] \in Level
        BY <1>1
      <4>2. QED BY <1>4, <4>1 DEF Levels, Level
    <3>2. LevelRight(tree', disk', crawl.listing[l])
      BY <1>3, <1>6, <3>1 DEF LevelRight
    <3>3. Len(crawl.listing[l].of) <= Len(Here.of) /\ Len(crawl.listing[l].of) \in Nat /\ Len(Here.of) \in Nat
      <4>1. Len(crawl.listing[l].of) \in Nat /\ Len(Here.of) \in Nat
        BY <1>1, <3>1, PathTypes
      <4>2. CASE l = Len(crawl.listing)
        BY <1>1, <4>1, <4>2
      <4>3. CASE l # Len(crawl.listing)
        <5>1. l < Len(crawl.listing)
          BY <1>1, <4>3
        <5>2. QED BY <1>1, <1>4, <4>1, <5>1 DEF Levels, Descends
      <4>4. QED BY <4>2, <4>3
    <3>4. Len(Here.of) = Len(p) - 1 /\ Len(p) \in Nat
      BY <1>4, ParentMeans, PathTypes
    <3>5. QED BY <3>2, <3>3, <3>4
  <2>2. QED BY <1>4, <2>1 DEF Levels
\* What has no node after the visit was not flagged before it.
<1>9. flagged \in SUBSET Path /\ \A q \in flagged : HasNode(tree', q) /\ IsEntry(q, crawl.listing)
  <2>1. flagged \subseteq crawl.flagged /\ p \notin flagged
    BY <1>4, <1>6 DEF FlaggedWillBeMet
  <2>2. \A q \in flagged : HasNode(tree, q) /\ WillVisit(q) /\ q # p
    BY <1>4, <2>1 DEF FlaggedWillBeMet
  <2>3. \A q \in flagged : IsEntry(q, crawl.listing)
    BY <1>1, <1>2, <2>2 DEF WillVisit
  <2>4. QED BY <1>4, <1>6, <2>1, <2>2, <2>3
<1>10. IsDir(tree'[p].meta) => HasNode(tree', p) /\ IsDir(disk[p].meta)
  <2>1. ~HasNode(tree', p) => tree'[p] = NoNode
    BY <1>6 DEF HasNode
  <2>2. QED BY <1>3, <1>6, <2>1, NodeKinds DEF NodesIn
<1> HIDE DEF flagged
<1>11. /\ crawl' \in RunningCrawl /\ crawl'.pc \in {"watch", "next"} /\ CrawlInv'
       /\ \A q \in Path : IsEntry(q, crawl.listing) => WillVisit(q)'
       /\ IsDir(tree'[p].meta) => /\ crawl'.pc = "watch" /\ crawl'.at = p
                                  /\ \A q \in Path \ {Root} : Parent(q) = p => WillVisit(q)'
  <2>1. CASE IsDir(tree'[p].meta)
    <3>1. crawl' = Enter(tree', p, crawl.open, crawl.listing, flagged)
      BY <1>3, <2>1
    <3>2. disk'[p].ino \in crawl.open
      BY <1>3, <1>4, <1>10, <2>1
    <3>3. /\ crawl' \in RunningCrawl /\ crawl'.pc = "watch" /\ crawl'.at = p /\ CrawlInv'
          /\ \A q \in Path \ {Root} : Parent(q) = p => WillVisit(q)'
          /\ \A q \in Path : IsEntry(q, crawl.listing) => WillVisit(q)'
      BY <1>1, <1>4, <1>7, <1>8, <1>9, <1>10, <2>1, <3>1, <3>2, Entered
    <3>4. QED BY <3>3
  <2>2. CASE ~IsDir(tree'[p].meta)
    <3>1. crawl' = [crawl EXCEPT !.pc = "next", !.flagged = flagged]
      BY <1>3, <2>2
    <3>2. crawl' \in RunningCrawl /\ crawl'.pc = "next" /\ crawl'.listing = crawl.listing /\ crawl'.flagged = flagged
      BY <1>1, <1>9, <3>1 DEF RunningCrawl
    <3>3. \A q \in Path : IsEntry(q, crawl.listing) => WillVisit(q)'
      BY <3>2 DEF WillVisit
    <3>4. Levels' /\ AtHand' /\ FlaggedWillBeMet'
      BY <1>8, <1>9, <3>2, <3>3 DEF Levels, AtHand, FlaggedWillBeMet
    <3>5. QED BY <2>2, <3>2, <3>3, <3>4 DEF CrawlInv
  <2>3. QED BY <2>1, <2>2
<1>12. GrowTypes'
  BY <1>3, <1>6, <1>11 DEF GrowInv, GrowBase, GrowTypes
<1>13. FlagsVisible' /\ Fits(Descriptions)' /\ MapHeld' /\ CrawlTyped'
  BY <1>3, <1>11 DEF GrowInv, GrowBase, FlagsVisible, Fits, Descriptions, MapHeld, CrawlTyped
<1>14. DirsMappedBut(ToMap)'
  <2> SUFFICES ASSUME NEW q \in Path, HasNode(tree', q), IsDir(tree'[q].meta), q # p
               PROVE  Mapped(q)'
    BY <1>11 DEF DirsMappedBut, ToMap
  <2>1. HasNode(tree, q) /\ IsDir(tree[q].meta)
    BY <1>6
  <2>2. Mapped(q)
    BY <1>1, <2>1 DEF GrowInv, GrowBase, DirsMappedBut, ToMap
  <2>3. QED BY <1>3, <2>2 DEF Mapped, MappedIn, Descriptions
<1>15. AccountedBut(ToVisit)'
  <2>1. CASE RecrawlDue
    BY <1>3, <2>1 DEF AccountedBut, ToVisit, RecrawlDue
  <2>2. CASE ~RecrawlDue
    <3>1. SUFFICES ASSUME NEW q \in Path \ {Root}, OwedIn(tree, q)'
                   PROVE  (Knows(tree, q) \/ Told(q) \/ Flagged(q) \/ Crawled(q))'
      BY DEF AccountedBut, ToVisit
    <3>2. Exists(disk, q) /\ Visible(q) /\ HasNode(tree', Parent(q)) /\ Parent(q) \in Path
      BY <1>3, <3>1, ParentMeans DEF OwedIn
    <3>3. ASSUME q \in Under(p), HasNode(tree', p)
          PROVE  Crawled(q)'
      <4>1. Listed(disk, q)
        BY <1>7, <3>2, DiskKinds, Kinds
      <4>2. IsDir(disk[p].meta)
        BY <1>7, <3>3, <4>1, DiskShape
      <4>3. IsDir(tree'[p].meta)
        BY <1>3, <1>6, <3>3, <4>2 DEF NodesIn
      <4>4. QED BY <1>11, <3>3, <4>3, CrawledBelow
    <3>4. CASE q = p
      BY <1>1, <1>4, <1>6, <3>2, <3>4
    <3>5. CASE q # p /\ ~HasNode(tree, Parent(q))
      <4>1. Parent(q) = p
        BY <1>6, <3>2, <3>5
      <4>2. q \in Under(p)
        BY <4>1, ParentMeans
      <4>3. QED BY <3>2, <3>3, <4>1, <4>2
    <3>6. CASE q # p /\ HasNode(tree, Parent(q))
      <4>1. OwedIn(tree, q)
        BY <3>2, <3>6 DEF OwedIn
      <4>2. Knows(tree, q) \/ Told(q) \/ Flagged(q) \/ Crawled(q)
        BY <2>2, <4>1 DEF GrowInv, GrowBase, AccountedBut, ToVisit
      <4>3. (Told(q)' <=> Told(q)) /\ (Flagged(q)' <=> Flagged(q))
        BY <1>3 DEF Told, Flagged
      <4>4. ASSUME Crawled(q) PROVE Crawled(q)'
        <5>1. PICK r \in Path : (r = q \/ q \in Under(r)) /\ WillVisit(r)
          BY <4>4 DEF Crawled
        <5>2. CASE r = p
          <6>1. q \in Under(p)
            BY <3>6, <5>1, <5>2
          <6>2. Parent(q) = p \/ Parent(q) \in Under(p)
            BY <6>1, UnderParent
          <6>3. HasNode(tree', p)
            BY <1>6, <3>2, <6>2 DEF NodesIn
          <6>4. QED BY <3>3, <6>1, <6>3
        <5>3. CASE r # p
          <6>1. IsEntry(r, crawl.listing)
            BY <1>1, <1>2, <5>1, <5>3 DEF WillVisit
          <6>2. WillVisit(r)'
            BY <1>11, <6>1
          <6>3. QED BY <5>1, <6>2 DEF Crawled
        <5>4. QED BY <5>2, <5>3
      <4>5. QED BY <1>6, <3>6, <4>2, <4>3, <4>4
    <3>7. QED BY <3>4, <3>5, <3>6
  <2>3. QED BY <2>1, <2>2
<1>16. QED BY <1>6, <1>11, <1>12, <1>13, <1>14, <1>15 DEF GrowInv, GrowBase

------------------------------------------------------------------------------
(* The steps of a crawl *)

LEMMA Steps == Then("watch") = "map" /\ Then("map") = "read" /\ Then("read") = "next"
<1>1. DOMAIN Order = 1 .. 4 /\ Order[1] = "watch" /\ Order[2] = "map" /\ Order[3] = "read" /\ Order[4] = "next"
  BY DEF Order
<1>2. \A i \in 1 .. 4 : i = 1 \/ i = 2 \/ i = 3 \/ i = 4
  OBVIOUS
<1>3. \A pc : \A i \in DOMAIN Order : Order[i] = pc /\ (\A j \in DOMAIN Order : Order[j] = pc => j = i) => Then(pc) = Order[i + 1]
  BY DEF Then
<1> HIDE DEF Order
<1>4. Then("watch") = Order[1 + 1]
  BY <1>1, <1>2, <1>3
<1>5. Then("map") = Order[2 + 1]
  BY <1>1, <1>2, <1>3
<1>6. Then("read") = Order[3 + 1]
  BY <1>1, <1>2, <1>3
<1>7. QED BY <1>1, <1>4, <1>5, <1>6

\* The directory that is watched, mapped and read.
LEMMA AtDirectory ==
  ASSUME GrowInv, crawl.pc \in {"watch", "map", "read"}
  PROVE  /\ crawl \in RunningCrawl /\ crawl.at \in Path /\ crawl.at = Here.of /\ Here.entries = {}
         /\ HasNode(tree, crawl.at) /\ Visible(crawl.at) /\ IsDir(disk[crawl.at].meta) /\ Listed(disk, crawl.at)
         /\ disk \in Disk /\ disk[crawl.at].ino \in crawl.open
         /\ disk[crawl.at].ino \in Inode
         /\ Levels /\ AtHand /\ FlaggedWillBeMet
<1>1. crawl.pc # "none"
  OBVIOUS
<1>2. GrowTypes /\ CrawlTyped /\ NodesIn(tree) /\ CrawlInv /\ disk \in Disk
  BY DEF GrowInv, GrowBase, GrowTypes
<1>3. /\ crawl \in RunningCrawl /\ Here.of \in Path
      /\ HasNode(tree, Here.of) /\ Visible(Here.of) /\ IsDir(disk[Here.of].meta) /\ Listed(disk, Here.of)
  BY <1>1, <1>2, CrawlIsHere
<1>4. Levels /\ AtHand /\ FlaggedWillBeMet
  BY <1>1, <1>2 DEF CrawlInv
<1>5. crawl.at = Here.of /\ Here.entries = {} /\ disk[crawl.at].ino \in crawl.open
  BY <1>4 DEF AtHand
<1>6. disk[Here.of].ino \in Inode
  BY <1>2, <1>3, DiskKinds
<1>7. QED BY <1>2, <1>3, <1>4, <1>5, <1>6

LEMMA KernelWatchStep ==
  ASSUME GrowInv, KernelWatch
  PROVE  GrowInv'
<1> DEFINE w == WatchDir(disk, crawl.at, [wd |-> kernel.wd, last |-> kernel.last, watches |-> watches])
           i == disk[crawl.at].ino
           d == IF kernel.wd[i] = 0 THEN kernel.last + 1 ELSE kernel.wd[i]
           last == IF kernel.wd[i] = 0 THEN d ELSE kernel.last
<1>1. /\ crawl.pc = "watch" /\ UNCHANGED <<habit, disk, known, pending, changes, watches, tree, events>>
      /\ kernel' = [kernel EXCEPT !.wd = w.wd, !.last = w.last]
      /\ crawl' = [crawl EXCEPT !.pc = "map", !.wd = IF IsDir(disk[crawl.at].meta) THEN w.wd[i] ELSE 0]
  BY Steps DEF KernelWatch, CrawlStep, UntilNow
<1>2. /\ crawl \in RunningCrawl /\ crawl.at \in Path /\ IsDir(disk[crawl.at].meta) /\ i \in Inode
      /\ Levels /\ AtHand /\ FlaggedWillBeMet
  BY <1>1, AtDirectory
<1>3. w.wd = [kernel.wd EXCEPT ![i] = d] /\ w.last = last
  BY <1>2 DEF WatchDir
<1>4. kernel \in Kernel /\ kernel.wd \in [Inode -> Nat] /\ kernel.last \in Nat /\ kernel.wd[i] \in Nat
  BY <1>2 DEF GrowInv, GrowBase, GrowTypes, Kernel
<1>5. d \in Nat /\ d # 0 /\ last \in Nat /\ kernel.last <= last /\ d <= last
      /\ (kernel.wd[i] # 0 => d = kernel.wd[i]) /\ (kernel.wd[i] = 0 => d > kernel.last)
  <2>1. kernel.wd[i] <= kernel.last
    BY <1>2 DEF GrowInv, GrowBase, Fits, Descriptions
  <2>2. QED BY <1>4, <2>1
<1> HIDE DEF w, d, last, i
<1>6. /\ kernel' \in Kernel /\ kernel'.queue = kernel.queue /\ kernel'.last = last
      /\ kernel'.wd = [kernel.wd EXCEPT ![i] = d]
  BY <1>1, <1>3, <1>4, <1>5 DEF Kernel
<1>7. kernel'.wd[i] = d /\ \A j \in Inode \ {i} : kernel'.wd[j] = kernel.wd[j]
  BY <1>2, <1>4, <1>6
<1>8. \A j \in Inode : kernel.wd[j] # 0 => kernel'.wd[j] = kernel.wd[j]
  BY <1>5, <1>7
<1>9. crawl' = [crawl EXCEPT !.pc = "map", !.wd = d]
  BY <1>1, <1>2, <1>3, <1>6, <1>7
<1>10. /\ crawl' \in RunningCrawl /\ crawl'.pc = "map" /\ crawl'.wd = d /\ crawl'.at = crawl.at
       /\ crawl'.open = crawl.open /\ crawl'.listing = crawl.listing /\ crawl'.flagged = crawl.flagged
  BY <1>2, <1>5, <1>9 DEF RunningCrawl
<1>11. GrowTypes'
  BY <1>1, <1>6, <1>10 DEF GrowInv, GrowBase, GrowTypes
<1>12. NodesIn(tree)' /\ KnownIn(tree, events)' /\ FlagsVisible'
  BY <1>1 DEF GrowInv, GrowBase, NodesIn, KnownIn, FlagsVisible
<1>13. \A p \in Path : disk[p].ino \in Inode
  BY DiskKinds DEF GrowInv, GrowBase, GrowTypes
<1>14. Fits(Descriptions)' /\ MapHeld' /\ CrawlTyped'
  <2>1. ASSUME NEW j \in Inode, NEW k \in Inode
        PROVE  kernel'.wd[j] <= kernel'.last /\ (kernel'.wd[j] = kernel'.wd[k] /\ kernel'.wd[j] # 0 => j = k)
    <3>1. /\ kernel.wd[j] <= kernel.last /\ (kernel.wd[j] = kernel.wd[k] /\ kernel.wd[j] # 0 => j = k)
          /\ kernel.wd[k] <= kernel.last /\ kernel.wd[j] \in Nat /\ kernel.wd[k] \in Nat
      BY <1>4 DEF GrowInv, GrowBase, Fits, Descriptions
    <3>2. kernel'.wd[j] <= kernel'.last
      BY <1>4, <1>5, <1>6, <1>7, <3>1
    <3>3. CASE kernel.wd[i] = 0
      BY <1>4, <1>5, <1>7, <3>1, <3>2, <3>3
    <3>4. CASE kernel.wd[i] # 0
      <4>1. kernel'.wd[j] = kernel.wd[j] /\ kernel'.wd[k] = kernel.wd[k]
        BY <1>5, <1>7, <3>4
      <4>2. QED BY <3>1, <3>2, <4>1
    <3>5. QED BY <3>3, <3>4
  <2>2. ASSUME NEW x \in DOMAIN watches
        PROVE  /\ Visible(watches[x]) /\ IsDir(disk[watches[x]].meta)
               /\ kernel'.wd[disk[watches[x]].ino] = x
    <3>1. /\ Visible(watches[x]) /\ IsDir(disk[watches[x]].meta) /\ kernel.wd[disk[watches[x]].ino] = x
          /\ x # 0 /\ watches[x] \in Path
      BY DEF GrowInv, GrowBase, Fits, Descriptions, GrowTypes
    <3>2. QED BY <1>8, <1>13, <3>1
  <2>3. crawl'.wd = kernel'.wd[disk'[crawl'.at].ino] /\ crawl'.wd # 0
    BY <1>1, <1>5, <1>7, <1>10 DEF i
  <2>4. QED BY <1>1, <1>6, <1>10, <2>1, <2>2, <2>3 DEF Fits, Descriptions, MapHeld, CrawlTyped
<1>15. DirsMappedBut(ToMap)'
  <2> SUFFICES ASSUME NEW p \in Path, HasNode(tree, p), IsDir(tree[p].meta), p # crawl.at
               PROVE  Mapped(p)'
    BY <1>1, <1>10 DEF DirsMappedBut, ToMap
  <2>1. Mapped(p)
    BY DEF GrowInv, GrowBase, DirsMappedBut, ToMap
  <2>2. kernel.wd[disk[p].ino] # 0
    BY <2>1 DEF Mapped, MappedIn, Descriptions, GrowInv, GrowBase, GrowTypes
  <2>3. kernel'.wd[disk[p].ino] = kernel.wd[disk[p].ino]
    BY <1>8, <1>13, <2>2
  <2>4. QED BY <1>1, <2>1, <2>3 DEF Mapped, MappedIn, Descriptions
<1>16. \A q \in Path : WillVisit(q)' <=> WillVisit(q)
  BY <1>1, <1>10 DEF WillVisit
<1>17. CrawlInv'
  <2>1. Here' = Here
    BY <1>10 DEF Here
  <2>2. Levels'
    BY <1>1, <1>2, <1>10 DEF Levels
  <2>3. AtHand'
    BY <1>1, <1>2, <1>10, <2>1 DEF AtHand
  <2>4. FlaggedWillBeMet'
    BY <1>1, <1>2, <1>10, <1>16 DEF FlaggedWillBeMet, RunningCrawl
  <2>5. QED BY <2>2, <2>3, <2>4 DEF CrawlInv
<1>18. AccountedBut(ToVisit)'
  <2>1. RecrawlDue' <=> RecrawlDue
    BY <1>1, <1>6 DEF RecrawlDue
  <2>2. \A q \in Path : Crawled(q)' <=> Crawled(q)
    BY <1>16 DEF Crawled
  <2>3. \A q \in Path : /\ OwedIn(tree, q)' <=> OwedIn(tree, q)
                        /\ Knows(tree, q)' <=> Knows(tree, q)
                        /\ Flagged(q)' <=> Flagged(q)
    BY <1>1 DEF OwedIn, Knows, Flagged
  <2>4. \A q \in Path : Told(q)' <=> Told(q)
    BY <1>1, <1>6 DEF Told
  <2>5. QED BY <2>1, <2>2, <2>3, <2>4 DEF GrowInv, GrowBase, AccountedBut, ToVisit
<1>19. QED BY <1>11, <1>12, <1>14, <1>15, <1>17, <1>18 DEF GrowInv, GrowBase

LEMMA MapWatchStep ==
  ASSUME GrowInv, MapWatch
  PROVE  GrowInv'
<1>1. /\ crawl.pc = "map" /\ UNCHANGED <<habit, disk, known, pending, changes, kernel, tree, events>>
      /\ watches' = IF crawl.wd = 0 THEN watches ELSE Inserted(watches, crawl.wd, crawl.at)
      /\ crawl' = [crawl EXCEPT !.pc = "read"]
  BY Steps DEF MapWatch, CrawlStep, UntilNow
<1>2. /\ crawl \in RunningCrawl /\ crawl.at \in Path /\ IsDir(disk[crawl.at].meta)
      /\ Visible(crawl.at) /\ Listed(disk, crawl.at) /\ disk \in Disk
      /\ Levels /\ AtHand /\ FlaggedWillBeMet
  BY <1>1, AtDirectory
<1>3. crawl.wd = kernel.wd[disk[crawl.at].ino] /\ crawl.wd # 0 /\ crawl.wd \in Nat
  BY <1>1, <1>2 DEF GrowInv, GrowBase, MapHeld, RunningCrawl
<1>4. /\ DOMAIN watches' = DOMAIN watches \cup {crawl.wd} /\ watches'[crawl.wd] = crawl.at
      /\ \A d \in DOMAIN watches : d # crawl.wd => watches'[d] = watches[d]
      /\ watches' = [d \in DOMAIN watches' |-> watches'[d]]
  <2>1. watches' = [d \in DOMAIN watches \cup {crawl.wd} |-> IF d = crawl.wd THEN crawl.at ELSE watches[d]]
    BY <1>1, <1>3 DEF Inserted
  <2>2. QED BY <2>1
\* A descriptor that is mapped stands for the same path as before.
<1>5. \A d \in DOMAIN watches : watches'[d] = watches[d]
  <2> SUFFICES crawl.wd \in DOMAIN watches => watches[crawl.wd] = crawl.at
    BY <1>4
  <2> HAVE crawl.wd \in DOMAIN watches
  <2>1. /\ watches[crawl.wd] \in Path /\ IsDir(disk[watches[crawl.wd]].meta)
        /\ kernel.wd[disk[watches[crawl.wd]].ino] = crawl.wd
    BY DEF GrowInv, GrowBase, GrowTypes, Fits, Descriptions
  <2>2. disk[watches[crawl.wd]].ino \in Inode /\ disk[crawl.at].ino \in Inode
    BY <1>2, <2>1, DiskKinds
  <2>3. \A i, j \in Inode : kernel.wd[i] = kernel.wd[j] /\ kernel.wd[i] # 0 => i = j
    BY DEF GrowInv, GrowBase, Fits, Descriptions
  <2>4. disk[watches[crawl.wd]].ino = disk[crawl.at].ino
    BY <1>3, <2>1, <2>2, <2>3
  <2>5. QED BY <1>2, <2>1, <2>4, DiskShape
<1>6. watches' \in [DOMAIN watches' -> Path] /\ DOMAIN watches' \subseteq Nat \ {0}
  <2>1. \A d \in DOMAIN watches' : watches'[d] \in Path
    BY <1>2, <1>4 DEF GrowInv, GrowBase, GrowTypes
  <2>2. QED BY <1>3, <1>4, <2>1 DEF GrowInv, GrowBase, GrowTypes
<1>7. /\ crawl' \in RunningCrawl /\ crawl'.pc = "read" /\ crawl'.wd = crawl.wd /\ crawl'.at = crawl.at
      /\ crawl'.open = crawl.open /\ crawl'.listing = crawl.listing /\ crawl'.flagged = crawl.flagged
  BY <1>1, <1>2 DEF RunningCrawl
<1>8. GrowTypes'
  BY <1>1, <1>6, <1>7 DEF GrowInv, GrowBase, GrowTypes
<1>9. NodesIn(tree)' /\ KnownIn(tree, events)' /\ FlagsVisible'
  BY <1>1 DEF GrowInv, GrowBase, NodesIn, KnownIn, FlagsVisible
<1>10. Fits(Descriptions)' /\ MapHeld' /\ CrawlTyped'
  <2>1. \A d \in DOMAIN watches' : /\ Visible(watches'[d]) /\ IsDir(disk[watches'[d]].meta)
                                   /\ kernel.wd[disk[watches'[d]].ino] = d
    BY <1>2, <1>3, <1>4 DEF GrowInv, GrowBase, Fits, Descriptions
  <2>2. QED BY <1>1, <1>7, <2>1 DEF GrowInv, GrowBase, Fits, Descriptions, MapHeld, CrawlTyped
<1>11. DirsMappedBut(ToMap)'
  <2> SUFFICES ASSUME NEW p \in Path, HasNode(tree, p), IsDir(tree[p].meta)
               PROVE  Mapped(p)'
    BY <1>1 DEF DirsMappedBut, ToMap
  <2>1. CASE p = crawl.at
    BY <1>1, <1>3, <1>4, <2>1 DEF Mapped, MappedIn, Descriptions
  <2>2. CASE p # crawl.at
    <3>1. Mapped(p)
      BY <2>2 DEF GrowInv, GrowBase, DirsMappedBut, ToMap
    <3>2. QED BY <1>1, <1>4, <1>5, <3>1 DEF Mapped, MappedIn, Descriptions
  <2>3. QED BY <2>1, <2>2
<1>12. \A q \in Path : WillVisit(q)' <=> WillVisit(q)
  BY <1>1, <1>7 DEF WillVisit
<1>13. CrawlInv'
  <2>1. Here' = Here
    BY <1>7 DEF Here
  <2>2. Levels'
    BY <1>1, <1>2, <1>7 DEF Levels
  <2>3. AtHand'
    BY <1>1, <1>2, <1>7, <2>1 DEF AtHand
  <2>4. FlaggedWillBeMet'
    BY <1>1, <1>2, <1>7, <1>12 DEF FlaggedWillBeMet, RunningCrawl
  <2>5. QED BY <2>2, <2>3, <2>4 DEF CrawlInv
<1>14. \A q \in Path : Told(q) => Told(q)'
  BY <1>1, <1>4, <1>5 DEF Told
<1>15. AccountedBut(ToVisit)'
  BY <1>1, <1>12, <1>14 DEF GrowInv, GrowBase, AccountedBut, ToVisit, RecrawlDue, OwedIn, Knows, Flagged, Crawled
<1>16. QED BY <1>8, <1>9, <1>10, <1>11, <1>13, <1>15 DEF GrowInv, GrowBase

\* The crawl's listing once the entries of the directory it is in change.
LEMMA NewEntries ==
  ASSUME GrowInv, crawl.pc # "none", NEW entries \in SUBSET Entry, crawl'.listing = With(entries),
         tree' = tree, disk' = disk,
         \A e \in entries : /\ e.path # Root /\ Parent(e.path) = Here.of
                            /\ Listed(disk, e.path) /\ (e.dir <=> IsDir(disk[e.path].meta))
  PROVE  /\ crawl'.listing \in Seq(Level) /\ Levels' /\ Here'.of = Here.of /\ Here'.entries = entries
         /\ \A q \in Path : IsEntry(q, crawl.listing) =>
              IsEntry(q, crawl'.listing) \/ \E e \in Here.entries : e.path = q
         /\ \A e \in entries : IsEntry(e.path, crawl'.listing)
<1> DEFINE n == Len(crawl.listing)
<1>1. /\ crawl.listing \in Seq(Level) /\ n \in Nat /\ DOMAIN crawl.listing = 1 .. n /\ n \in 1 .. n
      /\ Here = crawl.listing[n] /\ Here.of \in Path /\ Levels
  BY CrawlIsHere DEF GrowInv, GrowBase, CrawlInv
<1>2. PICK all : all = With(entries)
  OBVIOUS
<1>3. n > 0
  BY <1>1
<1>4. /\ all \in Seq(Level) /\ Len(all) = n /\ DOMAIN all = 1 .. n
      /\ all[n] = [of |-> Here.of, entries |-> entries] /\ Last(all) = all[n]
      /\ \A l \in 1 .. n : l = n \/ (l \in 1 .. n - 1 /\ all[l] = crawl.listing[l])
      /\ \A l \in 1 .. n : all[l].of = crawl.listing[l].of
  BY <1>1, <1>2, <1>3, Relisted
<1> HIDE DEF n
<1>5. crawl'.listing = all /\ Here' = all[n]
  BY <1>2, <1>4 DEF Here
<1>6. Levels'
  <2>1. \A l \in 1 .. n : LevelRight(tree, disk, crawl.listing[l])
    BY <1>1 DEF Levels
  <2>2. LevelRight(tree, disk, all[n])
    BY <1>1, <1>4, <2>1 DEF LevelRight
  <2>3. \A l \in 1 .. n : LevelRight(tree, disk, all[l])
    BY <1>4, <2>1, <2>2
  <2>4. Descends(all)
    BY <1>1, <1>4 DEF Levels, Descends
  <2>5. QED BY <1>3, <1>4, <1>5, <2>3, <2>4 DEF Levels
<1>7. ASSUME NEW q \in Path, IsEntry(q, crawl.listing)
      PROVE  IsEntry(q, all) \/ \E e \in Here.entries : e.path = q
  <2>1. PICK l \in 1 .. n : \E e \in crawl.listing[l].entries : e.path = q
    BY <1>1, <1>7 DEF IsEntry
  <2>2. QED BY <1>1, <1>4, <2>1 DEF IsEntry
<1>8. \A e \in entries : IsEntry(e.path, all)
  BY <1>1, <1>4 DEF IsEntry
<1>9. QED BY <1>4, <1>5, <1>6, <1>7, <1>8

\* A crawl that still comes to what it would have come to still owes nothing.
LEMMA VisitsKept ==
  ASSUME GrowInv, UNCHANGED <<disk, kernel, watches, pending, changes, tree>>,
         \A q \in Path : WillVisit(q) /\ Listed(disk, q) /\ (q # Root => q \notin Ignored) => WillVisit(q)'
  PROVE  AccountedBut(ToVisit)'
<1>1. disk \in Disk
  BY DEF GrowInv, GrowBase, GrowTypes
<1>2. ASSUME NEW p \in Path \ {Root}, OwedIn(tree, p), Crawled(p)
      PROVE  Crawled(p)'
  <2>1. PICK q \in Path : (q = p \/ p \in Under(q)) /\ WillVisit(q)
    BY <1>2 DEF Crawled
  <2>2. Listed(disk, p)
    BY <1>1, <1>2, DiskKinds, Kinds DEF OwedIn
  <2>3. Listed(disk, q)
    BY <1>1, <2>1, <2>2, DiskShape, Kinds DEF Listed
  <2>4. q # Root => q \notin Ignored
    BY <1>2, <2>1 DEF OwedIn, Visible
  <2>5. WillVisit(q)'
    BY <2>1, <2>3, <2>4
  <2>6. QED BY <2>1, <2>5 DEF Crawled
<1>3. \A p \in Path : /\ (OwedIn(tree, p)' <=> OwedIn(tree, p)) /\ (Knows(tree, p)' <=> Knows(tree, p)) /\ (Told(p)' <=> Told(p))
                      /\ (Flagged(p)' <=> Flagged(p))
  BY DEF OwedIn, Knows, Told, Flagged
<1>4. RecrawlDue' <=> RecrawlDue
  BY DEF RecrawlDue
<1>5. QED BY <1>2, <1>3, <1>4 DEF GrowInv, GrowBase, AccountedBut, ToVisit

\* What a step leaves alone that only goes on with the walk.
LEMMA WalkStep ==
  ASSUME GrowInv, crawl.pc \in {"read", "next"},
         UNCHANGED <<habit, disk, kernel, watches, pending, changes, tree, events, known>>,
         crawl' \in RunningCrawl \cup {NoCrawl}, crawl'.pc \in {"none", "next", "visit", "read", "watch"},
         CrawlInv', AccountedBut(ToVisit)'
  PROVE  GrowInv'
<1>1. GrowTypes'
  BY DEF GrowInv, GrowBase, GrowTypes
<1>2. NodesIn(tree)' /\ KnownIn(tree, events)' /\ FlagsVisible'
  BY DEF GrowInv, GrowBase, NodesIn, KnownIn, FlagsVisible
<1>3. Fits(Descriptions)' /\ MapHeld' /\ CrawlTyped'
  BY DEF GrowInv, GrowBase, Fits, Descriptions, MapHeld, CrawlTyped
<1>4. DirsMappedBut(ToMap)'
  BY DEF GrowInv, GrowBase, DirsMappedBut, ToMap, Mapped, MappedIn, Descriptions
<1>5. QED BY <1>1, <1>2, <1>3, <1>4 DEF GrowInv, GrowBase

LEMMA ReadDirectoryStep ==
  ASSUME GrowInv, ReadDirectory
  PROVE  GrowInv'
<1> DEFINE at == crawl.at
           here == {q \in Under(at) : Parent(q) = at /\ Listed(disk, q)}
           entries == {[path |-> q, dir |-> IsDir(disk[q].meta)] : q \in here}
<1>1. /\ crawl.pc = "read" /\ UNCHANGED <<habit, disk, kernel, watches, pending, changes, tree, events, known>>
      /\ crawl' = [crawl EXCEPT !.pc = "next", !.listing = With(IF disk[at].ino \in crawl.open THEN entries ELSE {})]
  BY Steps DEF ReadDirectory, CrawlStep, UntilNow
<1>2. /\ crawl \in RunningCrawl /\ at \in Path /\ at = Here.of /\ Here.entries = {} /\ FlaggedWillBeMet
      /\ disk[at].ino \in crawl.open
  BY <1>1, AtDirectory
<1>3. crawl' = [crawl EXCEPT !.pc = "next", !.listing = With(entries)]
  BY <1>1, <1>2
<1>4. /\ \A q \in here : q \in Path /\ q # Root /\ Parent(q) = at /\ Listed(disk, q)
      /\ \A q \in Path \ {Root} : Parent(q) = at /\ Listed(disk, q) => q \in here
  <2>1. \A q \in here : q \in Path /\ q # Root /\ Parent(q) = at /\ Listed(disk, q)
    BY <1>2, UnderParent DEF Under
  <2>2. \A q \in Path \ {Root} : Parent(q) = at /\ Listed(disk, q) => q \in here
    BY <1>2, UnderParent
  <2>3. QED BY <2>1, <2>2
<1> HIDE DEF here
<1>5. /\ entries \in SUBSET Entry
      /\ \A e \in entries : /\ e.path # Root /\ Parent(e.path) = at
                            /\ Listed(disk, e.path) /\ (e.dir <=> IsDir(disk[e.path].meta))
      /\ \A q \in here : \E e \in entries : e.path = q
  <2>1. \A q \in here : IsDir(disk[q].meta) \in BOOLEAN
    BY DEF IsDir
  <2>2. entries \in SUBSET Entry
    <3>1. \A q \in Path, b \in BOOLEAN : [path |-> q, dir |-> b] \in Entry
      BY DEF Entry
    <3>2. QED BY <1>4, <2>1, <3>1
  <2>3. ASSUME NEW e \in entries
        PROVE  e.path \in here /\ e.dir = IsDir(disk[e.path].meta)
    OBVIOUS
  <2>4. ASSUME NEW q \in here
        PROVE  \E e \in entries : e.path = q
    <3>1. [path |-> q, dir |-> IsDir(disk[q].meta)] \in entries
      OBVIOUS
    <3> HIDE DEF entries
    <3>2. QED BY <3>1
  <2> HIDE DEF entries
  <2>5. QED BY <1>4, <2>2, <2>3, <2>4
<1> HIDE DEF entries, at
<1>6. crawl'.pc = "next" /\ crawl'.listing = With(entries) /\ crawl'.flagged = crawl.flagged
  BY <1>2, <1>3 DEF RunningCrawl
<1>7. /\ crawl'.listing \in Seq(Level) /\ Levels' /\ Here'.entries = entries
      /\ \A q \in Path : IsEntry(q, crawl.listing) =>
           IsEntry(q, crawl'.listing) \/ \E e \in Here.entries : e.path = q
      /\ \A e \in entries : IsEntry(e.path, crawl'.listing)
  <2>1. crawl.pc # "none"
    BY <1>1
  <2>2. QED BY <1>1, <1>2, <1>5, <1>6, <2>1, NewEntries
<1>8. crawl' \in RunningCrawl
  <2>1. crawl' = [crawl EXCEPT !.pc = "next", !.listing = crawl'.listing]
    BY <1>3, <1>6
  <2>2. QED BY <1>2, <1>7, <2>1 DEF RunningCrawl
<1>9. \A q \in Path : WillVisit(q) /\ Listed(disk, q) => WillVisit(q)'
  <2> TAKE q \in Path
  <2> HAVE WillVisit(q) /\ Listed(disk, q)
  <2>1. CASE q # Root /\ Parent(q) = at
    <3>1. IsEntry(q, crawl'.listing)
      BY <1>4, <1>5, <1>7, <2>1
    <3>2. QED BY <1>6, <3>1 DEF WillVisit
  <2>2. CASE IsEntry(q, crawl.listing)
    BY <1>2, <1>6, <1>7, <2>2 DEF WillVisit
  <2>3. QED BY <1>1, <2>1, <2>2 DEF WillVisit, at
<1>10. AtHand' /\ FlaggedWillBeMet'
  <2>1. AtHand'
    BY <1>6 DEF AtHand
  <2>2. \A q \in crawl.flagged : q \in Path /\ HasNode(tree, q) /\ WillVisit(q)
    BY <1>2 DEF FlaggedWillBeMet, RunningCrawl
  <2>3. \A q \in crawl.flagged : Listed(disk, q)
    BY <2>2, DiskKinds, Kinds DEF GrowInv, GrowBase, GrowTypes, NodesIn
  <2>4. QED BY <1>1, <1>6, <1>9, <2>1, <2>2, <2>3 DEF FlaggedWillBeMet
<1>11. CrawlInv'
  BY <1>7, <1>10 DEF CrawlInv
<1>12. AccountedBut(ToVisit)'
  BY <1>1, <1>9, VisitsKept
<1>13. QED BY <1>1, <1>6, <1>8, <1>11, <1>12, WalkStep

LEMMA NextEntryStep ==
  ASSUME GrowInv, NextEntry
  PROVE  GrowInv'
<1>1. /\ crawl.pc = "next" /\ UNCHANGED <<habit, disk, kernel, watches, pending, changes, tree, events, known>>
  BY DEF NextEntry, CrawlStep, UntilNow
<1>2. PICK e \in Here.entries :
        LET rest == [crawl EXCEPT !.listing = With(Here.entries \ {e})]
        IN  crawl' = IF PassedOver(e) THEN rest
                     ELSE [rest EXCEPT !.pc = "visit", !.at = e.path,
                                       !.open = IF e.dir THEN {disk[e.path].ino} ELSE {}]
  BY DEF NextEntry
<1> DEFINE entries == Here.entries \ {e}
           open == IF e.dir THEN {disk[e.path].ino} ELSE {}
<1>3. /\ crawl \in RunningCrawl /\ crawl.listing \in Seq(Level)
      /\ Len(crawl.listing) \in DOMAIN crawl.listing /\ Here = crawl.listing[Len(crawl.listing)]
      /\ Here \in Level /\ Here.of \in Path /\ Visible(Here.of) /\ Levels /\ FlaggedWillBeMet
  BY <1>1, CrawlIsHere DEF GrowInv, GrowBase, CrawlInv
<1>4. \A f \in Here.entries : /\ f \in Entry /\ f.path # Root /\ Parent(f.path) = Here.of
                              /\ Listed(disk, f.path) /\ (f.dir <=> IsDir(disk[f.path].meta))
  <2>1. LevelRight(tree, disk, Here)
    BY <1>3 DEF Levels
  <2>2. QED BY <1>3, <2>1 DEF LevelRight, Level
<1>5. e \in Entry /\ e.path \in Path \ {Root} /\ disk[e.path].ino \in Inode
  <2>1. e.path \in Path \ {Root}
    BY <1>4 DEF Entry
  <2>2. QED BY <1>4, <2>1, DiskKinds DEF GrowInv, GrowBase, GrowTypes
<1>6. crawl' = IF e.path \in Ignored THEN [crawl EXCEPT !.listing = With(entries)]
               ELSE [crawl EXCEPT !.listing = With(entries), !.pc = "visit", !.at = e.path, !.open = open]
  BY <1>2, <1>4 DEF PassedOver
<1>7. entries \in SUBSET Entry
  BY <1>4
<1> HIDE DEF entries
<1>8. /\ crawl'.listing = With(entries) /\ crawl'.flagged = crawl.flagged
      /\ \/ crawl'.pc = "next" /\ e.path \in Ignored
         \/ crawl'.pc = "visit" /\ crawl'.at = e.path /\ crawl'.open = open /\ e.path \notin Ignored
  BY <1>1, <1>3, <1>6 DEF RunningCrawl
<1>9. /\ crawl'.listing \in Seq(Level) /\ Levels' /\ Here'.of = Here.of /\ Here'.entries = entries
      /\ \A q \in Path : IsEntry(q, crawl.listing) =>
           IsEntry(q, crawl'.listing) \/ \E f \in Here.entries : f.path = q
      /\ \A f \in entries : IsEntry(f.path, crawl'.listing)
  <2>1. crawl.pc # "none"
    BY <1>1
  <2>2. \A f \in entries : /\ f.path # Root /\ Parent(f.path) = Here.of
                           /\ Listed(disk, f.path) /\ (f.dir <=> IsDir(disk[f.path].meta))
    <3>1. entries \subseteq Here.entries
      BY DEF entries
    <3>2. QED BY <1>4, <3>1
  <2>3. crawl'.listing = With(entries) /\ tree' = tree /\ disk' = disk
    BY <1>1, <1>8
  <2>4. QED BY <1>7, <2>1, <2>2, <2>3, NewEntries
<1>10. crawl' \in RunningCrawl
  <2>1. open \in SUBSET Inode
    BY <1>5
  <2> HIDE DEF open
  <2>2. crawl' = IF e.path \in Ignored THEN [crawl EXCEPT !.listing = crawl'.listing]
                 ELSE [crawl EXCEPT !.listing = crawl'.listing, !.pc = "visit", !.at = e.path, !.open = open]
    BY <1>6, <1>8
  <2>3. crawl'.listing \in Seq(Level) /\ e.path \in Path
    BY <1>5, <1>9
  <2>4. [crawl EXCEPT !.listing = crawl'.listing] \in RunningCrawl
    BY <1>3, <2>3 DEF RunningCrawl
  <2>5. [crawl EXCEPT !.listing = crawl'.listing, !.pc = "visit", !.at = e.path, !.open = open] \in RunningCrawl
    BY <1>3, <2>1, <2>3 DEF RunningCrawl
  <2>6. QED BY <2>2, <2>4, <2>5
<1>11. \A q \in Path : WillVisit(q) /\ (q # Root => q \notin Ignored) => WillVisit(q)'
  <2> TAKE q \in Path
  <2> HAVE WillVisit(q) /\ (q # Root => q \notin Ignored)
  <2>1. IsEntry(q, crawl.listing)
    BY <1>1 DEF WillVisit
  <2>2. CASE q = e.path
    BY <1>5, <1>8, <2>2 DEF WillVisit
  <2>3. CASE q # e.path
    <3>1. IsEntry(q, crawl'.listing)
      BY <1>9, <2>1, <2>3 DEF entries
    <3>2. QED BY <1>8, <3>1 DEF WillVisit
  <2>4. QED BY <2>2, <2>3
<1>12. AtHand'
  <2>1. CASE crawl'.pc = "next"
    BY <2>1 DEF AtHand
  <2>2. CASE crawl'.pc = "visit"
    <3>1. crawl'.at = e.path /\ e.path \notin Ignored /\ crawl'.open = open
      BY <1>8, <2>2
    <3>2. Visible(e.path)
      BY <1>3, <1>4, <1>5, <3>1, VisibleParent
    <3>3. IsDir(disk[e.path].meta) => disk[e.path].ino \in open
      BY <1>4
    <3>4. QED BY <1>1, <1>4, <1>5, <1>9, <2>2, <3>1, <3>2, <3>3 DEF AtHand
  <2>3. QED BY <1>8, <2>1, <2>2
<1>13. FlaggedWillBeMet'
  <2>1. \A q \in crawl.flagged : q \in Path /\ HasNode(tree, q) /\ WillVisit(q)
    BY <1>3 DEF FlaggedWillBeMet, RunningCrawl
  <2>2. \A q \in crawl.flagged : Visible(q) /\ (q # Root => q \notin Ignored)
    <3>1. \A q \in crawl.flagged : q \in Path /\ Visible(q)
      BY <2>1 DEF GrowInv, GrowBase, NodesIn
    <3>2. QED BY <3>1 DEF Visible
  <2>3. \A q \in crawl.flagged : WillVisit(q)'
    BY <1>11, <2>1, <2>2
  <2>4. QED BY <1>1, <1>8, <2>1, <2>3 DEF FlaggedWillBeMet
<1>14. CrawlInv'
  BY <1>9, <1>12, <1>13 DEF CrawlInv
<1>15. AccountedBut(ToVisit)'
  BY <1>1, <1>11, VisitsKept
<1>16. QED BY <1>1, <1>8, <1>10, <1>14, <1>15, WalkStep

LEMMA LeaveDirectoryStep ==
  ASSUME GrowInv, LeaveDirectory
  PROVE  GrowInv'
<1> DEFINE n == Len(crawl.listing)
           gone == {q \in crawl.flagged : Parent(q) = Here.of}
<1>1. /\ crawl.pc = "next" /\ UNCHANGED <<habit, disk, kernel, watches, pending, changes, known>>
      /\ Here.entries = {} /\ Becomes(FoldPaths(DeleteMissing, State, gone))
      /\ crawl' = IF n = 1 THEN NoCrawl ELSE [crawl EXCEPT !.listing = Front(@), !.flagged = @ \ gone]
  BY DEF LeaveDirectory, CrawlStep, UntilNow
<1>2. /\ crawl \in RunningCrawl /\ crawl.listing \in Seq(Level) /\ n \in Nat /\ n \in 1 .. n
      /\ DOMAIN crawl.listing = 1 .. n /\ Here = crawl.listing[n] /\ Levels /\ FlaggedWillBeMet
      /\ \A l \in 1 .. n : crawl.listing[l].of \in Path
  <2>1. /\ crawl \in RunningCrawl /\ crawl.listing \in Seq(Level) /\ n \in Nat /\ n \in 1 .. n
        /\ DOMAIN crawl.listing = 1 .. n /\ Here = crawl.listing[n] /\ Levels /\ FlaggedWillBeMet
    BY <1>1, CrawlIsHere DEF GrowInv, GrowBase, CrawlInv
  <2>2. \A l \in 1 .. n : crawl.listing[l] \in Level
    BY <2>1
  <2>3. QED BY <2>1, <2>2 DEF Level
\* What is flagged in this directory has no entry that is left, here or above.
<1>3. gone = {}
  <2> SUFFICES ASSUME NEW q \in crawl.flagged, Parent(q) = Here.of PROVE FALSE
    OBVIOUS
  <2>1. IsEntry(q, crawl.listing)
    BY <1>1, <1>2 DEF FlaggedWillBeMet, WillVisit
  <2>2. PICK l \in 1 .. n : \E e \in crawl.listing[l].entries : e.path = q
    BY <1>2, <2>1 DEF IsEntry
  <2>3. crawl.listing[l].of = crawl.listing[n].of
    BY <1>2, <2>2 DEF Levels, LevelRight
  <2>4. CASE l = n
    BY <1>1, <1>2, <2>2, <2>4
  <2>5. CASE l # n
    <3>1. l < n /\ n \in 1 .. n
      BY <1>2, <2>5
    <3>2. Len(crawl.listing[l].of) < Len(crawl.listing[n].of)
      BY <1>2, <3>1 DEF Levels, Descends
    <3>3. Len(crawl.listing[n].of) \in Nat
      BY <1>2, PathTypes
    <3>4. QED BY <2>3, <3>2, <3>3
  <2>6. QED BY <2>4, <2>5
<1>4. tree' = tree /\ events' = events
  <2>1. Becomes(FoldPaths(DeleteMissing, State, {}))
    BY <1>1, <1>3
  <2>2. FoldPaths(DeleteMissing, State, {}) = State
    BY DEF FoldPaths, MapThenFoldSet
  <2>3. Becomes(State)
    BY <2>1, <2>2
  <2>4. QED BY <2>3 DEF Becomes, State
<1> HIDE DEF n, gone
<1>5. CASE n = 1
  <2>1. crawl' = NoCrawl /\ crawl'.pc = "none"
    BY <1>1, <1>5 DEF NoCrawl
  <2>2. CrawlInv'
    BY <2>1 DEF CrawlInv
  <2>3. \A q \in Path : ~WillVisit(q)
    <3>1. \A l \in DOMAIN crawl.listing : crawl.listing[l].entries = {}
      <4>1. \A l \in 1 .. n : l = n
        BY <1>2, <1>5
      <4>2. QED BY <1>1, <1>2, <4>1
    <3>2. QED BY <1>1, <3>1 DEF WillVisit, IsEntry
  <2>4. AccountedBut(ToVisit)'
    BY <1>1, <1>4, <2>3, VisitsKept
  <2>5. QED BY <1>1, <1>4, <2>1, <2>2, <2>4, WalkStep
<1>6. CASE n # 1
  <2> DEFINE front == Front(crawl.listing)
  <2>1. n > 1
    BY <1>2, <1>6
  <2>2. /\ front \in Seq(Level) /\ Len(front) = n - 1 /\ n - 1 > 0 /\ DOMAIN front = 1 .. n - 1
        /\ \A l \in 1 .. n - 1 : front[l] = crawl.listing[l] /\ l \in 1 .. n
    BY <1>2, <2>1, Shallower DEF n
  <2>3. crawl' = [crawl EXCEPT !.listing = front]
    <3>1. crawl.flagged \ gone = crawl.flagged
      BY <1>3
    <3>2. crawl' = [crawl EXCEPT !.listing = front, !.flagged = crawl.flagged]
      BY <1>1, <1>6, <3>1
    <3>3. QED BY <1>2, <3>2 DEF RunningCrawl
  <2> HIDE DEF front
  <2>4. crawl' \in RunningCrawl /\ crawl'.pc = "next" /\ crawl'.listing = front /\ crawl'.flagged = crawl.flagged
    BY <1>1, <1>2, <2>2, <2>3 DEF RunningCrawl
  <2>5. Levels'
    <3>1. \A l \in 1 .. n - 1 : LevelRight(tree', disk', front[l])
      BY <1>1, <1>2, <1>4, <2>2 DEF Levels
    <3>2. Descends(front)
      BY <1>2, <2>2 DEF Levels, Descends
    <3>3. QED BY <2>2, <2>4, <3>1, <3>2 DEF Levels
  <2>6. \A q \in Path : WillVisit(q) => WillVisit(q)'
    <3> SUFFICES ASSUME NEW q \in Path, WillVisit(q) PROVE IsEntry(q, front)
      BY <2>4 DEF WillVisit
    <3>1. PICK l \in 1 .. n : \E e \in crawl.listing[l].entries : e.path = q
      BY <1>1, <1>2 DEF WillVisit, IsEntry
    <3>2. l # n
      BY <1>1, <1>2, <3>1
    <3>3. l \in 1 .. n - 1
      BY <1>2, <3>2
    <3>4. QED BY <2>2, <3>1, <3>3 DEF IsEntry
  <2>7. FlaggedWillBeMet'
    BY <1>2, <1>4, <2>4, <2>6 DEF FlaggedWillBeMet, RunningCrawl
  <2>8. AtHand'
    BY <2>4 DEF AtHand
  <2>9. CrawlInv'
    BY <2>5, <2>7, <2>8 DEF CrawlInv
  <2>10. AccountedBut(ToVisit)'
    BY <1>1, <1>4, <2>6, VisitsKept
  <2>11. QED BY <1>1, <1>4, <2>4, <2>9, <2>10, WalkStep
<1>7. QED BY <1>5, <1>6

------------------------------------------------------------------------------
(* Theorems about what grows *)

\* The habit stays, so what never happens never happens.
LEMMA HabitKept == [RaceNext]_<<vars, crawl>> => habit' = habit
<1> SUFFICES ASSUME [RaceNext]_<<vars, crawl>> PROVE habit' = habit
  OBVIOUS
<1>1. CASE Operation
  BY <1>1 DEF Operation, CreateFile, WriteFile, Unlink, Symlink, Mkdir, Rmdir, RenameFile, RenameDir, Do
<1>2. CASE HandleEvent \/ TakePending \/ Deliver
  BY <1>2 DEF HandleEvent, TakePending, Deliver
<1>3. CASE StartRecrawl \/ NextChange
  BY <1>3 DEF StartRecrawl, NextChange, UntilNow
<1>4. CASE CrawlSteps
  BY <1>4 DEF CrawlSteps, KernelWatch, MapWatch, ReadDirectory, NextEntry, VisitEntry, LeaveDirectory, CrawlStep, UntilNow
<1>5. CASE UNCHANGED <<vars, crawl>>
  BY <1>5 DEF vars
<1>6. QED BY <1>1, <1>2, <1>3, <1>4, <1>5 DEF RaceNext, Others, WorkerTakes

\* A crawl starts with a step of the worker.
LEMMA InitGrows ==
  ASSUME RaceInit, Grows
  PROVE  GrowInv
<1>1. GrowBase({}, {}) /\ crawl = NoCrawl
  BY InitBase DEF RaceInit
<1>2. GrowBase(ToMap, ToVisit)
  BY <1>1 DEF GrowBase, DirsMappedBut, AccountedBut
<1>3. CrawlTyped /\ MapHeld /\ CrawlInv
  BY <1>1 DEF CrawlTyped, MapHeld, CrawlInv, NoCrawl
<1>4. QED BY <1>2, <1>3 DEF GrowInv

LEMMA GrowInvStep ==
  ASSUME Grows, GrowInv, [RaceNext]_<<vars, crawl>>
  PROVE  GrowInv'
<1>1. CASE Others
  BY <1>1, OperationStep, ElsewhereStep DEF Others
<1>2. CASE WorkerTakes
  BY <1>2, ElsewhereStep DEF WorkerTakes
<1>3. CASE StartRecrawl
  BY <1>3, StartRecrawlStep
<1>4. CASE NextChange
  BY <1>4, NextChangeStep
<1>5. CASE CrawlSteps
  BY <1>5, KernelWatchStep, MapWatchStep, ReadDirectoryStep, NextEntryStep, VisitEntryStep, LeaveDirectoryStep
     DEF CrawlSteps
<1>6. CASE UNCHANGED <<vars, crawl>>
  BY <1>6, ElsewhereStep
<1>7. QED BY <1>1, <1>2, <1>3, <1>4, <1>5, <1>6 DEF RaceNext

\* GrowInv holds throughout as long as nothing is deleted or moved.
THEOREM GrowInvHolds == RaceSpec => [](Grows => GrowInv)
<1> DEFINE Inv == Grows => GrowInv
<1>1. RaceInit => Inv
  BY InitGrows
<1>2. Inv /\ [RaceNext]_<<vars, crawl>> => Inv'
  <2> SUFFICES ASSUME Inv, [RaceNext]_<<vars, crawl>>, Grows' PROVE GrowInv'
    OBVIOUS
  <2>1. Grows
    BY HabitKept DEF Grows
  <2>2. QED BY <2>1, GrowInvStep
<1>3. QED BY <1>1, <1>2, PTL DEF RaceSpec

\* Where no crawl runs there is nothing ahead of it.
LEMMA NoCrawlBase ==
  ASSUME GrowInv, crawl = NoCrawl
  PROVE  GrowBase({}, {})
<1>1. crawl.pc = "none"
  BY DEF NoCrawl
<1>2. ToMap = {} /\ ToVisit = {}
  BY <1>1 DEF ToMap, ToVisit, Crawled, WillVisit
<1>3. QED BY <1>2 DEF GrowInv, GrowBase, DirsMappedBut, AccountedBut

\* CrawlRace.CrawlsInSync: whatever is created or written at whatever moment of
\* a crawl, a handler comes to know every file that is not ignored (README.md:7).
THEOREM GrowingInSync == RaceSpec => [](Grows => CrawlsInSync)
<1>1. (Grows => GrowInv) => (Grows => CrawlsInSync)
  BY NoCrawlBase, SyncMeans DEF CrawlsInSync
<1>2. QED BY <1>1, GrowInvHolds, PTL

\* CrawlRace.CrawlsCover: every directory that came to be, while its parent was
\* crawled or not, is watched under the path it has (inotify.rs:134-138).
THEOREM GrowingCovered == RaceSpec => [](Grows => CrawlsCover)
<1>1. (Grows => GrowInv) => (Grows => CrawlsCover)
  BY NoCrawlBase, CoverMeans DEF CrawlsCover
<1>2. QED BY <1>1, GrowInvHolds, PTL

------------------------------------------------------------------------------
(* Where a crawl is, whatever happens on the disk *)

\* A level is a directory of the tree with entries of its own.
LevelIn(t, level) ==
  /\ IsDir(t[level.of].meta)
  /\ \A e \in level.entries : e.path # Root /\ Parent(e.path) = level.of

LevelsIn(t, listing) ==
  /\ Len(listing) > 0 /\ Descends(listing)
  /\ \A l \in DOMAIN listing : LevelIn(t, listing[l]) /\ (l > 1 => Parent(listing[l].of) = listing[l - 1].of)

AtPlace ==
  /\ crawl.pc \in {"watch", "map", "read"} => crawl.at = Here.of
  /\ crawl.pc = "visit" => crawl.at # Root /\ Parent(crawl.at) = Here.of /\ Visible(crawl.at)

FlaggedIn(t, listing, flagged) ==
  \A q \in flagged : HasNode(t, q) /\ q # Root /\ \E l \in DOMAIN listing : listing[l].of = Parent(q)

PlaceInv ==
  crawl.pc # "none" => /\ LevelsIn(tree, crawl.listing) /\ AtPlace
                       /\ FlaggedIn(tree, crawl.listing, crawl.flagged) /\ crawl.wd <= kernel.last

\* Unlike GrowInv it holds for every habit.
RaceInv == TypeInv /\ CrawlTyped /\ IsDir(tree[Root].meta) /\ IgnoredStaysOut /\ PlaceInv

LEMMA DirHasNode ==
  ASSUME NEW t \in Trees, NEW p \in Path
  PROVE  IsDir(t[p].meta) => HasNode(t, p)
BY AnyKinds DEF HasNode

LEMMA CrawlPlaced ==
  ASSUME RaceInv, crawl.pc # "none"
  PROVE  /\ crawl \in RunningCrawl /\ crawl.listing \in Seq(Level) /\ Len(crawl.listing) \in Nat
         /\ Len(crawl.listing) \in DOMAIN crawl.listing /\ DOMAIN crawl.listing = 1 .. Len(crawl.listing)
         /\ Here = crawl.listing[Len(crawl.listing)] /\ Here \in Level /\ Here.of \in Path
         /\ HasNode(tree, Here.of) /\ Visible(Here.of)
         /\ \A l \in DOMAIN crawl.listing : /\ crawl.listing[l].of \in Path
                                            /\ Len(crawl.listing[l].of) <= Len(Here.of)
         /\ LevelsIn(tree, crawl.listing) /\ AtPlace /\ FlaggedIn(tree, crawl.listing, crawl.flagged)
         /\ crawl.wd <= kernel.last /\ crawl.at \in Path /\ crawl.flagged \in SUBSET Path
<1> DEFINE n == Len(crawl.listing)
<1>1. crawl \in RunningCrawl /\ crawl.listing \in Seq(Level) /\ crawl.at \in Path /\ crawl.flagged \in SUBSET Path
  BY DEF RaceInv, CrawlTyped, NoCrawl, RunningCrawl
<1>2. /\ LevelsIn(tree, crawl.listing) /\ AtPlace /\ FlaggedIn(tree, crawl.listing, crawl.flagged)
      /\ crawl.wd <= kernel.last
  BY DEF RaceInv, PlaceInv
<1>3. n \in Nat /\ DOMAIN crawl.listing = 1 .. n /\ n \in 1 .. n
  BY <1>1, <1>2 DEF LevelsIn
<1>4. Here = crawl.listing[n] /\ \A l \in 1 .. n : crawl.listing[l] \in Level /\ crawl.listing[l].of \in Path
  <2>1. Here = crawl.listing[n]
    BY <1>1, <1>3 DEF Here, Last
  <2>2. \A l \in 1 .. n : crawl.listing[l] \in Level
    BY <1>1, <1>3
  <2>3. QED BY <2>1, <2>2 DEF Level
<1>5. HasNode(tree, Here.of)
  <2>1. IsDir(tree[Here.of].meta)
    BY <1>2, <1>3, <1>4 DEF LevelsIn, LevelIn
  <2>2. QED BY <1>3, <1>4, <2>1, DirHasNode DEF RaceInv, TypeInv
<1>6. Visible(Here.of)
  BY <1>3, <1>4, <1>5, IgnoredMeans DEF RaceInv, Clean, SentryState
<1>7. ASSUME NEW l \in 1 .. n PROVE Len(crawl.listing[l].of) <= Len(Here.of)
  <2>1. Len(Here.of) \in Nat /\ Len(crawl.listing[l].of) \in Nat
    BY <1>3, <1>4, PathTypes
  <2>2. CASE l = n
    BY <1>4, <2>1, <2>2
  <2>3. CASE l # n
    <3>1. l < n
      BY <1>3, <2>3
    <3>2. Len(crawl.listing[l].of) < Len(crawl.listing[n].of)
      BY <1>2, <1>3, <3>1 DEF LevelsIn, Descends
    <3>3. QED BY <1>4, <2>1, <3>2
  <2>4. QED BY <2>2, <2>3
<1>8. QED BY <1>1, <1>2, <1>3, <1>4, <1>5, <1>6, <1>7

------------------------------------------------------------------------------
(* What keeps a crawl in its place *)

\* A crawl that comes to a directory of the tree.
LEMMA Enters ==
  ASSUME NEW p \in Path, NEW open \in SUBSET Inode, NEW listing \in Seq(Level), NEW flagged \in SUBSET Path,
         crawl' = Enter(tree', p, open, listing, flagged), kernel'.last \in Nat,
         IsDir(tree'[p].meta), Descends(listing),
         \A l \in DOMAIN listing : /\ LevelIn(tree', listing[l]) /\ Len(listing[l].of) < Len(p)
                                   /\ l > 1 => Parent(listing[l].of) = listing[l - 1].of,
         Len(listing) > 0 => Parent(p) = listing[Len(listing)].of,
         FlaggedIn(tree', listing, flagged)
  PROVE  CrawlTyped' /\ PlaceInv'
<1> DEFINE n == Len(listing) + 1
           all == Append(listing, [of |-> p, entries |-> {}])
           met == IF tree'[p].listed THEN ChildNodes(tree', p) ELSE {}
<1>1. crawl' = [pc |-> "watch", at |-> p, open |-> open, wd |-> 0, listing |-> all, flagged |-> flagged \cup met]
  BY DEF Enter, Starts, Order
<1>2. met \in SUBSET Path /\ \A q \in met : q # Root /\ Parent(q) = p /\ HasNode(tree', q)
  BY PathAssumption, UnderParent DEF ChildNodes, Under
<1>3. /\ all \in Seq(Level) /\ Len(all) = n /\ DOMAIN all = 1 .. n /\ n \in 1 .. n
      /\ \A l \in 1 .. n : l = n \/ l \in DOMAIN listing
      /\ \A l \in DOMAIN listing : l \in 1 .. n - 1 /\ l \in 1 .. n /\ all[l] = listing[l]
      /\ all[n].of = p /\ all[n].entries = {} /\ Descends(all)
  BY Deeper
<1> HIDE DEF met, all
<1>4. /\ crawl'.pc = "watch" /\ crawl'.at = p /\ crawl'.wd = 0 /\ crawl'.listing = all
      /\ crawl'.flagged = flagged \cup met /\ crawl' \in RunningCrawl
  BY <1>1, <1>2, <1>3 DEF RunningCrawl
<1>5. LevelsIn(tree', all)
  <2>1. ASSUME NEW l \in 1 .. n
        PROVE  LevelIn(tree', all[l]) /\ (l > 1 => Parent(all[l].of) = all[l - 1].of)
    <3>1. CASE l = n
      <4>1. LevelIn(tree', all[l])
        BY <1>3, <3>1 DEF LevelIn
      <4>2. l > 1 => Len(listing) > 0 /\ l - 1 = Len(listing) /\ Len(listing) \in DOMAIN listing
        BY <3>1
      <4>3. QED BY <1>3, <3>1, <4>1, <4>2
    <3>2. CASE l \in DOMAIN listing
      <4>1. l > 1 => l - 1 \in DOMAIN listing
        BY <3>2
      <4>2. QED BY <1>3, <3>2, <4>1
    <3>3. QED BY <1>3, <3>1, <3>2
  <2>2. QED BY <1>3, <2>1 DEF LevelsIn
<1>6. FlaggedIn(tree', all, flagged \cup met)
  BY <1>2, <1>3 DEF FlaggedIn
<1>7. AtPlace'
  BY <1>3, <1>4 DEF AtPlace, Here, Last
<1>8. QED BY <1>4, <1>5, <1>6, <1>7 DEF PlaceInv, CrawlTyped

\* Where no crawl runs there is no place to keep.
LEMMA NoPlace == ASSUME crawl = NoCrawl PROVE CrawlTyped /\ PlaceInv
BY DEF CrawlTyped, PlaceInv, NoCrawl

\* A step that leaves the tree and the crawl alone.
LEMMA PlaceStays ==
  ASSUME CrawlTyped, PlaceInv, IsDir(tree[Root].meta), tree' = tree, crawl' = crawl,
         crawl.pc # "none" => kernel'.last = kernel.last
  PROVE  CrawlTyped' /\ PlaceInv' /\ IsDir(tree[Root].meta)'
BY DEF CrawlTyped, PlaceInv, AtPlace, Here

LEMMA OthersRace ==
  ASSUME RaceInv, Others \/ WorkerTakes \/ UNCHANGED <<vars, crawl>>
  PROVE  RaceInv'
<1>1. kernel \in Kernels
  BY DEF RaceInv, TypeInv
<1>2. tree' = tree /\ kernel'.last = kernel.last
  <2>1. \A queue, wd : /\ [kernel EXCEPT !.queue = queue].last = kernel.last
                       /\ [kernel EXCEPT !.queue = queue, !.wd = wd].last = kernel.last
    BY <1>1 DEF Kernels
  <2>2. CASE Operation
    <3>1. \E op : Do(op)
      BY <2>2 DEF Operation, CreateFile, WriteFile, Unlink, Symlink, Mkdir, Rmdir, RenameFile, RenameDir
    <3>2. \E queue, wd : kernel' \in {[kernel EXCEPT !.queue = queue], [kernel EXCEPT !.queue = queue, !.wd = wd]}
      <4>1. ASSUME NEW p, Rmdir(p)
            PROVE  \E queue, wd : kernel' = [kernel EXCEPT !.queue = queue, !.wd = wd]
        BY <4>1 DEF Rmdir
      <4>2. ASSUME NEW evs, Notifies(evs) PROVE \E queue : kernel' = [kernel EXCEPT !.queue = queue]
        BY <4>2 DEF Notifies
      <4>3. (\E p : Rmdir(p)) \/ \E evs : Notifies(evs)
        BY <2>2 DEF Operation, CreateFile, WriteFile, Unlink, Symlink, Mkdir, RenameFile, RenameDir
      <4>4. QED BY <4>1, <4>2, <4>3
    <3>3. QED BY <2>1, <3>1, <3>2 DEF Do
  <2>3. CASE HandleEvent
    BY <2>1, <2>3 DEF HandleEvent
  <2>4. CASE TakePending \/ Deliver \/ UNCHANGED vars
    BY <2>4 DEF TakePending, Deliver, vars
  <2>5. QED BY <2>2, <2>3, <2>4 DEF Others, WorkerTakes
<1>3. TypeInv' /\ IgnoredStaysOut'
  BY TypeInvStep, OperationIgnored, HandleEventIgnored, TakePendingIgnored, DeliverIgnored
     DEF RaceInv, Others, WorkerTakes, Next, Program
<1>4. crawl' = crawl
  BY DEF Others, WorkerTakes
<1>5. QED BY <1>2, <1>3, <1>4, PlaceStays DEF RaceInv

\* What the worker's state is.
LEMMA StateTyped ==
  ASSUME RaceInv
  PROVE  /\ State \in Walker /\ State = SentryState /\ Clean(State) /\ State.tree = tree /\ State.events = events
         /\ disk \in Disk /\ IsDir(disk[Root].meta) /\ Root \in Path
<1>1. State = SentryState /\ State \in Walker
  BY DEF State, SentryState, RaceInv, TypeInv, Walker
<1>2. disk \in Disk
  BY DEF RaceInv, TypeInv
<1>3. IsDir(disk[Root].meta) /\ Root \in Path
  BY <1>2, DiskShape, Kinds, PathAssumption
<1>4. QED BY <1>1, <1>2, <1>3, IgnoredMeans DEF RaceInv, State

\* What the worker makes of its state.
LEMMA WorkerStays ==
  ASSUME RaceInv, NEW s \in Walker, Clean(s), Becomes(s),
         UNCHANGED <<habit, disk, ops, known, kernel, watches, pending>>,
         changes' \in Changes, \A p \in Path : changes'.flags[p] # "none" => Visible(p)
  PROVE  TypeInv' /\ IgnoredStaysOut'
<1>1. tree' = s.tree /\ events' = s.events
  BY DEF Becomes
<1>2. tree' \in Trees /\ events' \in EventMaps
  BY <1>1 DEF Walker
<1>3. Bounded(kernel.queue)' /\ Descriptors(watches, kernel.last)'
  BY DEF RaceInv, TypeInv, Bounded, Descriptors
<1>4. TypeInv'
  BY <1>2, <1>3 DEF RaceInv, TypeInv
<1>5. \A p \in Path : ~Visible(p) => ~HasNode(tree', p) /\ events'[p] = NoEvent
  BY <1>1 DEF Clean
<1>6. \A p \in Path : ~Visible(p) =>
        /\ known[p] = NoFile /\ pending.flags[p] = "none"
        /\ \A d \in DOMAIN watches : watches[d] # p
  BY IgnoredMeans DEF RaceInv
<1>7. IgnoredStaysOut'
  BY <1>5, <1>6 DEF IgnoredStaysOut, Visible
<1>8. QED BY <1>4, <1>7

\* A crawl that starts at p.
LEMMA Begins ==
  ASSUME NEW p \in Path, crawl' = CrawlOf(tree', p), IsDir(tree'[p].meta), kernel'.last \in Nat
  PROVE  CrawlTyped' /\ PlaceInv'
<1> DEFINE none == <<>>
<1>1. none \in Seq(Level) /\ DOMAIN none = {} /\ ~(Len(none) > 0)
  OBVIOUS
<1>2. Ino \cup {RootIno} \in SUBSET Inode
  BY DEF Inode
<1>3. Descends(none) /\ FlaggedIn(tree', none, {})
  BY <1>1 DEF Descends, FlaggedIn
<1>4. crawl' = Enter(tree', p, Ino \cup {RootIno}, none, {})
  BY DEF CrawlOf
<1> HIDE DEF none
<1>5. QED BY <1>1, <1>2, <1>3, <1>4, Enters

LEMMA StartRecrawlRace ==
  ASSUME RaceInv, StartRecrawl
  PROVE  RaceInv'
<1>1. /\ changes' = Nothing /\ crawl' = CrawlOf(tree', Root)
      /\ UNCHANGED <<habit, disk, ops, known, kernel, watches, pending, tree, events>>
  BY DEF StartRecrawl, UntilNow
<1>2. State \in Walker /\ Clean(State) /\ Becomes(State) /\ Root \in Path
  BY <1>1, StateTyped DEF Becomes
<1>3. TypeInv' /\ IgnoredStaysOut'
  BY <1>1, <1>2, WorkerStays, NoChanges
<1>4. IsDir(tree[Root].meta)' /\ kernel'.last \in Nat
  BY <1>1 DEF RaceInv, TypeInv, Kernels
<1>5. CrawlTyped' /\ PlaceInv'
  BY <1>1, <1>2, <1>4, Begins
<1>6. QED BY <1>3, <1>4, <1>5 DEF RaceInv

\* apply_change at a visible path, by whomever.
LEMMA AppliedRace ==
  ASSUME RaceInv, NEW p \in Path, Visible(p), NEW flags, Becomes(ApplyChange(disk, State, p, flags).s),
         UNCHANGED <<habit, disk, ops, known, kernel, watches, pending>>,
         changes' \in Changes, \A q \in Path : changes'.flags[q] # "none" => Visible(q)
  PROVE  /\ TypeInv' /\ IgnoredStaysOut' /\ IsDir(tree[Root].meta)' /\ kernel'.last \in Nat
         /\ tree' \in Trees /\ \A q \in Path : HasNode(tree, q) => HasNode(tree', q)
         /\ \A q \in Path : q # p /\ q \notin Under(p) => tree'[q].meta = tree[q].meta
<1> DEFINE a == ApplyChange(disk, State, p, flags)
<1>1. /\ State \in Walker /\ Clean(State) /\ State.tree = tree /\ disk \in Disk
      /\ IsDir(disk[Root].meta) /\ Root \in Path
  BY StateTyped
<1>2. Touches(State, a.s, p) /\ (HasNode(tree, p) /\ IsDir(disk[p].meta) => a.s.tree[p].meta = disk[p].meta)
  BY <1>1, ApplyChangeTouches
<1>3. tree' = a.s.tree
  BY DEF Becomes
<1> HIDE DEF a
<1>4. a.s \in Walker /\ Clean(a.s)
  BY <1>1, <1>2, TouchedClean DEF Touches
<1>5. TypeInv' /\ IgnoredStaysOut'
  BY <1>4, WorkerStays DEF a
<1>6. /\ \A q \in Path : HasNode(tree, q) => HasNode(tree', q)
      /\ \A q \in Path : q # p /\ q \notin Under(p) => tree'[q].meta = tree[q].meta
  BY <1>1, <1>2, <1>3 DEF Touches, Keeps
<1>7. IsDir(tree[Root].meta)'
  <2>1. HasNode(tree, Root)
    BY <1>1, DirHasNode DEF RaceInv, TypeInv
  <2>2. CASE p = Root
    BY <1>1, <1>2, <1>3, <2>1, <2>2
  <2>3. CASE p # Root
    <3>1. Root \notin Under(p)
      BY PathAssumption, UnderParent
    <3>2. QED BY <1>1, <1>6, <2>3, <3>1 DEF RaceInv
  <2>4. QED BY <2>2, <2>3
<1>8. kernel'.last \in Nat /\ tree' \in Trees
  BY <1>5 DEF RaceInv, TypeInv, Kernels
<1>9. QED BY <1>5, <1>6, <1>7, <1>8

LEMMA NextChangeRace ==
  ASSUME RaceInv, NextChange
  PROVE  RaceInv'
<1>1. PICK p \in Path :
        LET a == ApplyChange(disk, State, p, {"origin"} \cup ({"crawl"} \cap {changes.flags[p]}))
            enter == a.recurse /\ HasNode(a.s.tree, p) /\ IsDir(a.s.tree[p].meta) /\ p \notin Ignored
            done == {p} \cup (IF a.recurse THEN Under(p) ELSE {})
        IN  /\ crawl = NoCrawl /\ changes.flags[p] # "none"
            /\ \A q \in Path : changes.flags[q] # "none" => q = p \/ Before(p, q)
            /\ Becomes(a.s)
            /\ changes' = [changes EXCEPT !.flags = [q \in Path |-> IF q \in done THEN "none" ELSE @[q]]]
            /\ crawl' = IF enter THEN CrawlOf(a.s.tree, p) ELSE NoCrawl
            /\ UNCHANGED <<UntilNow, kernel, watches, pending>>
  BY DEF NextChange
<1> DEFINE flags == {"origin"} \cup ({"crawl"} \cap {changes.flags[p]})
           a == ApplyChange(disk, State, p, flags)
           left == [q \in Path |-> IF q = p \/ (a.recurse /\ q \in Under(p)) THEN "none" ELSE changes.flags[q]]
<1>2. /\ changes.flags[p] # "none" /\ tree' = a.s.tree
      /\ changes' = [changes EXCEPT !.flags = left]
      /\ crawl' = NoCrawl \/ (crawl' = CrawlOf(tree', p) /\ IsDir(tree'[p].meta))
      /\ UNCHANGED <<habit, disk, ops, known, kernel, watches, pending>>
  BY <1>1 DEF Becomes, UntilNow
<1>3. changes \in Changes /\ \A q \in Path : changes.flags[q] # "none" => Visible(q)
  BY IgnoredMeans DEF RaceInv, TypeInv
<1>4. left \in [Path -> {"none", "stat", "crawl"}] /\ \A q \in Path : left[q] # "none" => Visible(q)
  BY <1>3 DEF Changes
<1>5. Becomes(a.s)
  BY <1>1
<1> HIDE DEF a, left, flags
<1>6. changes' \in Changes /\ \A q \in Path : changes'.flags[q] # "none" => Visible(q)
  BY <1>2, <1>3, <1>4 DEF Changes
<1>7. TypeInv' /\ IgnoredStaysOut' /\ IsDir(tree[Root].meta)' /\ kernel'.last \in Nat
  BY <1>2, <1>3, <1>5, <1>6, AppliedRace DEF a
<1>8. CrawlTyped' /\ PlaceInv'
  <2>1. CASE crawl' = NoCrawl
    BY <2>1 DEF CrawlTyped, PlaceInv, NoCrawl
  <2>2. CASE crawl' = CrawlOf(tree', p) /\ IsDir(tree'[p].meta)
    BY <1>7, <2>2, Begins
  <2>3. QED BY <1>2, <2>1, <2>2
<1>9. QED BY <1>7, <1>8 DEF RaceInv

LEMMA VisitEntryRace ==
  ASSUME RaceInv, VisitEntry
  PROVE  RaceInv'
<1>1. /\ crawl.pc = "visit" /\ crawl \in RunningCrawl /\ crawl.listing \in Seq(Level)
      /\ Len(crawl.listing) \in Nat /\ Len(crawl.listing) \in DOMAIN crawl.listing
      /\ Here = crawl.listing[Len(crawl.listing)] /\ Here.of \in Path
      /\ \A l \in DOMAIN crawl.listing : /\ crawl.listing[l].of \in Path
                                         /\ Len(crawl.listing[l].of) <= Len(Here.of)
      /\ LevelsIn(tree, crawl.listing) /\ FlaggedIn(tree, crawl.listing, crawl.flagged)
      /\ crawl.wd <= kernel.last /\ crawl.flagged \in SUBSET Path
  BY CrawlPlaced DEF VisitEntry, CrawlStep
<1>2. PICK p \in Path : p = crawl.at /\ p # Root /\ Parent(p) = Here.of /\ Visible(p)
  BY <1>1, CrawlPlaced DEF AtPlace
<1> DEFINE a == ApplyChange(disk, State, p, CrawlFlags(TRUE))
           flagged == IF HasNode(tree', p) THEN crawl.flagged \ {p} ELSE crawl.flagged
<1>3. /\ Becomes(a.s) /\ tree' = a.s.tree
      /\ UNCHANGED <<habit, disk, ops, known, kernel, watches, pending, changes>>
  BY <1>2 DEF VisitEntry, CrawlStep, Becomes, UntilNow
<1>4. crawl' = IF IsDir(tree'[p].meta) THEN Enter(tree', p, crawl.open, crawl.listing, flagged)
               ELSE [crawl EXCEPT !.pc = "next", !.flagged = flagged]
  BY <1>2, <1>3 DEF VisitEntry
<1>5. changes' \in Changes /\ \A q \in Path : changes'.flags[q] # "none" => Visible(q)
  BY <1>3, IgnoredMeans DEF RaceInv, TypeInv
<1>6. /\ TypeInv' /\ IgnoredStaysOut' /\ IsDir(tree[Root].meta)' /\ kernel'.last \in Nat
      /\ \A q \in Path : HasNode(tree, q) => HasNode(tree', q)
      /\ \A q \in Path : q # p /\ q \notin Under(p) => tree'[q].meta = tree[q].meta
  BY <1>2, <1>3, <1>5, AppliedRace
<1> HIDE DEF a
\* The directories that the crawl is in are above what it visits.
<1>7. \A l \in DOMAIN crawl.listing :
        /\ Len(crawl.listing[l].of) < Len(p) /\ LevelIn(tree', crawl.listing[l])
        /\ l > 1 => Parent(crawl.listing[l].of) = crawl.listing[l - 1].of
  <2> TAKE l \in DOMAIN crawl.listing
  <2>1. /\ crawl.listing[l].of \in Path /\ Len(crawl.listing[l].of) <= Len(Here.of)
        /\ LevelIn(tree, crawl.listing[l])
        /\ l > 1 => Parent(crawl.listing[l].of) = crawl.listing[l - 1].of
    BY <1>1 DEF LevelsIn
  <2>2. Len(Here.of) = Len(p) - 1 /\ Len(p) \in Nat /\ Len(crawl.listing[l].of) \in Nat
    BY <1>2, <2>1, ParentMeans, PathTypes
  <2>3. Len(crawl.listing[l].of) < Len(p)
    BY <2>1, <2>2
  <2>4. crawl.listing[l].of # p /\ crawl.listing[l].of \notin Under(p)
    BY <2>1, <2>2, <2>3, UnderMeans
  <2>5. LevelIn(tree', crawl.listing[l])
    BY <1>6, <2>1, <2>4 DEF LevelIn
  <2>6. QED BY <2>1, <2>3, <2>5
<1>8. flagged \in SUBSET Path /\ FlaggedIn(tree', crawl.listing, flagged)
  <2>1. flagged \subseteq crawl.flagged
    OBVIOUS
  <2> HIDE DEF flagged
  <2>2. QED BY <1>1, <1>6, <2>1 DEF FlaggedIn
<1> HIDE DEF flagged
<1>9. CrawlTyped' /\ PlaceInv'
  <2>1. CASE IsDir(tree'[p].meta)
    <3>1. crawl' = Enter(tree', p, crawl.open, crawl.listing, flagged) /\ crawl.open \in SUBSET Inode
      BY <1>1, <1>4, <2>1 DEF RunningCrawl
    <3>2. Descends(crawl.listing) /\ Parent(p) = crawl.listing[Len(crawl.listing)].of
      BY <1>1, <1>2 DEF LevelsIn
    <3>3. QED BY <1>1, <1>6, <1>7, <1>8, <2>1, <3>1, <3>2, Enters
  <2>2. CASE ~IsDir(tree'[p].meta)
    <3>1. crawl' = [crawl EXCEPT !.pc = "next", !.flagged = flagged]
      BY <1>4, <2>2
    <3>2. /\ crawl' \in RunningCrawl /\ crawl'.pc = "next" /\ crawl'.listing = crawl.listing
          /\ crawl'.flagged = flagged /\ crawl'.wd = crawl.wd
      BY <1>1, <1>8, <3>1 DEF RunningCrawl
    <3>3. LevelsIn(tree', crawl.listing)
      BY <1>1, <1>7 DEF LevelsIn
    <3>4. QED BY <1>1, <1>3, <1>8, <3>2, <3>3 DEF CrawlTyped, PlaceInv, AtPlace
  <2>3. QED BY <2>1, <2>2
<1>10. QED BY <1>6, <1>9 DEF RaceInv

\* A step that only goes on with the walk.
LEMMA WalkRace ==
  ASSUME RaceInv, crawl.pc # "none",
         UNCHANGED <<habit, disk, ops, kernel, watches, pending, changes, tree, events, known>>,
         crawl' \in RunningCrawl, AtPlace', crawl'.flagged = crawl.flagged, crawl'.wd = crawl.wd,
         NEW entries \in SUBSET Entry, crawl'.listing = With(entries),
         \A e \in entries : e.path # Root /\ Parent(e.path) = Here.of
  PROVE  RaceInv'
<1> DEFINE n == Len(crawl.listing)
<1>1. /\ crawl.listing \in Seq(Level) /\ n \in Nat /\ DOMAIN crawl.listing = 1 .. n /\ n \in 1 .. n
      /\ Here = crawl.listing[n]
      /\ LevelsIn(tree, crawl.listing) /\ FlaggedIn(tree, crawl.listing, crawl.flagged) /\ crawl.wd <= kernel.last
  BY CrawlPlaced
<1>2. n > 0
  BY <1>1
<1>3. PICK all : all = With(entries)
  OBVIOUS
<1>4. /\ all \in Seq(Level) /\ Len(all) = n /\ DOMAIN all = 1 .. n
      /\ all[n] = [of |-> Here.of, entries |-> entries]
      /\ \A l \in 1 .. n : l = n \/ (l \in 1 .. n - 1 /\ all[l] = crawl.listing[l])
      /\ \A l \in 1 .. n : all[l].of = crawl.listing[l].of
  BY <1>1, <1>2, <1>3, Relisted
<1> HIDE DEF n
<1>5. ASSUME NEW l \in 1 .. n
      PROVE  LevelIn(tree, all[l]) /\ (l > 1 => Parent(all[l].of) = all[l - 1].of)
  <2>1. LevelIn(tree, crawl.listing[l]) /\ (l > 1 => Parent(crawl.listing[l].of) = crawl.listing[l - 1].of)
    BY <1>1 DEF LevelsIn
  <2>2. l > 1 => l - 1 \in 1 .. n
    BY <1>1
  <2>3. LevelIn(tree, all[l])
    <3>1. CASE l = n
      BY <1>1, <1>4, <2>1, <3>1 DEF LevelIn
    <3>2. CASE l # n
      BY <1>4, <2>1, <3>2
    <3>3. QED BY <3>1, <3>2
  <2>4. QED BY <1>4, <2>1, <2>2, <2>3
<1>6. Descends(all)
  BY <1>1, <1>4 DEF LevelsIn, Descends
<1>7. LevelsIn(tree, all)
  BY <1>2, <1>4, <1>5, <1>6 DEF LevelsIn, n
<1>8. FlaggedIn(tree, all, crawl.flagged)
  BY <1>1, <1>4 DEF FlaggedIn
<1>9. CrawlTyped' /\ PlaceInv'
  BY <1>1, <1>3, <1>7, <1>8 DEF CrawlTyped, PlaceInv
<1>10. TypeInv' /\ IgnoredStaysOut'
  <2>1. UNCHANGED vars
    BY DEF vars
  <2>2. QED BY <2>1, TypeInvStep, OperationIgnored DEF RaceInv
<1>11. QED BY <1>9, <1>10 DEF RaceInv

LEMMA ReadDirectoryRace ==
  ASSUME RaceInv, ReadDirectory
  PROVE  RaceInv'
<1> DEFINE below == {q \in Under(crawl.at) : Parent(q) = crawl.at /\ Listed(disk, q)}
           read == {[path |-> q, dir |-> IsDir(disk[q].meta)] : q \in below}
           entries == IF disk[crawl.at].ino \in crawl.open THEN read ELSE {}
<1>1. /\ crawl.pc = "read" /\ crawl' = [crawl EXCEPT !.pc = "next", !.listing = With(entries)]
      /\ UNCHANGED <<habit, disk, ops, kernel, watches, pending, changes, tree, events, known>>
  BY Steps DEF ReadDirectory, CrawlStep, UntilNow
<1>2. /\ crawl \in RunningCrawl /\ crawl.listing \in Seq(Level) /\ Len(crawl.listing) > 0
      /\ crawl.at \in Path /\ crawl.at = Here.of
  BY <1>1, CrawlPlaced DEF AtPlace, LevelsIn
<1>3. entries \in SUBSET Entry /\ \A e \in entries : e.path # Root /\ Parent(e.path) = Here.of
  <2>1. \A q \in below : q \in Path /\ q # Root /\ Parent(q) = Here.of /\ IsDir(disk[q].meta) \in BOOLEAN
    BY <1>2, PathAssumption, UnderParent DEF Under, IsDir
  <2> HIDE DEF below
  <2>2. QED BY <2>1 DEF Entry
<1> HIDE DEF entries
<1>4. With(entries) \in Seq(Level)
  BY <1>2, <1>3, Relisted
<1>5. /\ crawl' \in RunningCrawl /\ crawl'.pc = "next" /\ crawl'.listing = With(entries)
      /\ crawl'.flagged = crawl.flagged /\ crawl'.wd = crawl.wd
  BY <1>1, <1>2, <1>4 DEF RunningCrawl
<1>6. AtPlace'
  BY <1>5 DEF AtPlace
<1>7. crawl.pc # "none"
  BY <1>1
<1>8. QED BY <1>1, <1>3, <1>5, <1>6, <1>7, WalkRace

LEMMA NextEntryRace ==
  ASSUME RaceInv, NextEntry
  PROVE  RaceInv'
<1>1. /\ crawl.pc = "next" /\ crawl.pc # "none"
      /\ UNCHANGED <<habit, disk, ops, kernel, watches, pending, changes, tree, events, known>>
  BY DEF NextEntry, CrawlStep, UntilNow
<1>2. PICK e \in Here.entries :
        LET rest == [crawl EXCEPT !.listing = With(Here.entries \ {e})]
        IN  crawl' = IF PassedOver(e) THEN rest
                     ELSE [rest EXCEPT !.pc = "visit", !.at = e.path,
                                       !.open = IF e.dir THEN {disk[e.path].ino} ELSE {}]
  BY DEF NextEntry
<1> DEFINE entries == Here.entries \ {e}
           open == IF e.dir THEN {disk[e.path].ino} ELSE {}
<1>3. /\ crawl \in RunningCrawl /\ crawl.listing \in Seq(Level) /\ Len(crawl.listing) > 0
      /\ Len(crawl.listing) \in DOMAIN crawl.listing /\ Here = crawl.listing[Len(crawl.listing)]
      /\ Here \in Level /\ Visible(Here.of) /\ LevelsIn(tree, crawl.listing)
  BY <1>1, CrawlPlaced DEF LevelsIn
<1>4. \A f \in Here.entries : f \in Entry /\ f.path # Root /\ Parent(f.path) = Here.of
  BY <1>3 DEF LevelsIn, LevelIn, Level
<1>5. e.path \in Path \ {Root} /\ Parent(e.path) = Here.of
  BY <1>4 DEF Entry
<1>6. open \in SUBSET Inode
  BY <1>5, DiskKinds DEF RaceInv, TypeInv
<1>7. entries \in SUBSET Entry /\ \A f \in entries : f.path # Root /\ Parent(f.path) = Here.of
  BY <1>4
<1>8. \/ /\ PassedOver(e)
         /\ crawl' = [crawl EXCEPT !.listing = With(entries)]
      \/ /\ ~PassedOver(e)
         /\ crawl' = [crawl EXCEPT !.listing = With(entries), !.pc = "visit", !.at = e.path, !.open = open]
  BY <1>2
<1> HIDE DEF entries, open
<1>9. With(entries) \in Seq(Level)
  BY <1>3, <1>7, Relisted
<1>10. /\ crawl' \in RunningCrawl /\ crawl'.listing = With(entries)
       /\ crawl'.flagged = crawl.flagged /\ crawl'.wd = crawl.wd
       /\ crawl'.pc = "next" \/ (crawl'.pc = "visit" /\ crawl'.at = e.path /\ ~PassedOver(e))
  BY <1>1, <1>3, <1>5, <1>6, <1>8, <1>9 DEF RunningCrawl
<1>11. AtPlace'
  <2>1. CASE crawl'.pc = "next"
    BY <2>1 DEF AtPlace
  <2>2. CASE crawl'.pc = "visit" /\ crawl'.at = e.path /\ ~PassedOver(e)
    <3>1. Visible(e.path)
      BY <1>3, <1>5, <2>2, VisibleParent DEF PassedOver
    <3>2. Last(With(entries)) = [of |-> Here.of, entries |-> entries]
      BY <1>3, <1>7, Relisted
    <3>3. Here'.of = Here.of
      BY <1>10, <3>2 DEF Here
    <3>4. QED BY <1>5, <2>2, <3>1, <3>3 DEF AtPlace
  <2>3. QED BY <1>10, <2>1, <2>2
<1>12. QED BY <1>1, <1>7, <1>10, <1>11, WalkRace

\* A step that takes a directory's watch further.
LEMMA WatchStepRace ==
  ASSUME RaceInv, crawl.pc \in {"watch", "map"}, NEW pc \in {"map", "read"}, NEW wd \in Nat,
         UNCHANGED <<habit, disk, ops, pending, changes, tree, events, known>>,
         crawl' = [crawl EXCEPT !.pc = pc, !.wd = wd], wd <= kernel'.last,
         kernel' \in Kernels, kernel'.queue = kernel.queue, \A i \in Inode : kernel'.wd[i] <= kernel'.last,
         Descriptors(watches', kernel'.last),
         \A d \in DOMAIN watches' : \/ d \in DOMAIN watches /\ watches'[d] = watches[d]
                                    \/ watches'[d] = crawl.at
  PROVE  RaceInv'
<1>1. /\ crawl \in RunningCrawl /\ crawl.at = Here.of /\ Visible(Here.of)
      /\ LevelsIn(tree, crawl.listing) /\ FlaggedIn(tree, crawl.listing, crawl.flagged)
  BY CrawlPlaced DEF AtPlace
<1>2. /\ crawl' \in RunningCrawl /\ crawl'.pc = pc /\ crawl'.wd = wd /\ crawl'.at = crawl.at
      /\ crawl'.listing = crawl.listing /\ crawl'.flagged = crawl.flagged
  BY <1>1 DEF RunningCrawl
<1>3. CrawlTyped' /\ PlaceInv'
  BY <1>1, <1>2 DEF CrawlTyped, PlaceInv, AtPlace, Here
<1>4. TypeInv'
  <2>1. Bounded(kernel.queue)'
    BY DEF RaceInv, TypeInv, Bounded
  <2>2. QED BY <2>1 DEF RaceInv, TypeInv
<1>5. IgnoredStaysOut'
  <2>1. \A d \in DOMAIN watches' : watches'[d] \in Path
    BY DEF Descriptors
  <2>2. \A p \in Path : ~Visible(p) =>
          /\ ~HasNode(tree, p) /\ events[p] = NoEvent /\ known[p] = NoFile
          /\ pending.flags[p] = "none" /\ changes.flags[p] = "none"
          /\ \A d \in DOMAIN watches : watches[d] # p
    BY DEF RaceInv, IgnoredStaysOut, Visible
  <2>3. \A p \in Path : ~Visible(p) => \A d \in DOMAIN watches' : watches'[d] # p
    BY <1>1, <2>2
  <2>4. QED BY <2>2, <2>3 DEF IgnoredStaysOut, Visible
<1>6. QED BY <1>3, <1>4, <1>5 DEF RaceInv

LEMMA KernelWatchRace ==
  ASSUME RaceInv, KernelWatch
  PROVE  RaceInv'
<1> DEFINE b == [wd |-> kernel.wd, last |-> kernel.last, watches |-> watches]
           w == WatchDir(disk, crawl.at, b)
           wd == IF IsDir(disk[crawl.at].meta) THEN w.wd[disk[crawl.at].ino] ELSE 0
<1>1. /\ crawl.pc = "watch" /\ UNCHANGED <<habit, disk, ops, pending, changes, watches, tree, events, known>>
      /\ kernel' = [kernel EXCEPT !.wd = w.wd, !.last = w.last]
      /\ crawl' = [crawl EXCEPT !.pc = "map", !.wd = wd]
  BY Steps DEF KernelWatch, CrawlStep, UntilNow
<1>2. crawl.at \in Path /\ disk \in Disk
  BY <1>1, CrawlPlaced DEF RaceInv, TypeInv
<1>3. disk[crawl.at].ino \in Inode
  BY <1>2, DiskKinds
<1>4. b \in WatchState
  <2>1. kernel.wd \in [Inode -> Nat] /\ kernel.last \in Nat /\ Descriptors(watches, kernel.last)
    BY DEF RaceInv, TypeInv, Kernels
  <2>2. watches \in UNION {[D -> Path] : D \in SUBSET (Nat \ {0})} /\ DOMAIN watches \subseteq 1 .. kernel.last
    BY <2>1, Typed
  <2>3. QED BY <2>1, <2>2 DEF RaceInv, TypeInv, WatchState
<1>5. w \in WatchState
  BY <1>2, <1>4, WatchDirType
<1>6. w.last = kernel.last \/ w.last = kernel.last + 1
  BY DEF WatchDir
<1> HIDE DEF w
<1>7. w.wd \in [Inode -> Nat] /\ w.last \in Nat /\ \A i \in Inode : w.wd[i] <= w.last
  BY <1>5 DEF WatchState
<1>8. wd \in Nat /\ wd <= w.last
  BY <1>3, <1>7
<1>9. kernel' \in Kernels /\ kernel'.queue = kernel.queue /\ kernel'.wd = w.wd /\ kernel'.last = w.last
  BY <1>1, <1>7 DEF RaceInv, TypeInv, Kernels
<1> HIDE DEF wd
<1>10. Descriptors(watches', kernel'.last)
  <2>1. kernel.last \in Nat /\ Descriptors(watches, kernel.last)
    BY DEF RaceInv, TypeInv, Kernels
  <2>2. QED BY <1>1, <1>6, <1>9, <2>1 DEF Descriptors
<1>11. QED BY <1>1, <1>7, <1>8, <1>9, <1>10, WatchStepRace

LEMMA MapWatchRace ==
  ASSUME RaceInv, MapWatch
  PROVE  RaceInv'
<1>1. /\ crawl.pc = "map" /\ UNCHANGED <<habit, disk, ops, pending, changes, kernel, tree, events, known>>
      /\ watches' = IF crawl.wd = 0 THEN watches ELSE Inserted(watches, crawl.wd, crawl.at)
      /\ crawl' = [crawl EXCEPT !.pc = "read"]
  BY Steps DEF MapWatch, CrawlStep, UntilNow
<1>2. crawl \in RunningCrawl /\ crawl.at \in Path /\ crawl.wd <= kernel.last
  BY <1>1, CrawlPlaced
<1>3. crawl' = [crawl EXCEPT !.pc = "read", !.wd = crawl.wd] /\ crawl.wd \in Nat
  BY <1>1, <1>2 DEF RunningCrawl
<1>4. /\ kernel \in Kernels /\ kernel.last \in Nat /\ Descriptors(watches, kernel.last)
      /\ \A i \in Inode : kernel.wd[i] <= kernel.last
  BY DEF RaceInv, TypeInv, Kernels
<1>5. /\ Descriptors(watches', kernel'.last)
      /\ \A d \in DOMAIN watches' : \/ d \in DOMAIN watches /\ watches'[d] = watches[d]
                                    \/ watches'[d] = crawl.at
  <2>1. CASE crawl.wd = 0
    BY <1>1, <1>4, <2>1
  <2>2. CASE crawl.wd # 0
    <3>1. watches' = [d \in DOMAIN watches \cup {crawl.wd} |-> IF d = crawl.wd THEN crawl.at ELSE watches[d]]
      BY <1>1, <2>2 DEF Inserted
    <3>2. crawl.wd \in 1 .. kernel.last
      BY <1>2, <1>3, <1>4, <2>2
    <3>3. QED BY <1>1, <1>2, <1>4, <3>1, <3>2 DEF Descriptors
  <2>3. QED BY <2>1, <2>2
<1>6. QED BY <1>1, <1>2, <1>3, <1>4, <1>5, WatchStepRace

LEMMA LeaveDirectoryRace ==
  ASSUME RaceInv, LeaveDirectory
  PROVE  RaceInv'
<1> DEFINE n == Len(crawl.listing)
           gone == {q \in crawl.flagged : Parent(q) = Here.of}
           r == Removed(State, gone)
<1>1. /\ crawl.pc = "next" /\ UNCHANGED <<habit, disk, ops, kernel, watches, pending, changes, known>>
      /\ crawl' = IF n = 1 THEN NoCrawl ELSE [crawl EXCEPT !.listing = Front(@), !.flagged = @ \ gone]
  BY DEF LeaveDirectory, CrawlStep, UntilNow
<1>2. Becomes(r)
  BY DEF LeaveDirectory, Removed, ReportGone, FoldPaths, DeleteMissing
<1>3. /\ crawl \in RunningCrawl /\ crawl.listing \in Seq(Level) /\ n \in Nat /\ n \in DOMAIN crawl.listing
      /\ DOMAIN crawl.listing = 1 .. n /\ Here = crawl.listing[n] /\ Here.of \in Path
      /\ \A l \in DOMAIN crawl.listing : /\ crawl.listing[l].of \in Path
                                         /\ Len(crawl.listing[l].of) <= Len(Here.of)
      /\ LevelsIn(tree, crawl.listing) /\ FlaggedIn(tree, crawl.listing, crawl.flagged)
      /\ crawl.wd <= kernel.last /\ crawl.flagged \in SUBSET Path
  BY <1>1, CrawlPlaced
<1>4. gone \in SUBSET Path /\ \A q \in gone : HasNode(tree, q) /\ q # Root /\ Parent(q) = Here.of
  BY <1>3 DEF FlaggedIn
<1>5. State \in Walker /\ Clean(State) /\ State.tree = tree /\ State.events = events /\ Root \in Path
  BY StateTyped
<1> HIDE DEF gone, n
<1>6. /\ r \in Walker /\ r.watched = State.watched
      /\ \A q \in Path : /\ HasNode(tree, q) => HasNode(r.tree, q)
                         /\ HasNode(r.tree, q) => HasNode(tree, q)
                         /\ r.events[q] # events[q] => HasNode(tree, q)
                         /\ (\A p \in gone : q # p /\ q \notin Under(p)) => r.tree[q].meta = tree[q].meta
  BY <1>4, <1>5, RemovedTouches DEF Keeps
<1> HIDE DEF r
<1>7. Clean(r)
  BY <1>5, <1>6 DEF Clean
<1>8. tree' = r.tree
  BY <1>2 DEF Becomes
<1>9. changes' \in Changes /\ \A q \in Path : changes'.flags[q] # "none" => Visible(q)
  BY <1>1, IgnoredMeans DEF RaceInv, TypeInv
<1>10. TypeInv' /\ IgnoredStaysOut'
  BY <1>1, <1>2, <1>6, <1>7, <1>9, WorkerStays
\* What is deleted is below the directories that the crawl is in.
<1>11. \A q \in Path : Len(q) <= Len(Here.of) => tree'[q].meta = tree[q].meta
  <2> SUFFICES ASSUME NEW q \in Path, Len(q) <= Len(Here.of), NEW p \in gone
               PROVE  q # p /\ q \notin Under(p)
    BY <1>6, <1>8
  <2>1. Len(Here.of) = Len(p) - 1 /\ Len(p) \in Nat /\ Len(q) \in Nat
    BY <1>4, ParentMeans, PathTypes
  <2>2. QED BY <1>4, <2>1, UnderMeans
<1>12. IsDir(tree[Root].meta)'
  <2>1. Len(Root) <= Len(Here.of)
    <3>1. Len(Root) = 0 /\ Len(Here.of) \in Nat
      BY <1>3, PathTypes DEF Root
    <3>2. QED BY <3>1
  <2>2. QED BY <1>5, <1>11, <2>1 DEF RaceInv
<1>13. CASE n = 1
  <2>1. crawl' = NoCrawl
    BY <1>1, <1>13
  <2>2. QED BY <1>10, <1>12, <2>1 DEF RaceInv, CrawlTyped, PlaceInv, NoCrawl
<1>14. CASE n # 1
  <2> DEFINE front == Front(crawl.listing)
             left == crawl.flagged \ gone
  <2>1. Len(crawl.listing) > 1 /\ DOMAIN crawl.listing = 1 .. n
    <3>1. n > 1
      BY <1>3, <1>14
    <3>2. QED BY <1>3, <3>1 DEF n
  <2>2. /\ front \in Seq(Level) /\ Len(front) = n - 1 /\ n - 1 > 0 /\ DOMAIN front = 1 .. n - 1
        /\ \A l \in 1 .. n - 1 : front[l] = crawl.listing[l] /\ l \in DOMAIN crawl.listing
        /\ \A l \in DOMAIN crawl.listing : l \in 1 .. n - 1 \/ crawl.listing[l] = Here
    BY <1>3, <2>1, Shallower DEF n
  <2>3. crawl' = [crawl EXCEPT !.listing = front, !.flagged = left]
    BY <1>1, <1>14
  <2> HIDE DEF front
  <2>4. /\ crawl' \in RunningCrawl /\ crawl'.pc = "next" /\ crawl'.listing = front /\ crawl'.flagged = left
        /\ crawl'.wd = crawl.wd
    BY <1>1, <1>3, <2>2, <2>3 DEF RunningCrawl
  <2>5. LevelsIn(tree', front)
    <3>1. ASSUME NEW l \in 1 .. n - 1
          PROVE  LevelIn(tree', front[l]) /\ (l > 1 => Parent(front[l].of) = front[l - 1].of)
      <4>1. /\ LevelIn(tree, crawl.listing[l])
            /\ l > 1 => Parent(crawl.listing[l].of) = crawl.listing[l - 1].of
            /\ tree'[crawl.listing[l].of].meta = tree[crawl.listing[l].of].meta
        BY <1>3, <1>11, <2>2 DEF LevelsIn
      <4>2. l > 1 => l - 1 \in 1 .. n - 1
        BY <1>3
      <4>3. QED BY <2>2, <4>1, <4>2 DEF LevelIn
    <3>2. Descends(front)
      BY <1>3, <2>2 DEF LevelsIn, Descends
    <3>3. QED BY <2>2, <3>1, <3>2 DEF LevelsIn
  <2>6. FlaggedIn(tree', front, left)
    <3> SUFFICES ASSUME NEW q \in left
                 PROVE  HasNode(tree', q) /\ q # Root /\ \E l \in 1 .. n - 1 : front[l].of = Parent(q)
      BY <2>2 DEF FlaggedIn
    <3>1. q \in crawl.flagged /\ q \in Path /\ Parent(q) # Here.of
      BY <1>3 DEF gone
    <3>2. HasNode(tree, q) /\ q # Root /\ \E l \in DOMAIN crawl.listing : crawl.listing[l].of = Parent(q)
      BY <1>3, <3>1 DEF FlaggedIn
    <3>3. QED BY <1>6, <1>8, <2>2, <3>1, <3>2
  <2>7. CrawlTyped' /\ PlaceInv'
    BY <1>1, <1>3, <2>4, <2>5, <2>6 DEF CrawlTyped, PlaceInv, AtPlace
  <2>8. QED BY <1>10, <1>12, <2>7 DEF RaceInv
<1>15. QED BY <1>13, <1>14

------------------------------------------------------------------------------
(* Theorems about all that other programs do *)

LEMMA InitRace ==
  ASSUME RaceInit
  PROVE  RaceInv
<1>1. Init /\ crawl = NoCrawl
  BY DEF RaceInit
<1>2. TypeInv /\ IgnoredStaysOut
  BY <1>1, InitType, InitIgnored
<1>3. CrawlTyped /\ PlaceInv
  BY <1>1, NoPlace
<1>4. IsDir(tree[Root].meta)
  <2>1. PICK h \in Habits : Start(h)
    BY <1>1 DEF Init
  <2>2. PICK lost \in CutOff(disk, Walk(disk, Root, h.recursive)) : tree = CrawledTree(disk, h.recursive, lost)
    BY <2>1, Started
  <2>3. disk \in Disk /\ Root \in Path
    BY <1>2, PathAssumption DEF TypeInv
  <2>4. tree[Root].meta = disk[Root].meta
    BY <2>2, <2>3 DEF CrawledTree, Added, Node
  <2>5. QED BY <2>3, <2>4, DiskShape, Kinds
<1>5. QED BY <1>2, <1>3, <1>4 DEF RaceInv

LEMMA RaceInvStep ==
  ASSUME RaceInv, [RaceNext]_<<vars, crawl>>
  PROVE  RaceInv'
BY OthersRace, StartRecrawlRace, NextChangeRace, KernelWatchRace, MapWatchRace, ReadDirectoryRace,
   NextEntryRace, VisitEntryRace, LeaveDirectoryRace DEF RaceNext, CrawlSteps

\* RaceInv holds in every state: no operation of other programs, no event and no step of
\* the worker, at whatever moment of a crawl, takes the crawl out of its directories or
\* lets anything ignored in (tree.rs:458-555).
THEOREM RaceInvHolds == RaceSpec => []RaceInv
<1>1. RaceInit => RaceInv
  BY InitRace
<1>2. RaceInv /\ [RaceNext]_<<vars, crawl>> => RaceInv'
  BY RaceInvStep
<1>3. QED BY <1>1, <1>2, PTL DEF RaceSpec

\* Sentry.TypeOK, though a crawl is many steps and disk and queue change between them
\* (tree.rs:458-555).
THEOREM RaceTypeCorrect == RaceSpec => []TypeOK
<1>1. RaceInv => TypeOK
  BY TypeMeans DEF RaceInv
<1>2. QED BY <1>1, RaceInvHolds, PTL

\* Sentry.IgnoredStaysOut: whatever is moved or made at whatever moment of a crawl,
\* nothing ignored comes into the tree, is watched or reported (tree.rs:498-503,
\* inotify.rs:105-110).
THEOREM IgnoredNeverCrawled == RaceSpec => []IgnoredStaysOut
<1>1. RaceInv => IgnoredStaysOut
  BY DEF RaceInv
<1>2. QED BY <1>1, RaceInvHolds, PTL

\* CrawlRace.CrawlKeepsItsPlace: a crawl stays in directories of the tree whatever is
\* deleted meanwhile, by the disk or by itself (tree.rs:442-455, :514-529, :543-553).
THEOREM PlaceKept == RaceSpec => []CrawlKeepsItsPlace
<1>1. RaceInv => CrawlKeepsItsPlace
  <2> SUFFICES ASSUME RaceInv, crawl # NoCrawl
               PROVE  /\ crawl.listing # <<>>
                      /\ \A l \in DOMAIN crawl.listing :
                           /\ IsDir(tree[crawl.listing[l].of].meta)
                           /\ l > 1 => Parent(crawl.listing[l].of) = crawl.listing[l - 1].of
                      /\ \A q \in crawl.flagged : /\ HasNode(tree, q)
                                                  /\ \E l \in DOMAIN crawl.listing : crawl.listing[l].of = Parent(q)
    BY DEF CrawlKeepsItsPlace
  <2>1. crawl.pc # "none"
    BY DEF RaceInv, CrawlTyped, RunningCrawl
  <2>2. LevelsIn(tree, crawl.listing) /\ FlaggedIn(tree, crawl.listing, crawl.flagged)
    BY <2>1 DEF RaceInv, PlaceInv
  <2>3. crawl.listing # <<>>
    BY <2>2 DEF LevelsIn
  <2>4. QED BY <2>2, <2>3 DEF LevelsIn, LevelIn, FlaggedIn
<1>2. QED BY <1>1, RaceInvHolds, PTL
==============================================================================
