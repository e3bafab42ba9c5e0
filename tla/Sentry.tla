-------------------------------- MODULE Sentry -------------------------------
(***************************************************************************)
(* The whole watcher on Linux, from the disk to the handler, with one root *)
(* that is already crawled:                                                *)
(*                                                                         *)
(*   disk, kernel  the file system and inotify, outside of the program:    *)
(*                 a watch sits on an inode, its events go to a queue of   *)
(*                 a limited length that ends in an overflow event         *)
(*   watches       InotifyWatcher.watches, from watch descriptors to paths *)
(*   pending       PendingChangesLock.inner                                *)
(*   changes       the worker's pending_changes                            *)
(*   tree, events  the worker's FileTree and EventDebouncer                *)
(*   known         what a handler that applies every batch believes        *)
(*                                                                         *)
(* One event is handled at a time, the worker takes what is pending and    *)
(* applies it later, the disk changes at any moment in between, though not *)
(* while the worker applies changes.                                       *)
(***************************************************************************)
EXTENDS FileTree

CONSTANTS Stamp,          \* stamps (mtime and size) of files
          Ino,            \* inode numbers but the root's; they are reused
          Habits          \* what may happen outside of the program, see Habit

AllOps == {"create", "write", "unlink", "mkdir", "rmdir", "rename_file", "rename_dir",
           "symlink"}

RootIno == 1
NoFile == "no file"

ASSUME NamesAssumption == Ino \subseteq Nat \ {0, RootIno} /\ NoFile \notin Stamp

\* A tree of directories from the root; what is there has an inode of its own (there
\* are no hard links).
Disk ==
  {d \in [Path -> [meta : {Dir, Other, Deleted} \cup {File(s) : s \in Stamp}, ino : Ino \cup {0, RootIno}]] :
     /\ d[Root] = [meta |-> Dir, ino |-> RootIno]
     /\ \A p \in Path : d[p].meta = Deleted <=> d[p].ino = 0
     /\ \A p \in Path : \A q \in Under(p) : Listed(d, q) => IsDir(d[p].meta)
     /\ \A p, q \in Path : d[p].ino = d[q].ino /\ Listed(d, p) => p = q}

\* The disk when the root is added, and how; what other programs do and where,
\* where files may appear, a bound on how often, whether they wait until the
\* watcher is idle, whether directories only move to paths new to the tree;
\* max_queued_events.
Habit == [disk : Disk, recursive : BOOLEAN, ops : SUBSET AllOps, at : SUBSET Path,
          files : SUBSET Path, max : Nat, patient : BOOLEAN, fresh : BOOLEAN, queue : Nat \ {0}]

ASSUME HabitsAssumption == /\ IsFiniteSet(Habits) /\ Habits # {}
                           /\ \A h \in Habits : h \in Habit

VARIABLES habit,          \* which of Habits; it does not change
          disk, ops,      \* the file system; operations so far
          kernel,         \* [queue, wd: inode -> watch descriptor, last]
          watches,        \* a map from descriptors to paths
          pending, changes,
          tree, events,
          known           \* [Path -> stamp]; NoFile: no such file

vars == <<habit, disk, ops, kernel, watches, pending, changes, tree, events, known>>

------------------------------------------------------------------------------
(* Pending changes *)

Nothing == [flags |-> [p \in Path |-> "none"], recrawl |-> FALSE]

\* PendingChanges::recrawl
Recrawl == [flags |-> [p \in Path |-> "none"], recrawl |-> TRUE]

\* PendingChanges::add: the flags of one path are joined; crawl tells whether
\* NEEDS_RECURSIVE_CRAWL is among them. Nothing ever is at a path outside of
\* Path (a stale path of a directory makes such ones): a change there has no effect.
AddWatcher(q, p, crawl) ==
  IF q.recrawl \/ p \notin Path THEN q
  ELSE [q EXCEPT !.flags[p] = IF crawl \/ @ = "crawl" THEN "crawl" ELSE "stat"]

------------------------------------------------------------------------------
(* inotify *)

\* Events are lost once the queue is full; an overflow event, one at a time, says so.
Push(queue, evs) ==
  LET all == queue \o evs
      kept == SubSeq(all, 1, IF Len(queue) < habit.queue THEN habit.queue ELSE Len(queue))
  IN  IF Len(all) <= habit.queue THEN all
      ELSE IF \E i \in DOMAIN queue : queue[i].kind = "OVERFLOW" THEN kept
      ELSE Append(kept, [kind |-> "OVERFLOW", wd |-> 0, path |-> <<>>])

\* An event about the child at p of a watched directory, or about a watched
\* directory itself. Only the child's name is in the event.
OfChild(kind, p) ==
  LET wd == kernel.wd[disk[Parent(p)].ino]
  IN  IF wd = 0 THEN <<>> ELSE <<[kind |-> kind, wd |-> wd, path |-> <<p[Len(p)]>>]>>

OfSelf(kind, p) ==
  LET wd == kernel.wd[disk[p].ino]
  IN  IF wd = 0 \/ ~IsDir(disk[p].meta) THEN <<>>
      ELSE <<[kind |-> kind, wd |-> wd, path |-> <<>>]>>

\* The map of watches once the descriptor d stands for p.
Inserted(w, d, p) == [e \in DOMAIN w \cup {d} |-> IF e = d THEN p ELSE w[e]]

\* inotify_add_watch: the descriptor of the inode, a new one if it has none.
\* Fails on what is no directory.
WatchDir(fs, p, w) ==
  IF ~IsDir(fs[p].meta) THEN w
  ELSE LET i == fs[p].ino
           d == IF w.wd[i] = 0 THEN w.last + 1 ELSE w.wd[i]
       IN  [wd |-> [w.wd EXCEPT ![i] = d], last |-> IF w.wd[i] = 0 THEN d ELSE w.last,
            watches |-> Inserted(w.watches, d, p)]

\* InotifyWatcher::watch_dir for all of ps.
WatchDirs(ps) ==
  LET w == FoldPaths(LAMBDA p, acc : WatchDir(disk, p, acc),
                     [wd |-> kernel.wd, last |-> kernel.last, watches |-> watches], ps)
  IN  /\ kernel' = [kernel EXCEPT !.wd = w.wd, !.last = w.last]
      /\ watches' = w.watches

------------------------------------------------------------------------------
(* Other programs *)

FreeIno == Ino \ {disk[p].ino : p \in Path}

Room(p) == p # Root /\ ~Listed(disk, p) /\ IsDir(disk[Parent(p)].meta)

Do(op) == /\ op \in habit.ops
          /\ ops < habit.max
          /\ ops' = ops + 1
          /\ UNCHANGED <<habit, watches, pending, changes, tree, events, known>>

Notifies(evs) == kernel' = [kernel EXCEPT !.queue = Push(@, evs)]

CreateFile(p) ==
  /\ Do("create") /\ Room(p) /\ p \in habit.files
  /\ \E i \in FreeIno, s \in Stamp : disk' = [disk EXCEPT ![p] = [meta |-> File(s), ino |-> i]]
  /\ Notifies(OfChild("CREATE", p))

WriteFile(p) ==
  /\ Do("write") /\ IsFile(disk[p].meta)
  /\ \E s \in Stamp \ {disk[p].meta.stamp} : disk' = [disk EXCEPT ![p].meta = File(s)]
  /\ Notifies(OfChild("MODIFY", p))

Unlink(p) ==
  /\ Do("unlink") /\ (IsFile(disk[p].meta) \/ disk[p].meta = Other)
  /\ disk' = [disk EXCEPT ![p] = Absent]
  /\ Notifies(OfChild("DELETE", p))

Symlink(p) ==
  /\ Do("symlink") /\ Room(p)
  /\ \E i \in FreeIno : disk' = [disk EXCEPT ![p] = [meta |-> Other, ino |-> i]]
  /\ Notifies(OfChild("CREATE", p))

Mkdir(p) ==
  /\ Do("mkdir") /\ Room(p)
  /\ \E i \in FreeIno : disk' = [disk EXCEPT ![p] = [meta |-> Dir, ino |-> i]]
  /\ Notifies(OfChild("CREATE", p))

\* The watch goes with the inode (DELETE_SELF, IGNORED).
Rmdir(p) ==
  /\ Do("rmdir") /\ p # Root /\ IsDir(disk[p].meta)
  /\ \A q \in Under(p) : ~Listed(disk, q)
  /\ disk' = [disk EXCEPT ![p] = Absent]
  /\ kernel' = [kernel EXCEPT !.queue = Push(@, OfChild("DELETE", p) \o OfSelf("IGNORED", p)),
                              !.wd[disk[p].ino] = 0]

\* A file takes the place of r, which may be a file before.
RenameFile(p, r) ==
  /\ Do("rename_file") /\ p # r /\ IsFile(disk[p].meta)
  /\ (Room(r) /\ r \in habit.files) \/ IsFile(disk[r].meta)
  /\ disk' = [disk EXCEPT ![r] = disk[p], ![p] = Absent]
  /\ Notifies(OfChild("MOVED_FROM", p) \o OfChild("MOVED_TO", r))

\* Everything below a directory moves along; watches stay on their inodes.
RenameDir(p, r) ==
  LET to(q) == r \o SubSeq(q, Len(p) + 1, Len(q))
      moves == {q \in Under(p) \cup {p} : Listed(disk, q)}
  IN  /\ Do("rename_dir") /\ p # Root /\ IsDir(disk[p].meta)
      /\ Room(r) /\ r \notin Under(p)
      /\ habit.fresh => ~HasNode(tree, r)
      /\ \A q \in moves : to(q) \in habit.at
      /\ disk' = [q \in Path |-> IF \E m \in moves : q = to(m)
                                  THEN disk[CHOOSE m \in moves : q = to(m)]
                                ELSE IF q \in moves THEN Absent ELSE disk[q]]
      /\ Notifies(OfChild("MOVED_FROM", p) \o OfChild("MOVED_TO", r) \o OfSelf("MOVE_SELF", p))

------------------------------------------------------------------------------
(* The program *)

\* InotifyWatcher::handle_event on the next event.
HandleEvent ==
  LET e == Head(kernel.queue)
      dir == watches[e.wd]
      child == dir \o e.path
      unknown == e.wd \notin DOMAIN watches
  IN  /\ kernel.queue # <<>>
      /\ kernel' = [kernel EXCEPT !.queue = Tail(@)]
      /\ IF e.kind = "OVERFLOW"
           THEN pending' = Recrawl /\ UNCHANGED watches
         ELSE IF unknown
           THEN /\ pending' = IF e.kind \in {"MOVE_SELF", "IGNORED"} THEN Recrawl ELSE pending
                /\ UNCHANGED watches
         ELSE IF e.kind \in {"MOVE_SELF", "IGNORED"}
           THEN /\ pending' = AddWatcher(pending, dir, TRUE)
                /\ watches' = IF e.kind = "IGNORED" THEN Restrict(watches, DOMAIN watches \ {e.wd}) ELSE watches
         ELSE /\ pending' = IF child \in Ignored THEN pending
                            ELSE AddWatcher(pending, child, e.kind \in {"CREATE", "DELETE"})
              /\ UNCHANGED watches
      /\ UNCHANGED <<habit, disk, ops, changes, tree, events, known>>

\* The worker wakes up and takes what is pending.
TakePending ==
  /\ changes = Nothing /\ pending # Nothing
  /\ changes' = pending
  /\ pending' = Nothing
  /\ UNCHANGED <<habit, disk, ops, kernel, watches, tree, events, known>>

\* Worker::run: a crawl of the root, or a transaction. The changes are gone.
Reconcile ==
  LET s == [tree |-> tree, events |-> events, watched |-> {}]
      t == IF changes.recrawl THEN Crawl(disk, s, Root)
                              ELSE ApplyTransaction(disk, s, changes.flags)
  IN  /\ changes # Nothing
      /\ tree' = t.tree
      /\ events' = t.events
      /\ WatchDirs(t.watched)
      /\ changes' = Nothing
      /\ UNCHANGED <<habit, disk, ops, pending, known>>

Quiet == \A p \in Path : events[p] = NoEvent

\* Settled: a handler learns what happened to which file. It takes a file for
\* what the tree saw of it.
Deliver ==
  /\ changes = Nothing /\ pending = Nothing /\ ~Quiet
  /\ known' = [p \in Path |->
                 CASE events[p] = NoEvent -> known[p]
                   [] Present(events[p]) /\ IsFile(tree[p].meta) -> tree[p].meta.stamp
                   [] Present(events[p]) /\ ~IsFile(tree[p].meta) -> known[p]
                   [] OTHER -> NoFile]
  /\ events' = [p \in Path |-> NoEvent]
  /\ UNCHANGED <<habit, disk, ops, kernel, watches, pending, changes, tree>>

------------------------------------------------------------------------------
Idle == kernel.queue = <<>> /\ pending = Nothing /\ changes = Nothing /\ Quiet

\* What a watcher of the root answers for: all of it or its children only, but
\* nothing ignored and nothing in an ignored directory.
Watched == {p \in Path \ {Root} : /\ Exists(disk, p)
                                  /\ habit.recursive \/ Len(p) = 1
                                  /\ \A q \in Path \ {Root} : q = p \/ p \in Under(q) => q \notin Ignored}

WatchedFiles == [p \in Path |-> IF p \in Watched /\ IsFile(disk[p].meta) THEN disk[p].meta.stamp
                                                                        ELSE NoFile]

\* add_root has just answered: the root was crawled, its directories watched. A
\* handler's owner has looked at the files himself (a new root has no events).
Start(h) ==
  \E lost \in CutOff(h.disk, Walk(h.disk, Root, h.recursive)) :
    LET dirs == CrawledDirs(h.disk, h.recursive, lost) IN
    /\ habit = h /\ disk = h.disk
    /\ watches = SetToSeq(dirs)
    /\ kernel = [queue |-> <<>>, last |-> Len(watches),
                 wd |-> [i \in Ino \cup {0, RootIno} |->
                           IF \E p \in dirs : disk[p].ino = i
                             THEN CHOOSE d \in DOMAIN watches : disk[watches[d]].ino = i ELSE 0]]
    /\ ops = 0
    /\ pending = Nothing /\ changes = Nothing
    /\ tree = CrawledTree(h.disk, h.recursive, lost)
    /\ events = [p \in Path |-> NoEvent]
    /\ known = WatchedFiles

Init == \E h \in Habits : Start(h)

Operation ==
  /\ habit.patient => Idle
  /\ \E p \in habit.at :
       \/ CreateFile(p) \/ WriteFile(p) \/ Unlink(p) \/ Symlink(p) \/ Mkdir(p) \/ Rmdir(p)
       \/ \E r \in habit.at : RenameFile(p, r) \/ RenameDir(p, r)

Program == HandleEvent \/ TakePending \/ Reconcile \/ Deliver

Next == Operation \/ Program

Spec == Init /\ [][Next]_vars

------------------------------------------------------------------------------
(* Properties *)

\* Type correctness; a node has the inode of something that was on the disk.
TypeOK ==
  /\ habit \in Habits /\ disk \in Disk
  /\ ops \in 0 .. habit.max
  /\ Len(kernel.queue) <= habit.queue + 1
  /\ kernel.wd \in [Ino \cup {0, RootIno} -> 0 .. kernel.last]
  /\ watches \in [DOMAIN watches -> Path] /\ DOMAIN watches \subseteq 1 .. kernel.last
  /\ \A q \in {pending, changes} : /\ q.flags \in [Path -> {"none", "stat", "crawl"}]
                                  /\ q.recrawl \in BOOLEAN
  /\ events \in [Path -> EventType \cup {NoEvent}]
  /\ known \in [Path -> Stamp \cup {NoFile}]
  /\ \A p \in Path : \/ ~HasNode(tree, p)
                      \/ /\ tree[p].meta \in {Dir, Deleted} \cup {File(s) : s \in Stamp}
                         /\ tree[p].ino \in Ino \cup {RootIno}
                         /\ tree[p].watch \in {"none", "children", "recursive"}
                         /\ tree[p].listed \in BOOLEAN

\* Once everything has been reported, a handler knows exactly the files that are
\* on the disk and not ignored, with their contents: no event was missed, none
\* made up (README.md:7, :12).
InSync == Idle => known = WatchedFiles

\* At such a moment every directory to watch is watched, and the
\* descriptor stands for the path the directory has now: the next event in it
\* will be put where it belongs (inotify.rs:134-138 with tree.rs:458-555).
WatchesCover ==
  Idle => \A p \in Watched \cup {Root} :
            (IsDir(disk[p].meta) /\ (habit.recursive \/ p = Root)) =>
              LET d == kernel.wd[disk[p].ino] IN d # 0 /\ watches[d] = p

\* Nothing ignored, nor what is below it, is watched, looked at or reported, though
\* only the entry of a walk or of an event is asked about, and things move: the tree,
\* the watches and the pending changes vouch for one another (tree.rs:498-503, :588-595,
\* inotify.rs:105-110).
IgnoredStaysOut ==
  \A p \in Path :
    (\E q \in Path \ {Root} : (q = p \/ p \in Under(q)) /\ q \in Ignored) =>
      /\ ~HasNode(tree, p) /\ events[p] = NoEvent /\ known[p] = NoFile
      /\ pending.flags[p] = "none" /\ changes.flags[p] = "none"
      /\ \A d \in DOMAIN watches : watches[d] # p
==============================================================================
