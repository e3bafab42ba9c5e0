------------------------------- MODULE MCSentry -----------------------------
(* Instances of Sentry: up to four directories, a file in each of them. *)
EXTENDS Sentry

TwoPaths == {<<>>, <<1>>, <<2>>, <<1, 1>>, <<2, 1>>}
MCPath == TwoPaths \cup {<<3>>, <<3, 1>>, <<4>>, <<4, 1>>}
MCIgnored == {<<3>>}

\* Only the root, or also the directory 1, or also a file in it.
EmptyDisk == [p \in MCPath |-> IF p = <<>> THEN [meta |-> Dir, ino |-> RootIno] ELSE Absent]
DirDisk == [EmptyDisk EXCEPT ![<<1>>] = [meta |-> Dir, ino |-> 2]]
FileDisk == [DirDisk EXCEPT ![<<1, 1>>] = [meta |-> File("s"), ino |-> 3]]

Usual == [disk |-> EmptyDisk, recursive |-> TRUE, ops |-> {"create", "write", "mkdir"},
          at |-> TwoPaths, files |-> MCPath, max |-> 4, patient |-> FALSE, fresh |-> FALSE,
          queue |-> 20]

\* Nothing goes away, but inotify's queue is short.
Overflow == [Usual EXCEPT !.queue = 2]

\* Also things that are neither files nor directories, which crawls pass by.
Links == [Overflow EXCEPT !.ops = {"create", "mkdir", "symlink"}, !.max = 3, !.queue = 1]

\* No links, but in a root whose directories are not watched.
Flat == [Usual EXCEPT !.disk = FileDisk, !.recursive = FALSE, !.queue = 1]

\* Files come and go, in the root, in a directory and in an ignored one.
Unlinks == [Usual EXCEPT !.ops = {"create", "write", "unlink", "mkdir", "rename_file"},
                         !.at = {<<>>, <<1>>, <<3>>, <<1, 1>>, <<3, 1>>}]

\* Directories move to paths the tree has not seen.
Moves == [Usual EXCEPT !.disk = FileDisk, !.ops = {"unlink", "mkdir", "rmdir", "rename_dir"},
                       !.at = MCPath, !.max = 3, !.fresh = TRUE]

\* One operation at a time: everything but moves of directories.
Calm == [Usual EXCEPT !.disk = DirDisk, !.ops = AllOps \ {"rename_dir"}, !.max = 5,
                      !.patient = TRUE]

MCHabits == {Overflow, Links, Flat, Unlinks, Moves, Calm}

\* Habits the code is not up to, one for each reason.
OverflowHabits == {[Overflow EXCEPT !.disk = DirDisk, !.ops = {"create", "unlink"},
                                    !.max = 5, !.queue = 1]}
RenameBackHabits == {[Calm EXCEPT !.disk = FileDisk, !.ops = {"rename_dir"}]}
SymlinkHabits == {[Calm EXCEPT !.disk = [DirDisk EXCEPT ![<<2>>] = [meta |-> Other, ino |-> 3]],
                               !.ops = {"create"}]}
==============================================================================
