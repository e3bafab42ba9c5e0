---------------------------- MODULE MCCrawlRace ------------------------------
(* Instances of CrawlRace. *)
EXTENDS CrawlRace

MCPath == {<<>>, <<1>>, <<2>>, <<1, 1>>, <<2, 1>>, <<3>>}
MCIgnored == {<<3>>}

OnlyRoot == [p \in MCPath |-> IF p = <<>> THEN [meta |-> Dir, ino |-> RootIno] ELSE Absent]
WithFile == [OnlyRoot EXCEPT ![<<1>>] = [meta |-> Dir, ino |-> 2],
                             ![<<1, 1>>] = [meta |-> File("s"), ino |-> 3]]

\* Directories and files appear and change.
Grow == [disk |-> OnlyRoot, recursive |-> TRUE, ops |-> {"create", "write", "mkdir"},
         at |-> MCPath \ MCIgnored, files |-> MCPath, max |-> 4,
         patient |-> FALSE, fresh |-> FALSE, queue |-> 20]

\* Files and directories go, directories come back. (Files do not: see Sentry's
\* OverflowHabits, a file that a crawl deletes is not taken for new again.)
Shrink == [Grow EXCEPT !.disk = WithFile, !.ops = {"unlink", "mkdir", "rmdir"}, !.max = 4]

\* inotify's queue is short, so there are recrawls. They come by an ignored directory.
Recrawls == [Grow EXCEPT !.ops = @ \cup {"symlink"}, !.queue = 1,
                         !.disk = [WithFile EXCEPT ![<<3>>] = [meta |-> Dir, ino |-> 5]]]

\* A recrawl comes upon what is gone.
Sweep == [Shrink EXCEPT !.ops = {"unlink", "rmdir"}, !.queue = 1,
                        !.disk = [WithFile EXCEPT ![<<2>>] = [meta |-> Dir, ino |-> 4]]]

MCHabits == {Grow, Shrink, Recrawls, Sweep}
==============================================================================
