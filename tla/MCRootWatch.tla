----------------------------- MODULE MCRootWatch -----------------------------
(* Instances of RootWatch: a directory with one below it, and one whose name    *)
(* begins with the same letters and goes on below the separator.                *)
EXTENDS RootWatch

A  == <<Sep, 97>>
AB == <<Sep, 97, Sep, 98>>
AX == <<Sep, 97, 33>>             \* "/a!"
ABC == AB \o <<Sep, 99>>

MCDir == {A, AB, AX, ABC}

Flat(p) == [path |-> p, recursive |-> FALSE]
Deep(p) == [path |-> p, recursive |-> TRUE]

Inotify == [backend |-> "inotify", asks |-> {Flat(A), Deep(A), Deep(AB), Flat(AB), Deep(AX)}, max |-> 4,
            filters |-> {}, refilters |-> 0, at |-> {}, changes |-> 0, shutdown |-> FALSE, failures |-> FALSE]

\* Roots that a filter ignores later on.
Filtered == [Inotify EXCEPT !.asks = {Deep(A), Flat(AB), Deep(AB), Flat(AX)}, !.max = 3,
                            !.filters = {{AB}, {ABC}}, !.refilters = 1]

\* And that it opens again.
Reopened == [Filtered EXCEPT !.asks = {Flat(A), Deep(A), Flat(ABC), Deep(AB)}, !.filters = {{}, {AB}},
                             !.refilters = 2]

\* inotify_add_watch may fail; changes and a shutdown in between.
Failing == [Inotify EXCEPT !.max = 2, !.at = {AB, AX}, !.changes = 1, !.shutdown = TRUE, !.failures = TRUE]

\* A recursive root that was refused above one that is there.
Refusing == [Inotify EXCEPT !.asks = {Deep(A), Deep(AB), Flat(ABC)}, !.max = 3, !.failures = TRUE]

\* Up to three streams.
FsEvent == [Inotify EXCEPT !.backend = "fsevent", !.asks = {Flat(A), Flat(AB), Flat(AX)}, !.max = 3,
                           !.at = {AB}, !.changes = 2]
FsShutdown == [FsEvent EXCEPT !.max = 2, !.at = {AB, AX}, !.changes = 1, !.shutdown = TRUE,
                              !.failures = TRUE]

Windows == [Inotify EXCEPT !.backend = "windows", !.asks = {Flat(A), Deep(A), Flat(AX)}, !.max = 2,
                           !.at = {AB}, !.changes = 2]

\* Reads that fail, a shutdown, and both for a single watch.
WinFailing == [Windows EXCEPT !.asks = {Deep(AB), Flat(AX)}, !.at = {AX}, !.changes = 1, !.failures = TRUE]
WinShutdown == [WinFailing EXCEPT !.failures = FALSE, !.shutdown = TRUE]
WinBoth == [WinShutdown EXCEPT !.asks = {Deep(AB)}, !.at = {AB}, !.failures = TRUE]

MCScenes == {Inotify, Filtered, Reopened, Failing, Refusing, FsEvent, FsShutdown, Windows, WinFailing,
             WinShutdown, WinBoth}

FlatScenes == {[Inotify EXCEPT !.asks = {Flat(A), Flat(AB)}, !.max = 2]}
==============================================================================
