------------------------------ MODULE RootWatch ------------------------------
(***************************************************************************)
(* The worker that adds and recrawls roots (Roots), on each of the three   *)
(* backends: inotify, FsEvents or WindowsWatcher. Other threads ask for    *)
(* roots, set a filter and shut the watcher down; other programs change    *)
(* the content of directories.                                             *)
(*                                                                         *)
(* Here inotify only has a set of watched directories and reports at once; *)
(* Sentry and CrawlRace have its queue and its descriptors.                *)
(***************************************************************************)
EXTENDS Roots, FiniteSetsExt

CONSTANT Scenes           \* what happens outside of the worker, see Scene

\* The backend; which roots are asked for, how often; which filters are set, how
\* often; where there are changes, how many; is there a shutdown; do calls fail, does
\* the system lose track of changes (not for inotify)?
Scene == [backend : {"inotify", "fsevent", "windows"}, asks : SUBSET Request, max : Nat,
          filters : SUBSET SUBSET Dir, refilters : Nat, at : SUBSET Dir, changes : Nat,
          shutdown : BOOLEAN, failures : BOOLEAN]

ASSUME ScenesAssumption == /\ IsFiniteSet(Scenes) /\ Scenes # {}
                           /\ \A s \in Scenes : s \in Scene

VARIABLES scene,          \* which of Scenes; it does not change
          asked,          \* history: the requests so far
          refiltered,     \* how often the filter was set
          log,            \* the changes: where, did watch_dir promise a report?
          seen,           \* those reported to the worker
          shut,           \* where the call of shutdown is
          watches,        \* inotify: the directories it watches
          fsroots, stream, last_event_id, since, callback,      \* FsEvents
          wroots, port, thread                                  \* WindowsWatcher

Fs == INSTANCE FsEvents
Win == INSTANCE WindowsWatcher

fsVars == <<fsroots, stream, last_event_id, since, callback>>
winVars == <<wroots, port, thread>>
outside == <<scene, asked, refiltered>>
backend == <<log, seen, shut, watches, fsVars, winVars>>
vars == <<rootsVars, outside, backend>>

On(b) == scene.backend = b

------------------------------------------------------------------------------
(* inotify *)

\* inotify_add_watch, then the path goes into the map.
InotifyWatch ==
  /\ call.pc = "called"
  /\ \/ /\ watches' = watches \cup {call.path}
        /\ call' = [call EXCEPT !.pc = "done"]
     \/ /\ scene.failures
        /\ call' = [call EXCEPT !.pc = "done", !.ok = FALSE]
        /\ UNCHANGED watches
  /\ UNCHANGED <<recrawl, stop, shut, log, seen>>

InotifyShutdown ==
  /\ shut = "none"
  /\ stop' = TRUE
  /\ shut' = "done"
  /\ UNCHANGED <<call, recrawl, log, seen, watches>>

------------------------------------------------------------------------------
(* Steps of the parts: what a step of one leaves alone of the others *)

WorkerStep == Worker /\ UNCHANGED <<outside, backend>>

OfInotify(A) == On("inotify") /\ A /\ UNCHANGED <<workerOnly, outside, fsVars, winVars>>
OfFsEvents(A) == On("fsevent") /\ A /\ UNCHANGED <<workerOnly, outside, watches, winVars>>
OfWindows(A) == On("windows") /\ A /\ UNCHANGED <<workerOnly, outside, watches, fsVars>>

\* The worker's thread inside of watch_dir.
WatchDir == \/ OfInotify(InotifyWatch)
            \/ OfFsEvents(Fs!Backend)
            \/ OfWindows(Win!Backend(scene.failures))

EventThread == OfFsEvents(Fs!Callback(scene.failures)) \/ OfWindows(Win!Thread(scene.failures))

System == OfWindows(Win!System(scene.failures))

CallShutdown == /\ scene.shutdown
                /\ \/ OfInotify(InotifyShutdown)
                   \/ OfFsEvents(Fs!StoreShutdown)
                   \/ OfWindows(Win!SwapShutdown)

Shutdown == OfFsEvents(Fs!TearDown) \/ OfWindows(Win!Shutdown)

------------------------------------------------------------------------------
(* Outside *)

Ask ==
  /\ Len(asked) < scene.max
  /\ \E r \in scene.asks : AddRoot(r) /\ asked' = Append(asked, r)
  /\ UNCHANGED <<scene, refiltered, backend>>

ChangeFilter ==
  /\ refiltered < scene.refilters
  /\ \E f \in scene.filters \ {filter} : SetFilter(f)
  /\ refiltered' = refiltered + 1
  /\ UNCHANGED <<scene, asked, backend>>

\* Something changes in a directory.
Change ==
  /\ Len(log) <= scene.changes
  /\ \E d \in scene.at :
       /\ log' = Append(log, [dir |-> d, owed |-> d \in watched])
       /\ seen' = IF On("inotify") /\ d \in watches THEN seen \cup {Len(log')} ELSE seen
       /\ Win!Collect(d, Len(log'))
  /\ UNCHANGED <<rootsVars, outside, shut, watches, fsVars, port, thread>>

------------------------------------------------------------------------------
Init ==
  /\ scene \in Scenes
  /\ RootsInit /\ Fs!FsInit /\ Win!WinInit
  /\ asked = <<>> /\ refiltered = 0
  /\ log = <<[dir |-> <<>>, owed |-> FALSE]>>
  /\ seen = {} /\ shut = "none" /\ watches = {}

Program == WorkerStep \/ WatchDir \/ EventThread \/ System \/ Shutdown

Next == Program \/ CallShutdown \/ Ask \/ ChangeFilter \/ Change

Spec == Init /\ [][Next]_vars

\* The threads of the program run, and the system ends a read that has something.
Fairness == /\ WF_vars(WorkerStep \/ WatchDir)
            /\ WF_vars(EventThread)
            /\ WF_vars(System)
            /\ WF_vars(Shutdown)

FairSpec == Spec /\ Fairness

------------------------------------------------------------------------------
(* Properties *)

\* The values of the backends' variables.
WatchTypes ==
  /\ scene \in Scenes /\ asked \in Seq(Request) /\ refiltered \in 0 .. scene.refilters
  /\ shut \in {"none", "flag", "post", "cancel", "clear", "done"}
  /\ log \in Seq([dir : Dir \cup {<<>>}, owed : BOOLEAN]) /\ seen \subseteq Nat
  /\ watches \subseteq Dir

FsTypes ==
  /\ fsroots \subseteq Dir /\ last_event_id \in Nat /\ since \in Nat
  /\ stream \in [live : BOOLEAN, paths : SUBSET Dir, newest : Nat]
  /\ callback \in [pc : {"idle", "record", "process"}, ids : SUBSET Nat]

WinTypes ==
  LET Completion == [kind : {"none", "records", "overflow", "failed", "post"}, key : Nat,
                     ids : SUBSET Nat]
  IN  /\ wroots \in Seq([path : Dir, recursive : BOOLEAN, read : {"armed", "ended", "failed"},
                         held : SUBSET Nat])
      /\ port \in Seq(Completion)
      /\ thread \in [pc : {"wait", "records", "overflow", "failed", "handle", "rearm", "exit"},
                     work : Completion]

\* Only what has happened is reported, or on its way to be.
OnlyHappened ==
  /\ seen \subseteq DOMAIN log
  /\ last_event_id <= Len(log) /\ since <= Len(log) /\ stream.newest <= Len(log)
  /\ callback.ids \subseteq DOMAIN log
  /\ \A k \in DOMAIN wroots : wroots[k].held \subseteq DOMAIN log
  /\ \A n \in DOMAIN port : port[n].ids \subseteq DOMAIN log
  /\ thread.work.ids \subseteq DOMAIN log

\* Type correctness: the variables have the values they should, at the right points
\* of the worker, and what is seen has happened.
TypeOK == /\ RootsTypes /\ WatchTypes /\ FsTypes /\ WinTypes
          /\ filter \in scene.filters \cup {{}}
          /\ RootsControl /\ OnlyHappened

Idle == wpc = "loop" /\ todo = <<>> /\ ~recrawl

\* A watch on Windows that lost its read.
Broken == \E k \in DOMAIN wroots : Win!Dead(k)

\* Does the backend tell of changes in d?
WatchedNow(d) ==
  \/ d \in watches
  \/ stream.live /\ \E r \in stream.paths : Reaches(r, TRUE, d)
  \/ \E k \in DOMAIN wroots : Reaches(wroots[k].path, wroots[k].recursive, d)

\* What the request is for: the directory or all from it on down, but for what is
\* ignored.
Wanted(a) == {d \in Dir : Reaches(a.path, a.recursive, d) /\ ~IgnoreRec(filter, d)}

\* Once the worker is idle, the backend watches everything that a request
\* was answered "true" for, whatever roots came before and in which order, whatever
\* filters were set and taken back meanwhile: what they opened again was recrawled
\* (worker.rs:52-108, 129-150 with tree.rs:355-425, 471-555, 557-596).
\* Not so for a flat root with a node of its own already, nor for a recursive one whose
\* node a crawl deleted when the filter ignored it: see TrueMeansWatched.
Covered ==
  (Idle /\ ~stop /\ ~scene.failures) =>
    \A a \in Given : (a.answer = "yes" \/ (a.recursive /\ a.answer = "known")) =>
      \A d \in Wanted(a) : WatchedNow(d)

\* An answer of "true" means that the root is watched.
TrueMeansWatched ==
  (Idle /\ ~stop /\ ~scene.failures) => \A a \in Given : \A d \in Wanted(a) : WatchedNow(d)

\* What changes in a directory that watch_dir succeeded for is never lost: it was
\* reported or is still on its way, though streams are replaced and reads end.
NothingLost ==
  \A i \in DOMAIN log :
    (log[i].owed /\ ~stop /\ ~Broken) =>
      \/ i \in seen
      \/ On("fsevent") /\ Fs!OnItsWay(i)
      \/ On("windows") /\ Win!OnItsWay(i)

\* Until shutdown there is exactly one read, completion or step of the thread for
\* every watch: no watch falls asleep, no buffer gets two reads (windows.rs:107-164).
OneRead == ~stop => \A k \in DOMAIN wroots :
                      Win!Reads(k) = 1 \/ (Win!Dead(k) /\ Win!Reads(k) = 0)

\* When shutdown frees the buffers, the system writes into none of them
\* (windows.rs:334-360).
CancelledBeforeFreed == shut = "cancel" => \A k \in DOMAIN wroots : wroots[k].read # "armed"

\* Once shutdown has returned there is no stream, nor will there be one: nobody
\* would release it (fsevent.rs:222-229, 247-260).
NoStreamLeft == shut = "done" => ~stream.live /\ ~Fs!Rebuilding

\* A change that is owed is reported, unless shutdown or a failing read comes first.
Reported ==
  \A i \in 2 .. 1 + Max({s.changes : s \in Scenes}) :
    (i \in DOMAIN log /\ log[i].owed) ~> (i \in seen \/ stop \/ Broken)


\* Once a recrawl is due, every root in the list is crawled with the filter there is,
\* unless a new one takes its place or shutdown comes first (worker.rs:128-149).
Recrawled ==
  \A d \in Dir :
    (recrawl /\ InList(d)) ~> \/ wpc = "recrawl" /\ snapshot = filter /\ d \in towatch
                              \/ ~InList(d) \/ stop
==============================================================================
