------------------------ MODULE RootWatchCover_proofs ------------------------
(***************************************************************************)
(* Proofs about RootWatch: what was answered "true" is watched (Covered),  *)
(* and no change there is lost (NothingLost).                              *)
(* The first needs that each party does what the next relies on: the       *)
(* worker asks for all that is below a recursive root and not ignored      *)
(* (AskedInv of Roots_proofs), and the backend knows of all it has    *)
(* answered for (PromisesBacked).                                          *)
(* The second follows each change: on FSEvents every id that a stream may  *)
(* start from has all before it delivered (FsDelivers), on Windows a change*)
(* is in a buffer, a completion or the thread's hands (WinKeeps).          *)
(***************************************************************************)
EXTENDS RootWatch_proofs

LEMMA SameReaches ==
  /\ \A p, recursive, d : Fs!Reaches(p, recursive, d) <=> Reaches(p, recursive, d)
  /\ \A p, recursive, d : Win!Reaches(p, recursive, d) <=> Reaches(p, recursive, d)
BY DEF Win!Reaches, Win!IsParentOf, Win!SameUpTo, Win!Sep, Fs!Reaches, Fs!IsParentOf, Fs!SameUpTo, Fs!Sep,
       Reaches, IsParentOf, SameUpTo, Sep

------------------------------------------------------------------------------
(* What the worker asks the backend for *)

\* What was answered: the node of a recursive root is recursive and stays so, "true" was
\* heard for what watch_dir succeeded for.
AnswersMarked ==
  /\ \A a \in Given : /\ a.recursive /\ a.answer \in {"yes", "known"} => nodes[a.path] = "recursive"
                      /\ a.answer = "yes" => a.path \in watched
  /\ wpc = "crawl" => Head(batch).path \in watched

\* As long as no call fails, all is asked for.
AllAsked == (~scene.failures /\ ~stop) => call.ok /\ AskedInv

LEMMA AnswersMarkedStep ==
  ASSUME RootsInv, AnswersMarked, RootsStep
  PROVE  AnswersMarked'
<1>1. RootsTypes /\ RootsControl /\ RootsCarried
  BY DEF RootsInv
<1>2. \A d \in Dir : nodes[d] = "recursive" => nodes'[d] = "recursive"
  BY <1>1, Growth
<1>3. \A a \in Given : a.path \in Dir
  BY <1>1, GivenTypes
<1>4. watched \subseteq watched'
  BY DEF RootsStep, Worker, TakeRequests, KnownRoot, InvalidRoot, NewRoot, RootRefused, CrawlRoot, WatchNext,
         Return, Watched, ListRoot, Recrawl, CrawlNext, RecrawlDone, AddRoot, SetFilter, BackendAnswers,
         workerOnly
<1>5. ASSUME answers' = answers, wpc' = "crawl" => wpc = "crawl" /\ Head(batch') = Head(batch)
      PROVE  AnswersMarked'
  <2>1. Given' = Given
    BY <1>5 DEF Given
  <2>2. QED BY <1>2, <1>3, <1>4, <1>5, <2>1 DEF AnswersMarked
<1>6. ASSUME NEW answer \in {"known", "invalid", "failed", "yes"}, Answer(answer), batch # <<>>,
             nodes' = nodes,
             answer \in {"yes", "known"} /\ Head(batch).recursive => nodes[Head(batch).path] = "recursive",
             answer = "yes" => Head(batch).path \in watched
      PROVE  AnswersMarked'
  <2>1. wpc' # "crawl"
    BY <1>6 DEF Answer
  <2>2. ASSUME NEW a \in Given'
        PROVE  /\ a.recursive /\ a.answer \in {"yes", "known"} => nodes'[a.path] = "recursive"
               /\ a.answer = "yes" => a.path \in watched'
    <3>1. CASE a \in Given
      BY <1>2, <1>3, <1>4, <3>1 DEF AnswersMarked
    <3>2. CASE a = [path |-> Head(batch).path, recursive |-> Head(batch).recursive, answer |-> answer]
      BY <1>4, <1>6, <3>2
    <3>3. a \in Given \cup {[path |-> Head(batch).path, recursive |-> Head(batch).recursive, answer |-> answer]}
      BY <1>1, <1>6, <2>2, GivenGrows
    <3>4. QED BY <3>1, <3>2, <3>3
  <2>3. QED BY <2>1, <2>2 DEF AnswersMarked
<1>7. CASE KnownRoot
  <2>1. batch # <<>> /\ IsKnown(Head(batch)) /\ Answer("known") /\ nodes' = nodes
    BY <1>1, <1>7 DEF KnownRoot, RootsControl
  <2>2. QED BY <1>6, <2>1 DEF IsKnown
<1>8. CASE RootRefused \/ InvalidRoot
  <2>1. batch # <<>> /\ nodes' = nodes /\ (Answer("failed") \/ Answer("invalid"))
    BY <1>1, <1>8 DEF RootRefused, InvalidRoot, RootsControl
  <2>2. CASE Answer("failed")
    BY <1>6, <2>1, <2>2
  <2>3. CASE Answer("invalid")
    BY <1>6, <2>1, <2>3
  <2>4. QED BY <2>1, <2>2, <2>3
<1>9. CASE ListRoot
  <2>1. batch # <<>> /\ Answer("yes") /\ nodes' = nodes /\ wpc = "crawl"
    BY <1>1, <1>9 DEF ListRoot, RootsControl
  <2>2. Head(batch).path \in watched /\ Carries(Head(batch))
    BY <1>1, <2>1 DEF AnswersMarked, RootsCarried, Pending
  <2>3. QED BY <1>6, <2>1, <2>2 DEF Carries
<1>10. CASE CrawlRoot
  <2>1. answers' = answers /\ batch' = batch /\ Head(batch).path \in watched'
    BY <1>1, <1>10 DEF CrawlRoot, Return, RootsControl
  <2>2. Given' = Given
    BY <2>1 DEF Given
  <2>3. QED BY <1>2, <1>3, <1>4, <2>1, <2>2 DEF AnswersMarked
<1>11. CASE TakeRequests \/ NewRoot \/ WatchNext \/ Watched \/ Recrawl \/ CrawlNext \/ RecrawlDone
  <2>1. answers' = answers /\ (wpc' = "crawl" => wpc = "crawl" /\ batch' = batch)
    BY <1>11 DEF TakeRequests, NewRoot, WatchNext, Watched, Recrawl, CrawlNext, RecrawlDone
  <2>2. QED BY <1>5, <2>1
<1>12. CASE (\E r \in Request : AddRoot(r)) \/ (\E f \in SUBSET Dir : SetFilter(f)) \/ BackendAnswers
  <2>1. answers' = answers /\ wpc' = wpc /\ batch' = batch
    BY <1>12 DEF AddRoot, SetFilter, BackendAnswers, workerOnly
  <2>2. QED BY <1>5, <2>1
<1>13. QED BY <1>7, <1>8, <1>9, <1>10, <1>11, <1>12 DEF RootsStep, Worker

\* Without failures no call fails before shutdown.
LEMMA CallOk ==
  ASSUME TypeInv, [Next]_vars, ~scene.failures, ~stop, call.ok
  PROVE  call'.ok
<1>1. CASE UNCHANGED <<call, watched>>
  BY <1>1
<1>2. CASE call.pc = "none" /\ call'.pc = "called" /\ watched' = watched
  <2>1. CASE WorkerStep
    BY <1>2, <2>1 DEF WorkerStep, Worker, TakeRequests, KnownRoot, InvalidRoot, NewRoot, RootRefused, CrawlRoot,
                      WatchNext, Watched, ListRoot, Recrawl, CrawlNext, RecrawlDone, CallWatchDir
  <2>2. CASE call' = call
    BY <2>2
  <2>3. CASE OfInotify(InotifyWatch)
    BY <1>2, <2>3 DEF OfInotify, InotifyWatch
  <2>4. CASE OfFsEvents(Fs!Backend) \/ OfWindows(Win!Backend(scene.failures))
    BY <1>2, <2>4 DEF OfFsEvents, OfWindows, Fs!Backend, Fs!WatchNothing, Fs!WatchRoot, Fs!Resume, Fs!Create,
                      Win!Backend, Win!WatchNothing, Win!WatchRoot, Win!WatchFails
  <2>5. CASE EventThread \/ System
    BY <2>2, <2>5 DEF EventThread, System, OfFsEvents, OfWindows, Fs!Callback, Fs!Deliver, Fs!RecordId,
              Fs!ProcessEvents, Win!Thread, Win!Exit, Win!Dequeue, Win!Failed, Win!Gone, Win!CopyRecords,
              Win!HandleRecords, Win!Rearm, Win!Overflow, Win!System, Win!ReadCompletes, Win!ReadFails,
              Win!EndRead
  <2>6. CASE CallShutdown \/ Shutdown
    BY <2>2, <2>6 DEF CallShutdown, Shutdown, OfInotify, OfFsEvents, OfWindows, InotifyShutdown,
              Fs!StoreShutdown, Fs!TearDown, Win!SwapShutdown, Win!Shutdown, Win!Post, Win!Cancel,
              Win!Clear, Win!ClosePort
  <2>7. CASE Ask \/ ChangeFilter \/ Change \/ UNCHANGED vars
    BY <2>2, <2>7 DEF Ask, ChangeFilter, AddRoot, SetFilter, Change, vars, rootsVars
  <2>8. QED BY <2>1, <2>2, <2>3, <2>4, <2>5, <2>6, <2>7 DEF Next, Program, WatchDir
<1>3. CASE Return
  BY <1>3 DEF Return, NoCall
<1>4. CASE InotifyWatch \/ Fs!Backend
  BY <1>4 DEF InotifyWatch, Fs!Backend, Fs!WatchNothing, Fs!WatchRoot, Fs!Resume, Fs!Create, Fs!Go,
              TypeInv, TypeOK, RootsTypes
<1>5. CASE Win!Backend(scene.failures)
  <2>1. shut # "done"
    BY DEF TypeInv, StopControl
  <2>2. QED BY <1>5, <2>1 DEF Win!Backend, Win!WatchNothing, Win!WatchRoot, Win!WatchFails, Win!Returns,
              TypeInv, TypeOK, RootsTypes
<1>6. QED BY <1>1, <1>2, <1>3, <1>4, <1>5, CallFrame DEF OfInotify

LEMMA StopStays ==
  ASSUME [Next]_vars
  PROVE  (stop => stop') /\ scene' = scene
<1>1. stop => stop'
  BY ShutFrame
<1>2. scene' = scene
  BY OutsideStep
<1>3. QED BY <1>1, <1>2

LEMMA AllAskedStep ==
  ASSUME TypeInv, RootsInv, AllAsked, [Next]_vars, RootsStep
  PROVE  AllAsked'
<1>1. ASSUME ~scene'.failures, ~stop' PROVE ~scene.failures /\ ~stop
  BY <1>1, StopStays
<1>2. ASSUME ~scene.failures, ~stop PROVE call'.ok /\ AskedInv'
  BY <1>2, CallOk, AskedInvStep DEF AllAsked
<1>3. QED BY <1>1, <1>2 DEF AllAsked

------------------------------------------------------------------------------
(* What the backends keep of it *)

\* watch_dir has succeeded for d.
Promised(d) == d \in watched \/ (call.pc = "done" /\ call.ok /\ d = call.path)

\* The backend knows of d.
Backed(d) ==
  /\ On("inotify") => d \in watches
  /\ On("fsevent") /\ ~stop => \E r \in fsroots : Reaches(r, TRUE, d)
  /\ On("windows") /\ ~stop => \E k \in DOMAIN wroots : Reaches(wroots[k].path, wroots[k].recursive, d)

PromisesBacked == \A d \in Dir : Promised(d) => Backed(d)

\* Roots of FSEvents get a path while the stream is rebuilt or is there; the path of the
\* call is one of them.
StreamControl ==
  On("fsevent") => /\ stream.live => stream.paths = fsroots /\ ~Fs!Rebuilding
                   /\ ~stop /\ fsroots # {} => stream.live \/ Fs!Rebuilding
                   /\ Fs!Rebuilding => call.path \in fsroots

LEMMA ReachesItself == \A p, recursive : Reaches(p, recursive, p)
BY DEF Reaches

\* What a root list loses of its reach is nothing, until shutdown.
LEMMA WatchesGrow ==
  ASSUME TypeInv, [Next]_vars, ~stop, ~stop'
  PROVE  /\ DOMAIN wroots \subseteq DOMAIN wroots'
         /\ \A k \in DOMAIN wroots : /\ wroots'[k].path = wroots[k].path
                                     /\ wroots'[k].recursive = wroots[k].recursive
<1>1. wroots \in Seq(Watch) /\ port \in Seq(Completion)
  BY WinTypesAre DEF TypeInv, TypeOK
<1>2. CASE UNCHANGED wroots
  BY <1>2
<1>3. CASE Win!WatchRoot
  <2>1. call.path \in Dir /\ call.recursive \in BOOLEAN
    BY <1>3 DEF Win!WatchRoot, TypeInv, TypeOK, RootsTypes, RootsControl
  <2>2. Len(wroots) \in Nat /\ DOMAIN wroots = 1 .. Len(wroots)
    BY <1>1
  <2>3. /\ DOMAIN wroots' = 1 .. Len(wroots) + 1 /\ \A k \in DOMAIN wroots : wroots'[k] = wroots[k]
    BY <1>1, <1>3, <2>1, WatchRootTypes
  <2>4. QED BY <2>2, <2>3
<1>4. CASE Win!System(scene.failures)
  <2>1. PICK k \in DOMAIN wroots : Win!ReadCompletes(k) \/ Win!ReadFails(k)
    BY <1>4 DEF Win!System
  <2>2. /\ DOMAIN wroots' = DOMAIN wroots
        /\ wroots'[k].path = wroots[k].path /\ wroots'[k].recursive = wroots[k].recursive
        /\ \A j \in DOMAIN wroots \ {k} : wroots'[j] = wroots[j]
    BY <1>1, <2>1, ReadEnds
  <2>3. QED BY <2>2
<1>5. CASE Win!Rearm(scene.failures) \/ Win!Overflow(scene.failures)
  <2>1. PICK ok \in BOOLEAN : Win!IssueRead(thread.work.key, ok)
    BY <1>5, SceneTypes DEF Win!Rearm, Win!Overflow, TypeInv, TypeOK, WatchTypes
  <2>2. thread.work.key \in DOMAIN wroots
    BY <1>5 DEF Win!Rearm, Win!Overflow
  <2>3. /\ DOMAIN wroots' = DOMAIN wroots
        /\ wroots'[thread.work.key].path = wroots[thread.work.key].path
        /\ wroots'[thread.work.key].recursive = wroots[thread.work.key].recursive
        /\ \A j \in DOMAIN wroots \ {thread.work.key} : wroots'[j] = wroots[j]
    BY <1>1, <2>1, <2>2, IssueReadTypes
  <2>4. QED BY <2>3
<1>6. CASE Change
  <2>1. PICK d \in scene.at : Win!Collect(d, Len(log'))
    BY <1>6 DEF Change
  <2>2. Len(log') \in Nat
    BY <1>6, ChangeTypes DEF TypeInv
  <2>3. QED BY <1>1, <2>1, <2>2, CollectTypes
<1>7. CASE Win!Shutdown
  <2>1. shut # "none"
    BY <1>7 DEF Win!Shutdown, Win!Post, Win!Cancel, Win!Clear, Win!ClosePort
  <2>2. QED BY <2>1 DEF TypeInv, StopControl
<1>8. CASE Win!WatchNothing \/ Win!WatchFails(scene.failures) \/ Win!Exit \/ Win!Dequeue \/ Win!Failed
           \/ Win!Gone \/ Win!CopyRecords \/ Win!HandleRecords
  <2>1. wroots' = wroots
    BY <1>8 DEF Win!WatchNothing, Win!WatchFails, Win!winVars, Win!Exit, Win!Dequeue, Win!Failed,
           Win!Gone, Win!CopyRecords, Win!HandleRecords
  <2>2. QED BY <1>2, <2>1
<1>9. QED BY <1>2, <1>3, <1>4, <1>5, <1>6, <1>7, <1>8, WinFrame
          DEF winVars, Win!Backend, Win!Thread

\* What the backend knows it goes on knowing.
LEMMA BackedStays ==
  ASSUME TypeInv, [Next]_vars, NEW d, Backed(d)
  PROVE  Backed(d)'
<1>1. scene' = scene /\ (stop => stop')
  BY StopStays
<1>2. watches \subseteq watches'
  BY HistoryFrame DEF OfInotify, InotifyWatch
<1>3. fsroots \subseteq fsroots'
  BY FsFrame DEF fsVars, Fs!fsVars, Fs!Backend, Fs!WatchNothing, Fs!WatchRoot, Fs!Resume, Fs!Create,
                 Fs!Callback, Fs!Deliver, Fs!RecordId, Fs!ProcessEvents, Fs!TearDown
<1>4. ASSUME On("windows"), ~stop'
      PROVE  \E k \in DOMAIN wroots' : Reaches(wroots'[k].path, wroots'[k].recursive, d)
  <2>1. PICK k \in DOMAIN wroots : Reaches(wroots[k].path, wroots[k].recursive, d)
    BY <1>1, <1>4 DEF Backed
  <2>2. k \in DOMAIN wroots' /\ wroots'[k].path = wroots[k].path /\ wroots'[k].recursive = wroots[k].recursive
    BY <1>1, <1>4, WatchesGrow
  <2>3. Reaches(wroots'[k].path, wroots'[k].recursive, d)
    BY <2>1, <2>2
  <2>4. QED BY <2>2, <2>3
<1>5. ASSUME On("inotify") PROVE d \in watches'
  BY <1>2, <1>5 DEF Backed
<1>6. ASSUME On("fsevent"), ~stop' PROVE \E r \in fsroots' : Reaches(r, TRUE, d)
  BY <1>1, <1>3, <1>6 DEF Backed
<1>7. QED BY <1>1, <1>4, <1>5, <1>6 DEF Backed, On, Reaches

LEMMA StreamControlStep ==
  ASSUME TypeInv, StreamControl, [Next]_vars
  PROVE  StreamControl'
<1>1. scene' = scene /\ (stop => stop')
  BY StopStays
<1>2. SUFFICES ASSUME On("fsevent")
               PROVE  /\ stream'.live => stream'.paths = fsroots' /\ call'.pc \notin {"resume", "create"}
                      /\ ~stop' /\ fsroots' # {} => stream'.live \/ call'.pc \in {"resume", "create"}
                      /\ call'.pc \in {"resume", "create"} => call'.path \in fsroots'
  BY <1>1 DEF StreamControl, On, Fs!Rebuilding
<1>3. /\ stream.live => stream.paths = fsroots /\ call.pc \notin {"resume", "create"}
      /\ ~stop /\ fsroots # {} => stream.live \/ call.pc \in {"resume", "create"}
      /\ call.pc \in {"resume", "create"} => call.path \in fsroots
  BY <1>2 DEF StreamControl, Fs!Rebuilding
<1>4. call \in [pc : {"none", "called", "resume", "create", "done"}, path : Dir \cup {<<>>},
                recursive : BOOLEAN, ok : BOOLEAN]
      /\ stream \in [live : BOOLEAN, paths : SUBSET Dir, newest : Nat]
  BY DEF TypeInv, TypeOK, RootsTypes, FsTypes
<1>5. CASE Fs!Backend
  <2>1. CASE Fs!WatchNothing
    BY <1>1, <1>3, <1>4, <2>1 DEF Fs!WatchNothing, Fs!fsVars, Fs!Go
  <2>2. CASE Fs!WatchRoot
    BY <1>4, <2>2 DEF Fs!WatchRoot, Fs!Go, Fs!NoStream
  <2>3. CASE Fs!Resume
    BY <1>1, <1>3, <1>4, <2>3 DEF Fs!Resume, Fs!Go
  <2>4. CASE Fs!Create
    BY <1>4, <2>4 DEF Fs!Create, Fs!Go
  <2>5. QED BY <1>5, <2>1, <2>2, <2>3, <2>4 DEF Fs!Backend
<1>6. ASSUME ~Fs!Backend
      PROVE  /\ call'.pc \in {"resume", "create"} <=> call.pc \in {"resume", "create"}
             /\ call'.pc \in {"resume", "create"} => call'.path = call.path
  <2>1. CASE call' = call
    BY <2>1
  <2>2. CASE call.pc = "none" /\ call'.pc = "called"
    BY <2>2
  <2>3. CASE call.pc = "done" /\ Return
    BY <2>3 DEF Return, NoCall
  <2>4. QED BY <1>2, <1>6, <2>1, <2>2, <2>3, CallFrame DEF OfInotify, On
<1>7. CASE ~Fs!Backend /\ Fs!TearDown
  <2>1. stop /\ stop'
    BY <1>1, <1>7 DEF Fs!TearDown, TypeInv, StopControl
  <2>2. ~stream'.live /\ fsroots' = fsroots
    BY <1>7 DEF Fs!TearDown, Fs!NoStream
  <2>3. QED BY <1>3, <1>6, <1>7, <2>1, <2>2
<1>8. CASE ~Fs!Backend /\ ~Fs!TearDown
  <2>1. stream'.live = stream.live /\ stream'.paths = stream.paths /\ fsroots' = fsroots
    <3>1. CASE UNCHANGED fsVars
      BY <3>1 DEF fsVars
    <3>2. CASE Fs!Callback(scene.failures)
      BY <1>4, <3>2 DEF Fs!Callback, Fs!Deliver, Fs!RecordId, Fs!ProcessEvents
    <3>3. QED BY <1>8, <3>1, <3>2, FsFrame
  <2>2. QED BY <1>1, <1>3, <1>6, <1>8, <2>1
<1>9. QED BY <1>5, <1>7, <1>8

\* Only what is backed is promised.
LEMMA PromisesBackedStep ==
  ASSUME TypeInv, StreamControl, PromisesBacked, [Next]_vars
  PROVE  PromisesBacked'
<1>1. scene' = scene /\ (stop => stop')
  BY StopStays
<1>2. SUFFICES ASSUME NEW d \in Dir, Promised(d)' PROVE Promised(d) \/ Backed(d)'
  <2>1. ASSUME NEW d \in Dir, Promised(d)' PROVE Backed(d)'
    <3>1. CASE Promised(d)
      BY <3>1, BackedStays DEF PromisesBacked
    <3>2. QED BY <1>2, <2>1, <3>1
  <2>2. QED BY <2>1 DEF PromisesBacked
<1>3. call \in [pc : {"none", "called", "resume", "create", "done"}, path : Dir \cup {<<>>},
                recursive : BOOLEAN, ok : BOOLEAN]
  BY DEF TypeInv, TypeOK, RootsTypes
<1>4. CASE UNCHANGED <<call, watched>>
  BY <1>2, <1>4 DEF Promised
<1>5. CASE call'.pc = "called" /\ watched' = watched
  BY <1>2, <1>5 DEF Promised
<1>6. CASE call.pc = "done" /\ Return
  BY <1>2, <1>6 DEF Promised, Return, NoCall
<1>7. CASE OfInotify(InotifyWatch) /\ watched' = watched
  <2>1. On("inotify") /\ InotifyWatch
    BY <1>7 DEF OfInotify
  <2>2. SUFFICES ASSUME call'.ok, d = call'.path PROVE d \in watches'
    BY <1>1, <1>2, <1>7, <2>1 DEF Promised, Backed, On
  <2>3. CASE watches' = watches \cup {call.path} /\ call' = [call EXCEPT !.pc = "done"]
    BY <1>3, <2>2, <2>3
  <2>4. CASE call' = [call EXCEPT !.pc = "done", !.ok = FALSE]
    BY <1>3, <2>2, <2>4
  <2>5. QED BY <2>1, <2>3, <2>4 DEF InotifyWatch
<1>8. CASE On("fsevent") /\ Fs!Backend /\ watched' = watched
  <2>1. ASSUME call'.pc = "done", ~stop', d = call'.path PROVE \E r \in fsroots' : Reaches(r, TRUE, d)
    <3>1. CASE Fs!WatchNothing
      <4>1. fsroots' = fsroots /\ call'.path = call.path /\ Fs!Unneeded
        BY <1>3, <3>1 DEF Fs!WatchNothing, Fs!fsVars, Fs!Go
      <4>2. ~stop
        BY <1>1, <2>1
      <4>3. \E r \in fsroots : Fs!Reaches(r, TRUE, call.path)
        BY <4>1, <4>2 DEF Fs!Unneeded
      <4>4. QED BY <2>1, <4>1, <4>3, SameReaches
    <3>2. CASE Fs!Create
      <4>1. fsroots' = fsroots /\ call'.path = call.path /\ call.path \in fsroots
        BY <1>3, <1>8, <3>2 DEF Fs!Create, Fs!Go, StreamControl, Fs!Rebuilding
      <4>2. QED BY <2>1, <4>1, ReachesItself
    <3>3. CASE Fs!WatchRoot \/ Fs!Resume
      BY <1>3, <2>1, <3>3 DEF Fs!WatchRoot, Fs!Resume, Fs!Go
    <3>4. QED BY <1>8, <3>1, <3>2, <3>3 DEF Fs!Backend
  <2>2. On("fsevent")' /\ ~On("inotify")' /\ ~On("windows")'
    BY <1>1, <1>8 DEF On
  <2>3. d \in watched \/ (call'.pc = "done" /\ d = call'.path)
    BY <1>2, <1>8 DEF Promised
  <2>4. QED BY <2>1, <2>2, <2>3 DEF Promised, Backed, Reaches
<1>9. CASE On("windows") /\ Win!Backend(scene.failures) /\ watched' = watched
  <2>1. ASSUME call'.ok, d = call'.path
        PROVE  \E k \in DOMAIN wroots' : Reaches(wroots'[k].path, wroots'[k].recursive, d)
    <3>1. CASE Win!WatchNothing
      <4>1. wroots' = wroots /\ call'.path = call.path
        BY <1>3, <3>1 DEF Win!WatchNothing, Win!winVars, Win!Returns
      <4>2. \E k \in DOMAIN wroots : Win!Reaches(wroots[k].path, wroots[k].recursive, call.path)
        BY <3>1 DEF Win!WatchNothing, Win!Unneeded
      <4>3. QED BY <2>1, <4>1, <4>2, SameReaches
    <3>2. CASE Win!WatchRoot
      <4>1. call.path \in Dir /\ call.recursive \in BOOLEAN
        BY <3>2 DEF Win!WatchRoot, TypeInv, TypeOK, RootsTypes, RootsControl
      <4>2. wroots \in Seq(Watch)
        BY WinTypesAre DEF TypeInv, TypeOK
      <4>3. /\ Len(wroots) \in Nat /\ DOMAIN wroots' = 1 .. Len(wroots) + 1
            /\ wroots'[Len(wroots) + 1] = [path |-> call.path, recursive |-> call.recursive,
                                           read |-> "armed", held |-> {}]
        BY <3>2, <4>1, <4>2, WatchRootTypes
      <4>4. Len(wroots) + 1 \in DOMAIN wroots' /\ wroots'[Len(wroots) + 1].path = call.path
        BY <4>3
      <4>5. call'.path = call.path
        BY <1>3, <3>2 DEF Win!WatchRoot, Win!Returns
      <4>6. QED BY <2>1, <4>4, <4>5, ReachesItself
    <3>3. CASE Win!WatchFails(scene.failures)
      BY <1>3, <2>1, <3>3 DEF Win!WatchFails, Win!Returns
    <3>4. QED BY <1>9, <3>1, <3>2, <3>3 DEF Win!Backend
  <2>2. On("windows")' /\ ~On("inotify")' /\ ~On("fsevent")'
    BY <1>1, <1>9 DEF On
  <2>3. d \in watched \/ (call'.ok /\ d = call'.path)
    BY <1>2, <1>9 DEF Promised
  <2>4. QED BY <2>1, <2>2, <2>3 DEF Promised, Backed, Reaches
<1>10. QED BY <1>4, <1>5, <1>6, <1>7, <1>8, <1>9, CallFrame

CoverInv == AnswersMarked /\ AllAsked /\ StreamControl /\ PromisesBacked

LEMMA CoverInvInit ==
  ASSUME Init
  PROVE  CoverInv
<1> USE DEF Init, RootsInit, NoCall
<1>1. AnswersMarked
  BY DEF AnswersMarked, Given
<1>2. AllAsked
  BY AskedInvInit DEF AllAsked
<1>3. StreamControl
  BY DEF StreamControl, Fs!FsInit, Fs!NoStream, Fs!Rebuilding
<1>4. PromisesBacked
  BY DEF PromisesBacked, Promised
<1>5. QED BY <1>1, <1>2, <1>3, <1>4 DEF CoverInv

LEMMA CoverInvStep ==
  ASSUME TypeInv, RootsInv, CoverInv, [Next]_vars
  PROVE  CoverInv'
<1>1. RootsStep
  BY NextIsRootsStep DEF TypeInv
<1>2. QED BY <1>1, AnswersMarkedStep, AllAskedStep, StreamControlStep, PromisesBackedStep DEF CoverInv

\* What the backend knows of is watched, once the worker is idle.
LEMMA BackedIsWatched ==
  ASSUME TypeInv, StreamControl, Idle, ~stop, NEW d, Backed(d)
  PROVE  WatchedNow(d)
<1>1. scene.backend \in {"inotify", "fsevent", "windows"}
  BY SceneTypes DEF TypeInv, TypeOK, WatchTypes
<1>2. CASE On("inotify") \/ On("windows")
  BY <1>2 DEF Backed, WatchedNow
<1>3. CASE On("fsevent")
  <2>1. call.pc = "none"
    BY DEF Idle, TypeInv, TypeOK, RootsControl
  <2>2. PICK r \in fsroots : Reaches(r, TRUE, d)
    BY <1>3 DEF Backed
  <2>3. stream.live /\ stream.paths = fsroots
    BY <1>3, <2>1, <2>2 DEF StreamControl, Fs!Rebuilding
  <2>4. QED BY <2>2, <2>3 DEF WatchedNow
<1>4. QED BY <1>1, <1>2, <1>3 DEF On

LEMMA CoverInvCovers ==
  ASSUME TypeInv, RootsInv, CoverInv
  PROVE  Covered
<1>1. SUFFICES ASSUME Idle, ~stop, ~scene.failures,
                      NEW a \in Given, a.answer = "yes" \/ (a.recursive /\ a.answer = "known"),
                      NEW d \in Wanted(a)
               PROVE  WatchedNow(d)
  BY DEF Covered
<1>2. a.path \in Dir /\ a.recursive \in BOOLEAN /\ d \in Dir
  BY GivenTypes DEF RootsInv, Wanted
<1>3. towatch = {} /\ tocrawl = <<>> /\ call.pc = "none" /\ wpc = "loop" /\ ~recrawl
  BY <1>1 DEF TypeInv, TypeOK, RootsControl, Idle
<1>4. AskedInv
  BY <1>1 DEF CoverInv, AllAsked
<1>5. ASSUME ~a.recursive PROVE d \in watched
  <2>1. a.answer = "yes" /\ d = a.path
    BY <1>1, <1>5 DEF Wanted, Reaches
  <2>2. a.path \in watched
    BY <1>1, <2>1 DEF CoverInv, AnswersMarked
  <2>3. QED BY <2>1, <2>2
<1>6. ASSUME a.recursive PROVE d \in watched
  <2>1. nodes[a.path] = "recursive"
    BY <1>1, <1>6 DEF CoverInv, AnswersMarked
  <2>2. PICK p \in DeepRoots : Reaches(p, TRUE, a.path)
    BY <1>2, <1>3, <1>4, <2>1 DEF AskedInv, RecursiveRooted
  <2>3. Reaches(a.path, TRUE, d) /\ p \in Dir
    BY <1>6 DEF Wanted, Reaches, DeepRoots, Rooted
  <2>4. Reaches(p, TRUE, d) /\ Open(d)
    BY <1>2, <2>2, <2>3, ReachesTwice DEF Wanted, Open
  <2>5. ~Ahead(p) /\ (Asked(d) => d \in watched)
    BY <1>3 DEF Ahead, Asked
  <2>6. QED BY <1>2, <1>3, <1>4, <2>4, <2>5 DEF AskedInv, DeepAsked
<1>7. d \in watched
  BY <1>5, <1>6
<1>8. Backed(d)
  BY <1>2, <1>7 DEF CoverInv, PromisesBacked, Promised
<1>9. QED BY <1>1, <1>8, BackedIsWatched DEF CoverInv

\* Once the worker is idle, all that a request was answered "true" for is watched, however
\* often the filter was changed and the roots were crawled again; but for a flat root that was
\* known and a recursive one that was no directory any more, which are answered alike
\* (worker.rs:52-108, 129-150 with tree.rs:355-425, 471-555, 557-596).
THEOREM AnsweredRootsAreCovered == Spec => []Covered
<1>1. Init => TypeInv /\ RootsInv /\ CoverInv
  BY TypeInvInit, CoverInvInit
<1>2. TypeInv /\ RootsInv /\ CoverInv /\ [Next]_vars => (TypeInv /\ RootsInv /\ CoverInv)'
  BY TypeInvStep, CoverInvStep
<1>3. TypeInv /\ RootsInv /\ CoverInv => Covered
  BY CoverInvCovers
<1>4. QED BY <1>1, <1>2, <1>3, PTL DEF Spec

------------------------------------------------------------------------------
(* No change is lost *)

LEMMA LogEntry ==
  ASSUME NEW d, NEW S, NEW entry, entry = [dir |-> d, owed |-> d \in S]
  PROVE  entry.dir = d /\ (entry.owed <=> d \in S)
<1>1. CASE d \in S
  <2>1. entry = [dir |-> d, owed |-> TRUE]
    BY <1>1, Zenon
  <2>2. QED BY <1>1, <2>1
<1>2. CASE d \notin S
  <2>1. (d \in S) = FALSE
    BY <1>2, SMT
  <2>2. QED BY <1>2, <2>1
<1>3. QED BY <1>1, <1>2

\* A change: it is owed where the backend knows of the directory.
LEMMA ChangeIsBacked ==
  ASSUME TypeInv, PromisesBacked, Change
  PROVE  \E d \in scene.at :
           /\ \A i \in DOMAIN log' : i \in DOMAIN log \/ i = Len(log) + 1
           /\ Len(log') = Len(log) + 1 /\ Len(log) + 1 \in DOMAIN log'
           /\ \A i \in DOMAIN log : i \in DOMAIN log' /\ log'[i] = log[i] /\ i <= Len(log)
           /\ log'[Len(log) + 1].dir = d /\ (log'[Len(log) + 1].owed <=> d \in watched)
           /\ seen' = IF On("inotify") /\ d \in watches THEN seen \cup {Len(log) + 1} ELSE seen
           /\ Win!Collect(d, Len(log) + 1)
           /\ d \in watched => Backed(d)
<1>1. PICK d \in scene.at : /\ log' = Append(log, [dir |-> d, owed |-> d \in watched])
                            /\ seen' = IF On("inotify") /\ d \in watches THEN seen \cup {Len(log')} ELSE seen
                            /\ Win!Collect(d, Len(log'))
  BY DEF Change
<1>2. log \in Seq([dir : Dir \cup {<<>>}, owed : BOOLEAN])
  BY DEF TypeInv, TypeOK, WatchTypes
<1>3. Len(log') = Len(log) + 1 /\ DOMAIN log = 1 .. Len(log) /\ Len(log) \in Nat
  BY ChangeTypes, <1>2 DEF TypeInv
<1>4. log' \in Seq([dir : Dir \cup {<<>>}, owed : BOOLEAN]) /\ DOMAIN log' = 1 .. Len(log) + 1
  BY <1>3, ChangeTypes DEF TypeInv
<1>5. \A i \in DOMAIN log' : i \in DOMAIN log \/ i = Len(log) + 1
  BY <1>3, <1>4
<1>6. /\ \A i \in DOMAIN log : i \in DOMAIN log' /\ log'[i] = log[i] /\ i <= Len(log)
      /\ log'[Len(log) + 1].dir = d /\ (log'[Len(log) + 1].owed <=> d \in watched)
      /\ Len(log) + 1 \in DOMAIN log'
  <2>1. log'[Len(log) + 1] = [dir |-> d, owed |-> d \in watched]
    BY <1>1, <1>2, <1>3
  <2>2. \A i \in DOMAIN log : i \in DOMAIN log' /\ log'[i] = log[i] /\ i <= Len(log)
    BY <1>1, <1>2, <1>3, <1>4
  <2>3. Len(log) + 1 \in DOMAIN log'
    <3>1. DOMAIN log' = 1 .. Len(log) + 1
      BY <1>4
    <3>2. QED BY <1>3, <3>1
  <2>4. log'[Len(log) + 1].dir = d /\ (log'[Len(log) + 1].owed <=> d \in watched)
    BY <2>1, LogEntry
  <2>5. QED BY <2>2, <2>3, <2>4
<1>7. d \in watched => Backed(d)
  BY DEF PromisesBacked, Promised, TypeInv, TypeOK, RootsTypes
<1>8. QED BY <1>1, <1>3, <1>5, <1>6, <1>7

\* Everything else leaves the log alone and takes nothing back.
LEMMA SeenStays ==
  ASSUME [Next]_vars
  PROVE  /\ seen \subseteq seen'
         /\ ~Change => log' = log
BY HistoryFrame DEF Change, Fs!ProcessEvents, Win!Failed, Win!HandleRecords, Win!Overflow

\* inotify reports at once.
InotifyReports == On("inotify") => \A i \in DOMAIN log : log[i].owed => i \in seen

LEMMA InotifyReportsStep ==
  ASSUME TypeInv, PromisesBacked, InotifyReports, [Next]_vars
  PROVE  InotifyReports'
<1>1. On("inotify")' <=> On("inotify")
  BY StopStays DEF On
<1>2. SUFFICES ASSUME On("inotify"), NEW i \in DOMAIN log', log'[i].owed PROVE i \in seen'
  BY <1>1 DEF InotifyReports
<1>3. CASE Change
  <2>1. PICK d \in scene.at :
           /\ \A n \in DOMAIN log' : n \in DOMAIN log \/ n = Len(log) + 1
           /\ \A n \in DOMAIN log : n \in DOMAIN log' /\ log'[n] = log[n] /\ n <= Len(log)
           /\ log'[Len(log) + 1].dir = d /\ (log'[Len(log) + 1].owed <=> d \in watched)
           /\ seen' = IF On("inotify") /\ d \in watches THEN seen \cup {Len(log) + 1} ELSE seen
           /\ d \in watched => Backed(d)
    BY <1>3, ChangeIsBacked
  <2>2. CASE i \in DOMAIN log
    BY <1>2, <2>1, <2>2, SeenStays DEF InotifyReports
  <2>3. CASE i = Len(log) + 1
    <3>1. d \in watched
      BY <1>2, <2>1, <2>3
    <3>2. d \in watches
      BY <1>2, <2>1, <3>1 DEF Backed
    <3>3. QED BY <1>2, <2>1, <2>3, <3>2
  <2>4. QED BY <2>1, <2>2, <2>3
<1>4. CASE ~Change
  BY <1>2, <1>4, SeenStays DEF InotifyReports
<1>5. QED BY <1>3, <1>4

\* Of the changes up to n all that are owed have been delivered.
Behind(n) == \A i \in DOMAIN log : log[i].owed /\ i <= n => i \in seen \cup callback.ids

\* FSEvents: whatever a stream starts or goes on from is behind it.
FsDelivers ==
  (On("fsevent") /\ ~stop) =>
    /\ Behind(last_event_id)
    /\ stream.live => Behind(stream.newest)
    /\ call.pc = "create" => Behind(since)
    /\ \A n \in callback.ids : Behind(n)
    /\ \A i \in DOMAIN log : log[i].owed => \E r \in fsroots : Reaches(r, TRUE, log[i].dir)
    /\ callback.pc = "idle" => callback.ids = {}

\* The first root has the backend ask for an id; nothing is owed before.
FsBegins ==
  (On("fsevent") /\ ~stop) =>
    /\ last_event_id = 0 => watched = {} /\ \A i \in DOMAIN log : ~log[i].owed
    /\ fsroots # {} /\ call.pc # "resume" => last_event_id # 0

\* There have been changes before.
LogBegun == Len(log) >= 1

LEMMA LogBegunStep ==
  ASSUME TypeInv, LogBegun, [Next]_vars
  PROVE  LogBegun'
<1>1. Len(log) <= Len(log') /\ Len(log) \in Nat
  BY LogGrows DEF TypeInv
<1>2. Len(log') \in Nat
  BY WatchTypesStep DEF WatchTypes
<1>3. QED BY <1>1, <1>2 DEF LogBegun

LEMMA FsBeginsStep ==
  ASSUME TypeInv, LogBegun, StreamControl, PromisesBacked, FsBegins, [Next]_vars
  PROVE  FsBegins'
<1>1. scene' = scene /\ (stop => stop')
  BY StopStays
<1>2. SUFFICES ASSUME On("fsevent"), ~stop, ~stop'
               PROVE  /\ last_event_id' = 0 => watched' = {} /\ \A i \in DOMAIN log' : ~log'[i].owed
                      /\ fsroots' # {} /\ call'.pc # "resume" => last_event_id' # 0
  BY <1>1 DEF FsBegins, On
<1>3. /\ last_event_id = 0 => watched = {} /\ \A i \in DOMAIN log : ~log[i].owed
      /\ fsroots # {} /\ call.pc # "resume" => last_event_id # 0
  BY <1>2 DEF FsBegins
<1>4. /\ last_event_id \in Nat /\ Len(log) \in Nat
      /\ call \in [pc : {"none", "called", "resume", "create", "done"}, path : Dir \cup {<<>>},
                   recursive : BOOLEAN, ok : BOOLEAN]
  BY DEF TypeInv, TypeOK, RootsTypes, FsTypes, WatchTypes
<1>5. last_event_id # 0 => last_event_id' # 0
  <2>1. CASE Fs!RecordId
    <3>1. PICK n \in callback.ids : \A i \in callback.ids : i <= n
      BY <2>1 DEF Fs!RecordId, TypeInv, CallbackControl
    <3>2. callback.ids \subseteq DOMAIN log /\ callback.ids \subseteq Nat
      BY DEF TypeInv, TypeOK, FsTypes, OnlyHappened
    <3>3. \A i \in callback.ids : n >= i
      BY <3>1, <3>2
    <3>4. last_event_id' \in callback.ids
      BY <2>1, <3>3 DEF Fs!RecordId, Fs!Max
    <3>5. 0 \notin DOMAIN log
      BY DEF TypeInv, TypeOK, WatchTypes
    <3>6. QED BY <3>2, <3>4, <3>5
  <2>2. CASE Fs!Resume
    BY <2>2 DEF Fs!Resume
  <2>3. CASE ~Fs!RecordId /\ ~Fs!Resume
    BY <2>3, FsFrame DEF fsVars, Fs!fsVars, Fs!Backend, Fs!WatchNothing, Fs!WatchRoot, Fs!Create,
                         Fs!Callback, Fs!Deliver, Fs!ProcessEvents, Fs!TearDown
  <2>4. QED BY <2>1, <2>2, <2>3
<1>6. last_event_id = 0 => watched' = {}
  <2>1. CASE call.pc = "done" /\ Return
    <3>1. ASSUME call.ok PROVE last_event_id # 0
      <4>1. call.path \in Dir /\ Promised(call.path)
        BY <2>1, <3>1 DEF TypeInv, TypeOK, RootsControl, Promised
      <4>2. Backed(call.path)
        BY <4>1 DEF PromisesBacked
      <4>3. fsroots # {}
        BY <1>2, <4>2 DEF Backed
      <4>4. QED BY <1>3, <2>1, <4>3
    <3>2. QED BY <1>3, <2>1, <3>1 DEF Return
  <2>2. watched' = watched \/ (call.pc = "done" /\ Return)
    BY CallFrame
  <2>3. QED BY <1>3, <2>1, <2>2
<1>7. last_event_id = 0 => \A i \in DOMAIN log' : ~log'[i].owed
  <2>1. CASE Change
    <3>1. PICK d \in scene.at :
           /\ \A n \in DOMAIN log' : n \in DOMAIN log \/ n = Len(log) + 1
           /\ \A n \in DOMAIN log : n \in DOMAIN log' /\ log'[n] = log[n] /\ n <= Len(log)
           /\ log'[Len(log) + 1].owed <=> d \in watched
      BY <2>1, ChangeIsBacked
    <3>2. QED BY <1>3, <3>1
  <2>2. QED BY <1>3, <2>1, SeenStays
<1>8. fsroots' # {} /\ call'.pc # "resume" => last_event_id' # 0
  <2>1. CASE Fs!Backend
    <3>1. CASE Fs!WatchNothing
      BY <1>3, <1>4, <3>1 DEF Fs!WatchNothing, Fs!fsVars, Fs!Go
    <3>2. CASE Fs!WatchRoot
      BY <1>4, <3>2 DEF Fs!WatchRoot, Fs!Go
    <3>3. CASE Fs!Resume
      BY <1>4, <3>3 DEF Fs!Resume, Fs!ResumeFrom, LogBegun
    <3>4. CASE Fs!Create
      <4>1. fsroots # {} /\ call.pc # "resume" /\ last_event_id' = last_event_id
        BY <1>2, <3>4 DEF Fs!Create, StreamControl, Fs!Rebuilding
      <4>2. QED BY <1>3, <4>1
    <3>5. QED BY <2>1, <3>1, <3>2, <3>3, <3>4 DEF Fs!Backend
  <2>2. CASE ~Fs!Backend
    <3>1. fsroots' = fsroots
      BY <2>2, FsFrame DEF fsVars, Fs!Callback, Fs!Deliver, Fs!RecordId, Fs!ProcessEvents, Fs!TearDown
    <3>2. call.pc = "resume" => call'.pc = "resume"
      <4>1. CASE call' = call
        BY <4>1
      <4>2. CASE call.pc # "resume"
        BY <4>2
      <4>3. QED BY <1>2, <2>2, <4>1, <4>2, CallFrame DEF OfInotify, On
    <3>3. QED BY <1>3, <1>5, <3>1, <3>2
  <2>3. QED BY <2>1, <2>2
<1>9. QED BY <1>5, <1>6, <1>7, <1>8

\* What was behind stays so as long as the reported and the batch only grow.
LEMMA BehindStays ==
  ASSUME TypeInv, [Next]_vars, NEW n, n <= Len(log), n \in Nat, Behind(n),
         seen \cup callback.ids \subseteq seen' \cup callback'.ids
  PROVE  Behind(n)'
<1>1. /\ DOMAIN log = 1 .. Len(log) /\ Len(log) \in Nat
      /\ DOMAIN log' = 1 .. Len(log')
      /\ \A i \in DOMAIN log : log'[i] = log[i]
  <2>1. log \in Seq([dir : Dir \cup {<<>>}, owed : BOOLEAN])
    BY DEF TypeInv, TypeOK, WatchTypes
  <2>2. log' \in Seq([dir : Dir \cup {<<>>}, owed : BOOLEAN])
    BY WatchTypesStep DEF WatchTypes
  <2>3. \A i \in DOMAIN log : log'[i] = log[i]
    BY LogGrows DEF TypeInv
  <2>4. QED BY <2>1, <2>2, <2>3
<1>2. ASSUME NEW i \in DOMAIN log', log'[i].owed, i <= n PROVE i \in seen' \cup callback'.ids
  <2>1. i \in DOMAIN log
    <3>1. Len(log') \in Nat
      BY WatchTypesStep DEF WatchTypes
    <3>2. QED BY <1>1, <1>2, <3>1
  <2>2. i \in seen \cup callback.ids
    BY <1>1, <1>2, <2>1 DEF Behind
  <2>3. QED BY <2>2
<1>3. QED BY <1>2 DEF Behind

\* Only the callback takes something out of its batch, and hands it over.
LEMMA BatchStays ==
  ASSUME TypeInv, [Next]_vars, On("fsevent"), ~stop, FsDelivers
  PROVE  seen \cup callback.ids \subseteq seen' \cup callback'.ids
<1>1. seen \subseteq seen'
  BY SeenStays
<1>2. CASE Fs!Deliver
  <2>1. callback.ids = {}
    BY <1>2 DEF Fs!Deliver, FsDelivers
  <2>2. QED BY <1>1, <2>1
<1>3. CASE Fs!RecordId
  BY <1>1, <1>3 DEF Fs!RecordId, TypeInv, TypeOK, FsTypes
<1>4. CASE Fs!ProcessEvents(scene.failures)
  BY <1>4 DEF Fs!ProcessEvents
<1>5. CASE ~Fs!Callback(scene.failures)
  <2>1. callback' = callback
    BY <1>5, FsFrame DEF fsVars, Fs!fsVars, Fs!Backend, Fs!WatchNothing, Fs!WatchRoot, Fs!Resume, Fs!Create,
                         Fs!TearDown
  <2>2. QED BY <1>1, <2>1
<1>6. QED BY <1>2, <1>3, <1>4, <1>5 DEF Fs!Callback

LEMMA FsDeliversStep ==
  ASSUME TypeInv, LogBegun, StreamControl, PromisesBacked, FsBegins, FsDelivers, [Next]_vars
  PROVE  FsDelivers'
<1>1. scene' = scene /\ (stop => stop')
  BY StopStays
<1>2. SUFFICES ASSUME On("fsevent"), ~stop, ~stop'
               PROVE  /\ Behind(last_event_id)'
                      /\ stream'.live => Behind(stream.newest)'
                      /\ call'.pc = "create" => Behind(since)'
                      /\ \A n \in callback'.ids : Behind(n)'
                      /\ \A i \in DOMAIN log' : log'[i].owed => \E r \in fsroots' : Reaches(r, TRUE, log'[i].dir)
                      /\ callback'.pc = "idle" => callback'.ids = {}
  BY <1>1 DEF FsDelivers, On, Behind, Reaches, IsParentOf, SameUpTo, Sep
<1>3. /\ Behind(last_event_id)
      /\ stream.live => Behind(stream.newest)
      /\ call.pc = "create" => Behind(since)
      /\ \A n \in callback.ids : Behind(n)
      /\ \A i \in DOMAIN log : log[i].owed => \E r \in fsroots : Reaches(r, TRUE, log[i].dir)
      /\ callback.pc = "idle" => callback.ids = {}
  BY <1>2 DEF FsDelivers
<1>4. /\ last_event_id \in Nat /\ since \in Nat /\ Len(log) \in Nat
      /\ stream \in [live : BOOLEAN, paths : SUBSET Dir, newest : Nat]
      /\ callback \in [pc : {"idle", "record", "process"}, ids : SUBSET Nat]
      /\ last_event_id <= Len(log) /\ since <= Len(log) /\ stream.newest <= Len(log)
      /\ callback.ids \subseteq DOMAIN log
      /\ call \in [pc : {"none", "called", "resume", "create", "done"}, path : Dir \cup {<<>>},
                   recursive : BOOLEAN, ok : BOOLEAN]
  BY DEF TypeInv, TypeOK, RootsTypes, FsTypes, WatchTypes, OnlyHappened
<1>5. /\ DOMAIN log = 1 .. Len(log) /\ callback.ids \subseteq Nat /\ stream.newest \in Nat
      /\ \A n \in callback.ids : n \in Nat /\ n <= Len(log)
  <2>1. DOMAIN log = 1 .. Len(log)
    BY DEF TypeInv, TypeOK, WatchTypes
  <2>2. QED BY <1>4, <2>1
<1>6. seen \cup callback.ids \subseteq seen' \cup callback'.ids
  BY <1>2, BatchStays DEF FsDelivers
<1>7. /\ Behind(last_event_id) => \A n : n = last_event_id => Behind(n)'
      /\ stream.live => \A n : n = stream.newest => Behind(n)'
      /\ call.pc = "create" => \A n : n = since => Behind(n)'
      /\ \A n \in callback.ids : Behind(n)'
  <2>1. ASSUME NEW n \in Nat, n <= Len(log), Behind(n) PROVE Behind(n)'
    BY <1>6, <2>1, BehindStays
  <2>2. QED BY <1>3, <1>4, <1>5, <2>1
<1>8. ASSUME NEW i \in DOMAIN log', log'[i].owed PROVE \E r \in fsroots' : Reaches(r, TRUE, log'[i].dir)
  <2>1. fsroots \subseteq fsroots'
    BY FsFrame DEF fsVars, Fs!fsVars, Fs!Backend, Fs!WatchNothing, Fs!WatchRoot, Fs!Resume, Fs!Create,
                   Fs!Callback, Fs!Deliver, Fs!RecordId, Fs!ProcessEvents, Fs!TearDown
  <2>2. CASE i \in DOMAIN log /\ log'[i] = log[i]
    <3>1. \E r \in fsroots : Reaches(r, TRUE, log[i].dir)
      BY <1>3, <1>8, <2>2
    <3>2. QED BY <2>1, <2>2, <3>1
  <2>3. CASE Change
    <3>1. PICK d \in scene.at :
           /\ \A n \in DOMAIN log' : n \in DOMAIN log \/ n = Len(log) + 1
           /\ \A n \in DOMAIN log : n \in DOMAIN log' /\ log'[n] = log[n] /\ n <= Len(log)
           /\ log'[Len(log) + 1].dir = d /\ (log'[Len(log) + 1].owed <=> d \in watched)
           /\ d \in watched => Backed(d)
      BY <2>3, ChangeIsBacked
    <3>2. CASE i = Len(log) + 1
      <4>1. log'[i].dir = d /\ Backed(d)
        BY <1>8, <3>1, <3>2
      <4>2. \E r \in fsroots : Reaches(r, TRUE, d)
        BY <1>2, <4>1 DEF Backed
      <4>3. QED BY <2>1, <4>1, <4>2
    <3>3. QED BY <2>2, <3>1, <3>2
  <2>4. CASE ~Change
    BY <2>2, <2>4, SeenStays
  <2>5. QED BY <2>3, <2>4
<1>9. CASE ~Fs!Backend /\ ~Fs!Callback(scene.failures)
  <2>1. UNCHANGED fsVars
    <3>1. ~Fs!TearDown
      BY <1>2 DEF Fs!TearDown, TypeInv, StopControl
    <3>2. QED BY <1>9, <3>1, FsFrame
  <2>2. call'.pc = "create" => call.pc = "create"
    <3>1. CASE call' = call
      BY <3>1
    <3>2. CASE call'.pc = "called"
      BY <3>2
    <3>3. CASE Return
      BY <3>3 DEF Return, NoCall
    <3>4. QED BY <1>2, <1>9, <3>1, <3>2, <3>3, CallFrame DEF OfInotify, On
  <2>3. UNCHANGED <<fsroots, stream, last_event_id, since, callback>>
    BY <2>1 DEF fsVars
  <2>4. QED BY <1>3, <1>7, <1>8, <2>2, <2>3 DEF Behind
<1>10. CASE Fs!WatchNothing \/ Fs!WatchRoot
  <2>1. UNCHANGED <<last_event_id, since, callback>> /\ (stream' = stream \/ ~stream'.live)
        /\ call'.pc # "create"
    BY <1>4, <1>10 DEF Fs!WatchNothing, Fs!WatchRoot, Fs!fsVars, Fs!Go, Fs!NoStream
  <2>2. QED BY <1>3, <1>7, <1>8, <2>1 DEF Behind
<1>11. CASE Fs!Resume
  <2>1. UNCHANGED <<stream, callback, log, seen>> /\ ~stream.live
    BY <1>2, <1>11 DEF Fs!Resume, StreamControl, Fs!Rebuilding
  <2>2. last_event_id' = since' /\ (last_event_id # 0 => since' = last_event_id)
    BY <1>11 DEF Fs!Resume, Fs!ResumeFrom
  <2>3. last_event_id = 0 => \A i \in DOMAIN log' : ~log'[i].owed
    BY <1>2, <2>1 DEF FsBegins
  <2>4. last_event_id # 0 => Behind(last_event_id)'
    BY <1>3, <1>7, <2>2 DEF Behind
  <2>5. last_event_id = 0 => Behind(last_event_id)'
    BY <2>3 DEF Behind
  <2>6. Behind(last_event_id)' /\ Behind(since)'
    BY <2>2, <2>4, <2>5 DEF Behind
  <2>7. QED BY <1>3, <1>7, <1>8, <2>1, <2>6
<1>12. CASE Fs!Create
  <2>1. UNCHANGED <<last_event_id, since, callback>> /\ stream'.newest = since /\ call'.pc = "done"
        /\ call.pc = "create"
    BY <1>4, <1>12 DEF Fs!Create, Fs!Go
  <2>2. Behind(stream.newest)' /\ Behind(last_event_id)'
    BY <1>3, <1>7, <2>1 DEF Behind
  <2>3. QED BY <1>3, <1>7, <1>8, <2>1, <2>2
<1>13. CASE Fs!Deliver
  <2>1. PICK newest \in Fs!Undelivered :
          /\ callback' = [pc |-> "record", ids |-> {i \in Fs!Undelivered : i <= newest}]
          /\ stream' = [stream EXCEPT !.newest = newest]
    BY <1>13 DEF Fs!Deliver
  <2>2. UNCHANGED <<call, log, seen, last_event_id, since>> /\ stream.live /\ callback.ids = {}
    BY <1>3, <1>13 DEF Fs!Deliver
  <2>3. call.pc # "create" /\ stream.paths = fsroots
    BY <1>2, <2>2 DEF StreamControl, Fs!Rebuilding
  <2>4. \A n \in Fs!Undelivered : n \in Nat
    BY <1>4, <1>5 DEF Fs!Undelivered
  <2>5. ASSUME NEW i \in DOMAIN log, log[i].owed, i <= newest PROVE i \in seen \cup callback'.ids
    <3>1. CASE i <= stream.newest
      BY <1>3, <2>2, <2>5, <3>1 DEF Behind
    <3>2. CASE ~(i <= stream.newest)
      <4>1. i \in stream.newest + 1 .. Len(log)
        BY <1>4, <1>5, <3>2
      <4>2. PICK r \in stream.paths : Reaches(r, TRUE, log[i].dir)
        BY <1>3, <2>3, <2>5
      <4>3. i \in Fs!Undelivered
        BY <4>1, <4>2, SameReaches DEF Fs!Undelivered
      <4>4. QED BY <2>1, <2>5, <4>3
    <3>3. QED BY <3>1, <3>2
  <2>6. ASSUME NEW n \in Nat, n <= newest PROVE Behind(n)'
    <3>1. ASSUME NEW i \in DOMAIN log, log[i].owed, i <= n PROVE i \in seen \cup callback'.ids
      <4>1. i <= newest
        BY <1>5, <2>4, <2>6, <3>1
      <4>2. QED BY <2>5, <3>1, <4>1
    <3>2. QED BY <2>2, <3>1 DEF Behind
  <2>7. \A n \in callback'.ids : n \in Nat /\ n <= newest
    BY <2>1, <2>4
  <2>8. Behind(stream.newest)'
    <3>1. stream'.newest = newest /\ newest \in Nat
      BY <1>4, <2>1, <2>4
    <3>2. Behind(newest)'
      BY <2>6, <3>1
    <3>3. QED BY <3>1, <3>2 DEF Behind
  <2>9. Behind(last_event_id)'
    BY <1>3, <1>7, <2>2 DEF Behind
  <2>10. callback'.pc = "record"
    BY <2>1
  <2>11. QED BY <1>8, <2>2, <2>3, <2>6, <2>7, <2>8, <2>9, <2>10
<1>14. CASE Fs!RecordId
  <2>1. PICK n \in callback.ids : \A i \in callback.ids : i <= n
    BY <1>14 DEF Fs!RecordId, TypeInv, CallbackControl
  <2>2. \A i \in callback.ids : n >= i
    BY <1>5, <2>1
  <2>3. last_event_id' \in callback.ids
    BY <1>14, <2>1, <2>2 DEF Fs!RecordId, Fs!Max
  <2>4. UNCHANGED <<call, stream, since>> /\ callback'.ids = callback.ids /\ callback'.pc = "process"
    BY <1>4, <1>14 DEF Fs!RecordId
  <2>5. Behind(last_event_id)'
    BY <1>7, <2>3 DEF Behind
  <2>6. stream'.live => Behind(stream.newest)'
    BY <1>7, <2>4 DEF Behind
  <2>7. call'.pc = "create" => Behind(since)'
    BY <1>7, <2>4 DEF Behind
  <2>8. QED BY <1>7, <1>8, <2>4, <2>5, <2>6, <2>7
<1>15. CASE Fs!ProcessEvents(scene.failures)
  <2>1. UNCHANGED <<call, stream, since, last_event_id>> /\ callback'.ids = {}
    BY <1>15 DEF Fs!ProcessEvents
  <2>2. Behind(last_event_id)'
    BY <1>3, <1>7, <2>1 DEF Behind
  <2>3. stream'.live => Behind(stream.newest)'
    BY <1>7, <2>1 DEF Behind
  <2>4. call'.pc = "create" => Behind(since)'
    BY <1>7, <2>1 DEF Behind
  <2>5. QED BY <1>8, <2>1, <2>2, <2>3, <2>4
<1>16. QED BY <1>9, <1>10, <1>11, <1>12, <1>13, <1>14, <1>15 DEF Fs!Backend, Fs!Callback

\* Windows: the thread rearms a watch once it has reported, and waits with nothing.
WorkReported ==
  (On("windows") /\ ~stop) => /\ thread.pc = "rearm" => thread.work.ids \subseteq seen
                              /\ thread.pc = "wait" => thread.work.ids = {}

\* What is owed is reported or on its way, unless a watch has lost its read.
WinKeeps ==
  (On("windows") /\ ~stop /\ ~Broken) =>
    \A i \in DOMAIN log : log[i].owed => i \in seen \/ Win!OnItsWay(i)

LEMMA WorkReportedStep ==
  ASSUME TypeInv, WorkReported, [Next]_vars
  PROVE  WorkReported'
<1>1. scene' = scene /\ (stop => stop') /\ seen \subseteq seen'
  BY StopStays, SeenStays
<1>2. SUFFICES ASSUME On("windows"), ~stop, ~stop'
               PROVE  /\ thread'.pc = "rearm" => thread'.work.ids \subseteq seen'
                      /\ thread'.pc = "wait" => thread'.work.ids = {}
  BY <1>1 DEF WorkReported, On
<1>3. /\ thread.pc = "rearm" => thread.work.ids \subseteq seen
      /\ thread.pc = "wait" => thread.work.ids = {}
  BY <1>2 DEF WorkReported
<1>4. thread \in Thread /\ port \in Seq(Completion)
  BY WinTypesAre DEF TypeInv, TypeOK
<1>5. CASE thread' = thread
  BY <1>1, <1>3, <1>5
<1>6. CASE Win!Dequeue
  <2>1. 1 \in DOMAIN port /\ thread' = [pc |-> port[1].kind, work |-> port[1]]
    BY <1>4, <1>6, DequeueTypes
  <2>2. thread'.pc \in {"records", "overflow", "failed"}
    BY <1>2, <2>1 DEF TypeInv, PortControl
  <2>3. QED BY <2>2
<1>7. CASE Win!Failed \/ Win!Gone \/ Win!Rearm(scene.failures) \/ Win!Overflow(scene.failures)
  <2>1. thread' = [pc |-> "wait", work |-> Win!Nothing]
    BY <1>7 DEF Win!Failed, Win!Gone, Win!Rearm, Win!Overflow, Win!Rewait
  <2>2. QED BY <2>1 DEF Win!Nothing
<1>8. CASE Win!CopyRecords
  BY <1>4, <1>8 DEF Win!CopyRecords, Thread
<1>9. CASE Win!HandleRecords
  BY <1>4, <1>9 DEF Win!HandleRecords, Thread
<1>10. CASE Win!Exit
  BY <1>2, <1>10 DEF Win!Exit
<1>11. CASE Win!Backend(scene.failures) \/ Win!System(scene.failures) \/ Win!Shutdown \/ Change \/ UNCHANGED winVars
  <2>1. thread' = thread
    BY <1>11 DEF Win!Backend, Win!WatchNothing, Win!WatchRoot, Win!WatchFails, Win!winVars, Win!System,
                 Win!ReadCompletes, Win!ReadFails, Win!EndRead, Win!Shutdown, Win!Post, Win!Cancel, Win!Clear,
                 Win!ClosePort, Change, winVars
  <2>2. QED BY <1>5, <2>1
<1>12. QED BY <1>6, <1>7, <1>8, <1>9, <1>10, <1>11, WinFrame DEF Win!Thread

\* A read that failed is not issued again; nothing else is forgotten.
LEMMA ReadOnItsWay ==
  ASSUME TypeInv, OneHolder, WorkReported, [Next]_vars, On("windows"), ~stop, ~stop'
  PROVE  /\ \A k \in DOMAIN wroots : wroots[k].read = "failed" => k \in DOMAIN wroots' /\ wroots'[k].read = "failed"
         /\ \A i : Win!OnItsWay(i) => i \in seen' \/ Win!OnItsWay(i)'
<1>1. wroots \in Seq(Watch) /\ port \in Seq(Completion) /\ thread \in Thread
  BY WinTypesAre DEF TypeInv, TypeOK
<1>2. seen \subseteq seen'
  BY SeenStays
<1>3. /\ thread.pc = "rearm" => thread.work.ids \subseteq seen
      /\ thread.pc = "wait" => thread.work.ids = {}
  BY DEF WorkReported
<1>4. ASSUME UNCHANGED <<wroots, port>>, thread'.work.ids = thread.work.ids \/ thread.work.ids \subseteq seen'
      PROVE  /\ \A k \in DOMAIN wroots : wroots[k].read = "failed" => k \in DOMAIN wroots' /\ wroots'[k].read = "failed"
             /\ \A i : Win!OnItsWay(i) => i \in seen' \/ Win!OnItsWay(i)'
  BY <1>4 DEF Win!OnItsWay
<1>5. CASE Win!WatchRoot
  <2>1. call.path \in Dir /\ call.recursive \in BOOLEAN
    BY <1>5 DEF Win!WatchRoot, TypeInv, TypeOK, RootsTypes, RootsControl
  <2>2. Len(wroots) \in Nat /\ DOMAIN wroots = 1 .. Len(wroots)
    BY <1>1
  <2>3. DOMAIN wroots' = 1 .. Len(wroots) + 1 /\ \A k \in DOMAIN wroots : wroots'[k] = wroots[k]
    BY <1>1, <1>5, <2>1, WatchRootTypes
  <2>4. \A k \in DOMAIN wroots : k \in DOMAIN wroots' /\ wroots'[k] = wroots[k]
    BY <2>2, <2>3
  <2>5. UNCHANGED <<port, thread>>
    BY <1>5 DEF Win!WatchRoot
  <2>6. QED BY <2>4, <2>5 DEF Win!OnItsWay
<1>6. CASE Win!System(scene.failures)
  <2>1. PICK k \in DOMAIN wroots : Win!ReadCompletes(k) \/ Win!ReadFails(k)
    BY <1>6 DEF Win!System
  <2>2. PICK read \in {"ended", "failed"}, kind \in {"records", "overflow", "failed"} :
        /\ kind = "failed" <=> read = "failed"
        /\ wroots[k].read = "armed" /\ thread' = thread
        /\ wroots' \in Seq(Watch) /\ DOMAIN wroots' = DOMAIN wroots
        /\ wroots'[k].held = {} /\ wroots'[k].read = read
        /\ wroots'[k].path = wroots[k].path /\ wroots'[k].recursive = wroots[k].recursive
        /\ \A j \in DOMAIN wroots \ {k} : wroots'[j] = wroots[j]
        /\ port' \in Seq(Completion) /\ DOMAIN port' = 1 .. Len(port) + 1 /\ Len(port) \in Nat
        /\ \A n \in DOMAIN port : port'[n] = port[n]
        /\ port'[Len(port) + 1] = [kind |-> kind, key |-> k, ids |-> wroots[k].held]
    BY <1>1, <2>1, ReadEnds
  <2>3. \A j \in DOMAIN wroots : wroots[j].read = "failed" => j \in DOMAIN wroots' /\ wroots'[j].read = "failed"
    BY <2>2
  <2>4. /\ \A n \in DOMAIN port : n \in DOMAIN port' /\ port'[n].ids = port[n].ids
        /\ Len(port) + 1 \in DOMAIN port' /\ port'[Len(port) + 1].ids = wroots[k].held
    <3>1. \A n \in DOMAIN port : n \in DOMAIN port'
      BY <1>1, <2>2
    <3>2. Len(port) + 1 \in DOMAIN port'
      BY <2>2
    <3>3. QED BY <2>2, <3>1, <3>2
  <2>5. ASSUME NEW i, Win!OnItsWay(i) PROVE Win!OnItsWay(i)'
    <3>1. CASE \E j \in DOMAIN wroots : i \in wroots[j].held
      <4>1. PICK j \in DOMAIN wroots : i \in wroots[j].held
        BY <3>1
      <4>2. CASE j = k
        BY <2>4, <4>1, <4>2 DEF Win!OnItsWay
      <4>3. CASE j # k
        BY <2>2, <4>1, <4>3 DEF Win!OnItsWay
      <4>4. QED BY <4>2, <4>3
    <3>2. CASE \E n \in DOMAIN port : i \in port[n].ids
      BY <2>4, <3>2 DEF Win!OnItsWay
    <3>3. CASE i \in thread.work.ids
      BY <2>2, <3>3 DEF Win!OnItsWay
    <3>4. QED BY <2>5, <3>1, <3>2, <3>3 DEF Win!OnItsWay
  <2>6. QED BY <2>3, <2>5
<1>7. CASE Win!Dequeue
  <2>1. /\ DOMAIN port' = 1 .. Len(port) - 1 /\ Len(port) \in Nat /\ DOMAIN port = 1 .. Len(port)
        /\ \A n \in DOMAIN port' : n + 1 \in DOMAIN port /\ port'[n] = port[n + 1]
        /\ thread'.work = port[1]
    BY <1>1, <1>7, DequeueTypes
  <2>2. wroots' = wroots /\ thread.work.ids = {}
    BY <1>3, <1>7 DEF Win!Dequeue
  <2>3. \A n \in DOMAIN port : n = 1 \/ (n - 1 \in DOMAIN port' /\ port'[n - 1] = port[n])
    <3>1. \A n \in DOMAIN port : n = 1 \/ n - 1 \in DOMAIN port'
      BY <2>1
    <3>2. \A n \in DOMAIN port : (n - 1) + 1 = n
      BY <2>1
    <3>3. QED BY <2>1, <3>1, <3>2
  <2>4. ASSUME NEW i, \E n \in DOMAIN port : i \in port[n].ids
        PROVE  (\E n \in DOMAIN port' : i \in port'[n].ids) \/ i \in thread'.work.ids
    BY <2>1, <2>3, <2>4
  <2>5. ASSUME NEW i, Win!OnItsWay(i) PROVE Win!OnItsWay(i)'
    BY <2>2, <2>4, <2>5 DEF Win!OnItsWay
  <2>6. QED BY <2>2, <2>5
<1>8. CASE Win!Rearm(scene.failures) \/ Win!Overflow(scene.failures)
  <2>1. PICK ok \in BOOLEAN : Win!IssueRead(thread.work.key, ok)
    BY <1>8, SceneTypes DEF Win!Rearm, Win!Overflow, TypeInv, TypeOK, WatchTypes
  <2>2. thread.work.key \in DOMAIN wroots /\ thread.pc \in {"rearm", "overflow"} /\ port' = port
    BY <1>8 DEF Win!Rearm, Win!Overflow
  <2>3. /\ DOMAIN wroots' = DOMAIN wroots
        /\ wroots'[thread.work.key].held = wroots[thread.work.key].held
        /\ \A j \in DOMAIN wroots \ {thread.work.key} : wroots'[j] = wroots[j]
    BY <1>1, <2>1, <2>2, IssueReadTypes
  <2>4. wroots[thread.work.key].read # "failed"
    BY <2>2 DEF OneHolder
  <2>5. thread.work.ids \subseteq seen'
    BY <1>2, <1>3, <1>8 DEF Win!Rearm, Win!Overflow
  <2>6. \A i : Win!OnItsWay(i) => i \in seen' \/ Win!OnItsWay(i)'
    BY <2>2, <2>3, <2>5 DEF Win!OnItsWay
  <2>7. QED BY <2>3, <2>4, <2>6
<1>9. CASE Change
  <2>1. PICK d \in scene.at : Win!Collect(d, Len(log'))
    BY <1>9 DEF Change
  <2>2. Len(log') \in Nat
    BY <1>9, ChangeTypes DEF TypeInv
  <2>3. DOMAIN wroots' = DOMAIN wroots
        /\ \A k \in DOMAIN wroots : wroots'[k].read = wroots[k].read /\ wroots[k].held \subseteq wroots'[k].held
    BY <1>1, <2>1, <2>2, CollectTypes
  <2>4. UNCHANGED <<port, thread>>
    BY <1>9 DEF Change
  <2>5. QED BY <2>3, <2>4 DEF Win!OnItsWay
<1>10. CASE Win!Shutdown
  BY <1>10 DEF Win!Shutdown, Win!Post, Win!Cancel, Win!Clear, Win!ClosePort, TypeInv, StopControl
<1>11. CASE Win!WatchNothing \/ Win!WatchFails(scene.failures) \/ UNCHANGED winVars
  <2>1. UNCHANGED <<wroots, port, thread>>
    BY <1>11 DEF Win!WatchNothing, Win!WatchFails, Win!winVars, winVars
  <2>2. QED BY <1>4, <2>1
<1>12. CASE Win!Failed
  <2>1. UNCHANGED <<wroots, port>> /\ thread.work.ids \subseteq seen'
    BY <1>12 DEF Win!Failed
  <2>2. QED BY <1>4, <2>1
<1>13. CASE Win!CopyRecords \/ Win!HandleRecords
  <2>1. UNCHANGED <<wroots, port>> /\ thread'.work.ids = thread.work.ids
    BY <1>1, <1>13 DEF Win!CopyRecords, Win!HandleRecords, Thread
  <2>2. QED BY <1>4, <2>1
<1>14. CASE Win!Gone \/ Win!Exit
  <2>1. ~Win!Gone
    BY DEF Win!Gone, OneHolder
  <2>2. ~Win!Exit
    BY DEF Win!Exit
  <2>3. QED BY <1>14, <2>1, <2>2
<1>15. QED BY <1>5, <1>6, <1>7, <1>8, <1>9, <1>10, <1>11, <1>12, <1>13, <1>14, WinFrame
           DEF Win!Backend, Win!Thread

LEMMA WinKeepsStep ==
  ASSUME TypeInv, ~stop => OneHolder, WorkReported, PromisesBacked, WinKeeps, [Next]_vars
  PROVE  WinKeeps'
<1>1. scene' = scene /\ (stop => stop') /\ seen \subseteq seen'
  BY StopStays, SeenStays
<1>2. SUFFICES ASSUME On("windows"), ~stop, ~stop', ~Broken', NEW i \in DOMAIN log', log'[i].owed
               PROVE  i \in seen' \/ Win!OnItsWay(i)'
  BY <1>1 DEF WinKeeps, On
<1>3. /\ \A k \in DOMAIN wroots : wroots[k].read = "failed" => k \in DOMAIN wroots' /\ wroots'[k].read = "failed"
      /\ \A n : Win!OnItsWay(n) => n \in seen' \/ Win!OnItsWay(n)'
  BY <1>2, ReadOnItsWay
<1>4. ~Broken
  BY <1>2, <1>3 DEF Broken, Win!Dead
<1>5. CASE i \in DOMAIN log /\ log'[i] = log[i]
  BY <1>1, <1>2, <1>3, <1>4, <1>5 DEF WinKeeps
<1>6. CASE Change
  <2>1. PICK d \in scene.at :
           /\ \A n \in DOMAIN log' : n \in DOMAIN log \/ n = Len(log) + 1
           /\ \A n \in DOMAIN log : n \in DOMAIN log' /\ log'[n] = log[n] /\ n <= Len(log)
           /\ log'[Len(log) + 1].dir = d /\ (log'[Len(log) + 1].owed <=> d \in watched)
           /\ Win!Collect(d, Len(log) + 1)
           /\ d \in watched => Backed(d)
    BY <1>6, ChangeIsBacked
  <2>2. CASE i = Len(log) + 1
    <3>1. Backed(d)
      BY <1>2, <2>1, <2>2
    <3>2. PICK k \in DOMAIN wroots : Reaches(wroots[k].path, wroots[k].recursive, d)
      BY <1>2, <3>1 DEF Backed
    <3>3. wroots \in Seq(Watch) /\ Len(log) + 1 \in Nat
      BY WinTypesAre DEF TypeInv, TypeOK, WatchTypes
    <3>4. DOMAIN wroots' = DOMAIN wroots
          /\ wroots'[k].held = IF Reaches(wroots[k].path, wroots[k].recursive, d) /\ wroots[k].read # "failed"
                                 THEN wroots[k].held \cup {Len(log) + 1} ELSE wroots[k].held
      BY <2>1, <3>3, CollectTypes
    <3>5. wroots[k].read # "failed"
      BY <1>4 DEF Broken, Win!Dead
    <3>6. k \in DOMAIN wroots' /\ i \in wroots'[k].held
      BY <2>2, <3>2, <3>4, <3>5
    <3>7. QED BY <3>6 DEF Win!OnItsWay
  <2>3. QED BY <1>5, <2>1, <2>2
<1>7. CASE ~Change
  BY <1>2, <1>5, <1>7, SeenStays
<1>8. QED BY <1>6, <1>7

DeliveryInv == /\ LogBegun /\ (~stop => OneHolder)
               /\ InotifyReports /\ FsBegins /\ FsDelivers /\ WorkReported /\ WinKeeps

LEMMA DeliveryInvInit ==
  ASSUME Init
  PROVE  DeliveryInv
<1>1. log = <<[dir |-> <<>>, owed |-> FALSE]>> /\ \A i \in DOMAIN log : ~log[i].owed
  BY DEF Init
<1>2. LogBegun
  BY <1>1 DEF LogBegun
<1>3. OneHolder
  BY DEF Init, Win!WinInit, Win!Nothing, OneHolder
<1>4. InotifyReports /\ WinKeeps
  BY <1>1 DEF InotifyReports, WinKeeps
<1>5. FsBegins /\ FsDelivers
  BY <1>1 DEF Init, RootsInit, Fs!FsInit, Fs!NoStream, FsBegins, FsDelivers, Behind
<1>6. WorkReported
  BY DEF Init, Win!WinInit, Win!Nothing, WorkReported
<1>7. QED BY <1>2, <1>3, <1>4, <1>5, <1>6 DEF DeliveryInv

LEMMA DeliveryInvStep ==
  ASSUME TypeInv, CoverInv, DeliveryInv, [Next]_vars
  PROVE  DeliveryInv'
<1> USE DEF DeliveryInv
<1>1. StreamControl /\ PromisesBacked
  BY DEF CoverInv
<1>2. LogBegun' /\ (~stop' => OneHolder')
  BY LogBegunStep, OneHolderStep
<1>3. InotifyReports' /\ FsBegins' /\ FsDelivers'
  BY <1>1, InotifyReportsStep, FsBeginsStep, FsDeliversStep
<1>4. WorkReported' /\ WinKeeps'
  BY <1>1, WorkReportedStep, WinKeepsStep
<1>5. QED BY <1>2, <1>3, <1>4

LEMMA DeliveryInvLosesNothing ==
  ASSUME TypeInv, StreamControl, DeliveryInv
  PROVE  NothingLost
<1>1. SUFFICES ASSUME NEW i \in DOMAIN log, log[i].owed, ~stop, ~Broken
               PROVE  \/ i \in seen
                      \/ On("fsevent") /\ Fs!OnItsWay(i)
                      \/ On("windows") /\ Win!OnItsWay(i)
  BY DEF NothingLost
<1>2. scene.backend \in {"inotify", "fsevent", "windows"}
  BY SceneTypes DEF TypeInv, TypeOK, WatchTypes
<1>3. CASE On("inotify")
  BY <1>1, <1>3 DEF DeliveryInv, InotifyReports
<1>4. CASE On("windows")
  BY <1>1, <1>4 DEF DeliveryInv, WinKeeps
<1>5. CASE On("fsevent")
  <2>1. /\ last_event_id \in Nat /\ since \in Nat /\ stream.newest \in Nat /\ stream.live \in BOOLEAN
        /\ i \in Nat
    BY DEF TypeInv, TypeOK, FsTypes, WatchTypes
  <2>2. /\ Behind(last_event_id)
        /\ stream.live => Behind(stream.newest)
        /\ call.pc = "create" => Behind(since)
        /\ \E r \in fsroots : Reaches(r, TRUE, log[i].dir)
    BY <1>1, <1>5 DEF DeliveryInv, FsDelivers
  <2>3. stream.live \/ Fs!Rebuilding
    BY <1>1, <1>5, <2>2 DEF StreamControl
  <2>4. Behind(Fs!Position) /\ Fs!Position \in Nat
    <3>1. CASE stream.live
      <4>1. ~(call.pc = "create")
        BY <1>5, <3>1 DEF StreamControl, Fs!Rebuilding
      <4>2. Fs!Position = stream.newest
        BY <3>1, <4>1 DEF Fs!Position
      <4>3. QED BY <2>1, <2>2, <3>1, <4>2
    <3>2. CASE ~stream.live /\ call.pc = "create"
      <4>1. Fs!Position = since
        BY <3>2 DEF Fs!Position
      <4>2. QED BY <2>1, <2>2, <3>2, <4>1
    <3>3. CASE ~stream.live /\ call.pc # "create"
      <4>1. Fs!Position = last_event_id
        BY <3>3 DEF Fs!Position
      <4>2. QED BY <2>1, <2>2, <4>1
    <3>4. QED BY <3>1, <3>2, <3>3
  <2>5. CASE i <= Fs!Position
    BY <1>1, <1>5, <2>4, <2>5 DEF Behind, Fs!OnItsWay
  <2>6. CASE i > Fs!Position
    BY <1>5, <2>3, <2>6 DEF Fs!OnItsWay
  <2>7. QED BY <2>1, <2>4, <2>5, <2>6
<1>6. QED BY <1>2, <1>3, <1>4, <1>5 DEF On

\* No change in a directory that watch_dir succeeded for is lost, though streams are
\* replaced and reads end (fsevent.rs:180-219, 302-376, windows.rs:107-164, 283-331).
THEOREM NoWatchedChangeIsLost == Spec => []NothingLost
<1>1. Init => TypeInv /\ RootsInv /\ CoverInv /\ DeliveryInv
  BY TypeInvInit, CoverInvInit, DeliveryInvInit
<1>2. TypeInv /\ RootsInv /\ CoverInv /\ DeliveryInv /\ [Next]_vars
        => (TypeInv /\ RootsInv /\ CoverInv /\ DeliveryInv)'
  BY TypeInvStep, CoverInvStep, DeliveryInvStep
<1>3. TypeInv /\ CoverInv /\ DeliveryInv => NothingLost
  BY DeliveryInvLosesNothing DEF CoverInv
<1>4. QED BY <1>1, <1>2, <1>3, PTL DEF Spec
==============================================================================
