-------------------------- MODULE RootWatch_proofs ---------------------------
(***************************************************************************)
(* Proofs about RootWatch, for any directories and scenes: which variables *)
(* each step leaves alone, type correctness, the list of roots (from       *)
(* RootsInv), shutdown, and the reads of the Windows backend.              *)
(* RootWatchCover_proofs goes on with what is watched and reported.        *)
(***************************************************************************)
EXTENDS RootWatch, Roots_proofs

LEMMA SceneTypes ==
  ASSUME scene \in Scenes
  PROVE  /\ scene.backend \in {"inotify", "fsevent", "windows"}
         /\ scene.asks \subseteq Request /\ scene.max \in Nat
         /\ scene.filters \subseteq SUBSET Dir /\ scene.at \subseteq Dir /\ scene.changes \in Nat
         /\ scene.failures \in BOOLEAN /\ scene.refilters \in Nat
BY ScenesAssumption DEF Scene

------------------------------------------------------------------------------
(* What the steps leave alone *)

\* For the worker and its list every step is one of RootsStep.
LEMMA NextIsRootsStep ==
  ASSUME TypeOK, [Next]_vars
  PROVE  RootsStep
<1> USE DEF TypeOK, RootsTypes, WatchTypes
<1>1. CASE WorkerStep
  BY <1>1 DEF WorkerStep, RootsStep
<1>2. CASE OfInotify(InotifyWatch)
  <2>1. call.pc = "called" /\ UNCHANGED workerOnly /\ UNCHANGED <<recrawl, stop>>
    BY <1>2 DEF OfInotify, InotifyWatch
  <2>2. \/ call' = [call EXCEPT !.pc = "done"]
        \/ call' = [call EXCEPT !.pc = "done", !.ok = FALSE]
    BY <1>2 DEF OfInotify, InotifyWatch
  <2>3. \E ok \in BOOLEAN : call' = [call EXCEPT !.pc = "done", !.ok = ok]
    <3>1. call.ok \in BOOLEAN /\ [call EXCEPT !.pc = "done"] = [call EXCEPT !.pc = "done", !.ok = call.ok]
      OBVIOUS
    <3>2. QED BY <2>2, <3>1
  <2>4. QED BY <2>1, <2>3 DEF RootsStep, BackendAnswers
<1>3. CASE OfFsEvents(Fs!Backend)
  <2>1. call.pc \in {"called", "resume", "create"} /\ UNCHANGED workerOnly /\ UNCHANGED <<recrawl, stop>>
    BY <1>3 DEF OfFsEvents, Fs!Backend, Fs!WatchNothing, Fs!WatchRoot, Fs!Resume, Fs!Create
  <2>2. \E pc \in {"resume", "create", "done"} : call' = [call EXCEPT !.pc = pc]
    BY <1>3 DEF OfFsEvents, Fs!Backend, Fs!WatchNothing, Fs!WatchRoot, Fs!Resume, Fs!Create, Fs!Go
  <2>3. \E pc \in {"resume", "create", "done"}, ok \in BOOLEAN : call' = [call EXCEPT !.pc = pc, !.ok = ok]
    <3>1. PICK pc \in {"resume", "create", "done"} : call' = [call EXCEPT !.pc = pc]
      BY <2>2
    <3>2. call.ok \in BOOLEAN /\ call' = [call EXCEPT !.pc = pc, !.ok = call.ok]
      BY <3>1
    <3>3. QED BY <3>2
  <2>4. QED BY <2>1, <2>3 DEF RootsStep, BackendAnswers
<1>4. CASE OfWindows(Win!Backend(scene.failures))
  <2>1. call.pc = "called" /\ UNCHANGED workerOnly /\ UNCHANGED <<recrawl, stop>>
    BY <1>4 DEF OfWindows, Win!Backend, Win!WatchNothing, Win!WatchRoot, Win!WatchFails
  <2>2. \E ok \in BOOLEAN : call' = [call EXCEPT !.pc = "done", !.ok = ok]
    BY <1>4 DEF OfWindows, Win!Backend, Win!WatchNothing, Win!WatchRoot, Win!WatchFails, Win!Returns
  <2>3. QED BY <2>1, <2>2 DEF RootsStep, BackendAnswers
<1>5. CASE OfFsEvents(Fs!Callback(scene.failures))
  <2>1. UNCHANGED workerOnly /\ UNCHANGED <<call, stop>> /\ recrawl' \in BOOLEAN /\ (recrawl => recrawl')
    BY <1>5, SceneTypes DEF OfFsEvents, Fs!Callback, Fs!Deliver, Fs!RecordId, Fs!ProcessEvents
  <2>2. QED BY <2>1 DEF RootsStep, BackendAnswers
<1>6. CASE OfWindows(Win!Thread(scene.failures)) \/ System
  <2>1. UNCHANGED workerOnly /\ UNCHANGED <<call, stop>> /\ recrawl' \in BOOLEAN /\ (recrawl => recrawl')
    BY <1>6 DEF System, OfWindows, Win!Thread, Win!Exit, Win!Dequeue, Win!Failed, Win!Gone,
                Win!CopyRecords, Win!HandleRecords, Win!Rearm, Win!Overflow,
                Win!System, Win!ReadCompletes, Win!ReadFails, Win!EndRead
  <2>2. QED BY <2>1 DEF RootsStep, BackendAnswers
<1>7. CASE CallShutdown \/ Shutdown
  <2>1. UNCHANGED workerOnly /\ UNCHANGED <<call, recrawl>> /\ stop' \in BOOLEAN
    BY <1>7 DEF CallShutdown, Shutdown, OfInotify, OfFsEvents, OfWindows, InotifyShutdown,
                Fs!StoreShutdown, Fs!TearDown, Win!SwapShutdown, Win!Shutdown, Win!Post, Win!Cancel,
                Win!Clear, Win!ClosePort
  <2>2. QED BY <2>1 DEF RootsStep, BackendAnswers
<1>8. CASE Ask
  BY <1>8, SceneTypes DEF Ask, RootsStep
<1>9. CASE ChangeFilter
  BY <1>9, SceneTypes DEF ChangeFilter, RootsStep
<1>10. CASE Change \/ UNCHANGED vars
  BY <1>10 DEF Change, vars, rootsVars, workerOnly, RootsStep, BackendAnswers
<1>11. QED BY <1>1, <1>2, <1>3, <1>4, <1>5, <1>6, <1>7, <1>8, <1>9, <1>10
          DEF Next, Program, WatchDir, EventThread

\* The scene stays; what is asked for and which filters are set comes from it.
LEMMA OutsideStep ==
  ASSUME [Next]_vars
  PROVE  /\ scene' = scene
         /\ asked' = asked \/ \E r \in scene.asks : asked' = Append(asked, r)
         /\ filter' = filter \/ filter' \in scene.filters
         /\ refiltered' = refiltered \/ (refiltered < scene.refilters /\ refiltered' = refiltered + 1)
<1>1. CASE Ask \/ ChangeFilter
  BY <1>1 DEF Ask, ChangeFilter, outside, AddRoot, SetFilter
<1>2. CASE WorkerStep
  BY <1>2 DEF WorkerStep, Worker, outside, TakeRequests, KnownRoot, InvalidRoot, NewRoot, RootRefused, CrawlRoot,
              WatchNext, Watched, ListRoot, Recrawl, CrawlNext, RecrawlDone
<1>3. CASE WatchDir \/ EventThread \/ System \/ CallShutdown \/ Shutdown
  BY <1>3 DEF WatchDir, EventThread, System, CallShutdown, Shutdown, OfInotify, OfFsEvents, OfWindows,
              outside, workerOnly
<1>4. CASE Change \/ UNCHANGED vars
  BY <1>4 DEF Change, outside, vars, rootsVars
<1>5. QED BY <1>1, <1>2, <1>3, <1>4 DEF Next, Program

\* FSEvents: only its own steps touch its variables.
LEMMA FsFrame ==
  ASSUME [Next]_vars
  PROVE  \/ UNCHANGED fsVars
         \/ On("fsevent") /\ (Fs!Backend \/ Fs!Callback(scene.failures) \/ Fs!TearDown)
<1>1. CASE WatchDir \/ EventThread \/ System \/ Shutdown
  BY <1>1 DEF WatchDir, EventThread, System, Shutdown, OfInotify, OfFsEvents, OfWindows
<1>2. CASE CallShutdown
  BY <1>2 DEF CallShutdown, OfInotify, OfFsEvents, OfWindows, Fs!StoreShutdown, fsVars, Fs!fsVars
<1>3. CASE WorkerStep \/ Ask \/ ChangeFilter \/ Change \/ UNCHANGED vars
  BY <1>3 DEF WorkerStep, Ask, ChangeFilter, Change, vars, backend
<1>4. QED BY <1>1, <1>2, <1>3 DEF Next, Program

\* Windows: only its own steps, but for a change that a handle collects.
LEMMA WinFrame ==
  ASSUME [Next]_vars
  PROVE  \/ UNCHANGED winVars
         \/ On("windows") /\ (\/ Win!Backend(scene.failures) \/ Win!Thread(scene.failures)
                              \/ Win!System(scene.failures) \/ Win!Shutdown)
         \/ Change
<1>1. CASE WatchDir \/ EventThread \/ System \/ Shutdown
  BY <1>1 DEF WatchDir, EventThread, System, Shutdown, OfInotify, OfFsEvents, OfWindows
<1>2. CASE CallShutdown
  BY <1>2 DEF CallShutdown, OfInotify, OfFsEvents, OfWindows, Win!SwapShutdown, winVars, Win!winVars
<1>3. CASE WorkerStep \/ Ask \/ ChangeFilter \/ UNCHANGED vars
  BY <1>3 DEF WorkerStep, Ask, ChangeFilter, vars, backend
<1>4. QED BY <1>1, <1>2, <1>3 DEF Next, Program

\* The changes and what is seen of them.
LEMMA HistoryFrame ==
  ASSUME [Next]_vars
  PROVE  /\ log' = log \/ Change
         /\ \/ seen' = seen
            \/ Change
            \/ On("fsevent") /\ Fs!ProcessEvents(scene.failures)
            \/ On("windows") /\ (Win!Failed \/ Win!HandleRecords \/ Win!Overflow(scene.failures))
         /\ watches' = watches \/ OfInotify(InotifyWatch)
<1>1. CASE WatchDir
  BY <1>1 DEF WatchDir, OfInotify, OfFsEvents, OfWindows, InotifyWatch,
              Fs!Backend, Fs!WatchNothing, Fs!WatchRoot, Fs!Resume, Fs!Create,
              Win!Backend, Win!WatchNothing, Win!WatchRoot, Win!WatchFails
<1>2. CASE EventThread
  BY <1>2 DEF EventThread, OfFsEvents, OfWindows, Fs!Callback, Fs!Deliver, Fs!RecordId, Fs!ProcessEvents,
              Win!Thread, Win!Exit, Win!Dequeue, Win!Failed, Win!Gone, Win!CopyRecords,
              Win!HandleRecords, Win!Rearm, Win!Overflow
<1>3. CASE System
  BY <1>3 DEF System, OfWindows, Win!System, Win!ReadCompletes, Win!ReadFails, Win!EndRead
<1>4. CASE CallShutdown \/ Shutdown
  BY <1>4 DEF CallShutdown, Shutdown, OfInotify, OfFsEvents, OfWindows, InotifyShutdown,
              Fs!StoreShutdown, Fs!TearDown, Win!SwapShutdown, Win!Shutdown, Win!Post, Win!Cancel,
              Win!Clear, Win!ClosePort
<1>5. CASE WorkerStep \/ Ask \/ ChangeFilter \/ Change \/ UNCHANGED vars
  BY <1>5 DEF WorkerStep, Ask, ChangeFilter, Change, vars, backend
<1>6. QED BY <1>1, <1>2, <1>3, <1>4, <1>5 DEF Next, Program

\* Shutdown begins once, with the flag.
LEMMA ShutFrame ==
  ASSUME [Next]_vars
  PROVE  \/ UNCHANGED <<stop, shut>>
         \/ /\ shut = "none" /\ stop' = TRUE
            /\ shut' = IF On("inotify") THEN "done" ELSE "flag"
            /\ UNCHANGED <<fsVars, winVars, call>>
         \/ /\ On("fsevent") /\ Fs!TearDown
            /\ stop' = stop
         \/ /\ On("windows") /\ Win!Shutdown
            /\ stop' = stop
<1>1. CASE WatchDir
  BY <1>1 DEF WatchDir, OfInotify, OfFsEvents, OfWindows, InotifyWatch,
              Fs!Backend, Fs!WatchNothing, Fs!WatchRoot, Fs!Resume, Fs!Create,
              Win!Backend, Win!WatchNothing, Win!WatchRoot, Win!WatchFails
<1>2. CASE EventThread
  BY <1>2 DEF EventThread, OfFsEvents, OfWindows, Fs!Callback, Fs!Deliver, Fs!RecordId, Fs!ProcessEvents,
              Win!Thread, Win!Exit, Win!Dequeue, Win!Failed, Win!Gone, Win!CopyRecords,
              Win!HandleRecords, Win!Rearm, Win!Overflow
<1>3. CASE System
  BY <1>3 DEF System, OfWindows, Win!System, Win!ReadCompletes, Win!ReadFails, Win!EndRead
<1>4. CASE CallShutdown
  BY <1>4 DEF CallShutdown, OfInotify, OfFsEvents, OfWindows, InotifyShutdown, On,
              Fs!StoreShutdown, Win!SwapShutdown, fsVars, Fs!fsVars, winVars, Win!winVars
<1>5. CASE Shutdown
  BY <1>5 DEF Shutdown, OfFsEvents, OfWindows, Fs!TearDown, Win!Shutdown, Win!Post, Win!Cancel,
              Win!Clear, Win!ClosePort
<1>6. CASE WorkerStep
  BY <1>6 DEF WorkerStep, backend, Worker, TakeRequests, KnownRoot, InvalidRoot, NewRoot, RootRefused, CrawlRoot,
              WatchNext, Watched, ListRoot, Recrawl, CrawlNext, RecrawlDone
<1>7. CASE Ask \/ ChangeFilter \/ Change \/ UNCHANGED vars
  BY <1>7 DEF Ask, ChangeFilter, AddRoot, SetFilter, Change, vars, rootsVars, backend
<1>8. QED BY <1>1, <1>2, <1>3, <1>4, <1>5, <1>6, <1>7 DEF Next, Program

------------------------------------------------------------------------------
(* Type correctness *)

\* A batch in the callback has a last id.
CallbackControl ==
  callback.pc = "record" => \E n \in callback.ids : \A i \in callback.ids : i <= n

\* Only shutdown sets the flag; it comes first.
StopControl == shut # "none" => stop

\* What the completion port has; the thread does not wait with a completion.
PortControl ==
  /\ \A n \in DOMAIN port : /\ port[n].kind \in {"records", "overflow", "failed", "post"}
                            /\ ~stop => port[n].kind # "post"

TypeInv == TypeOK /\ CallbackControl /\ StopControl /\ PortControl

LEMMA ChangeTypes ==
  ASSUME TypeOK, Change
  PROVE  /\ log' \in Seq([dir : Dir \cup {<<>>}, owed : BOOLEAN]) /\ Len(log') = Len(log) + 1
         /\ DOMAIN log \subseteq DOMAIN log' /\ Len(log') \in DOMAIN log'
         /\ \A i \in DOMAIN log : log'[i] = log[i]
<1>1. PICK d \in scene.at : log' = Append(log, [dir |-> d, owed |-> d \in watched])
  BY DEF Change
<1>2. [dir |-> d, owed |-> d \in watched] \in [dir : Dir \cup {<<>>}, owed : BOOLEAN]
  BY SceneTypes DEF TypeOK, WatchTypes
<1>3. log \in Seq([dir : Dir \cup {<<>>}, owed : BOOLEAN])
  BY DEF TypeOK, WatchTypes
<1>4. QED BY <1>1, <1>2, <1>3

\* The log only grows.
LEMMA LogGrows ==
  ASSUME TypeOK, [Next]_vars
  PROVE  /\ DOMAIN log \subseteq DOMAIN log' /\ Len(log) <= Len(log') /\ Len(log) \in Nat
         /\ \A i \in DOMAIN log : log'[i] = log[i]
<1>1. log \in Seq([dir : Dir \cup {<<>>}, owed : BOOLEAN])
  BY DEF TypeOK, WatchTypes
<1>2. CASE log' = log
  BY <1>1, <1>2
<1>3. CASE Change
  BY <1>1, <1>3, ChangeTypes
<1>4. QED BY <1>2, <1>3, HistoryFrame

LEMMA WatchTypesStep ==
  ASSUME TypeInv, [Next]_vars
  PROVE  WatchTypes'
<1> USE DEF TypeInv, TypeOK, WatchTypes
<1>1. scene' \in Scenes /\ asked' \in Seq(Request) /\ refiltered' \in 0 .. scene'.refilters
  <2>1. scene' = scene /\ scene.asks \subseteq Request /\ scene.refilters \in Nat
    BY OutsideStep, SceneTypes
  <2>2. asked' = asked \/ \E r \in Request : asked' = Append(asked, r)
    BY <2>1, OutsideStep
  <2>3. asked' \in Seq(Request)
    BY <2>2
  <2>4. refiltered' \in 0 .. scene.refilters
    BY <2>1, OutsideStep
  <2>5. QED BY <2>1, <2>3, <2>4
<1>2. shut' \in {"none", "flag", "post", "cancel", "clear", "done"}
  BY ShutFrame DEF Fs!TearDown, Win!Shutdown, Win!Post, Win!Cancel, Win!Clear, Win!ClosePort
<1>3. log' \in Seq([dir : Dir \cup {<<>>}, owed : BOOLEAN])
  BY HistoryFrame, ChangeTypes
<1>4. seen' \subseteq Nat
  <2>1. CASE Change
    <3>1. seen' = seen \/ seen' = seen \cup {Len(log')}
      BY <2>1 DEF Change
    <3>2. Len(log') \in Nat
      BY <1>3
    <3>3. QED BY <3>1, <3>2
  <2>2. CASE Fs!ProcessEvents(scene.failures)
    BY <2>2 DEF Fs!ProcessEvents, FsTypes
  <2>3. CASE Win!Failed \/ Win!HandleRecords \/ Win!Overflow(scene.failures)
    BY <2>3 DEF Win!Failed, Win!HandleRecords, Win!Overflow, WinTypes
  <2>4. QED BY <2>1, <2>2, <2>3, HistoryFrame
<1>5. watches' \subseteq Dir
  <2>1. CASE OfInotify(InotifyWatch)
    BY <2>1 DEF OfInotify, InotifyWatch, RootsControl
  <2>2. QED BY <2>1, HistoryFrame
<1>6. QED BY <1>1, <1>2, <1>3, <1>4, <1>5

LEMMA FsTypesStep ==
  ASSUME TypeInv, [Next]_vars
  PROVE  /\ FsTypes' /\ CallbackControl'
         /\ last_event_id' <= Len(log') /\ since' <= Len(log') /\ stream'.newest <= Len(log')
         /\ callback'.ids \subseteq DOMAIN log'
<1> USE DEF TypeInv, TypeOK, FsTypes, CallbackControl, OnlyHappened
<1>1. /\ DOMAIN log \subseteq DOMAIN log' /\ Len(log) <= Len(log') /\ Len(log) \in Nat /\ Len(log') \in Nat
      /\ \A i \in 1 .. Len(log) : i \in DOMAIN log
  BY LogGrows, WatchTypesStep DEF WatchTypes
<1>2. CASE UNCHANGED fsVars
  BY <1>1, <1>2 DEF fsVars
<1>3. CASE Fs!WatchNothing \/ Fs!WatchRoot
  <2>1. CASE Fs!WatchNothing
    BY <1>1, <2>1 DEF Fs!WatchNothing, Fs!fsVars
  <2>2. CASE Fs!WatchRoot
    <3>1. call.path \in Dir
      BY <2>2 DEF Fs!WatchRoot, RootsControl
    <3>2. UNCHANGED <<last_event_id, since, callback>> /\ stream' = Fs!NoStream
      BY <2>2 DEF Fs!WatchRoot
    <3>3. fsroots' \subseteq Dir
      BY <2>2, <3>1 DEF Fs!WatchRoot
    <3>4. QED BY <1>1, <3>2, <3>3 DEF Fs!NoStream
  <2>3. QED BY <1>3, <2>1, <2>2
<1>4. CASE Fs!Resume
  BY <1>1, <1>4 DEF Fs!Resume, Fs!ResumeFrom
<1>5. CASE Fs!Create
  BY <1>1, <1>5 DEF Fs!Create
<1>6. CASE Fs!Deliver
  <2>1. PICK newest \in Fs!Undelivered :
          /\ callback' = [pc |-> "record", ids |-> {i \in Fs!Undelivered : i <= newest}]
          /\ stream' = [stream EXCEPT !.newest = newest]
    BY <1>6 DEF Fs!Deliver
  <2>2. Fs!Undelivered \subseteq DOMAIN log /\ Fs!Undelivered \subseteq Nat
    <3>1. stream.newest \in Nat /\ DOMAIN log = 1 .. Len(log)
      BY DEF WatchTypes
    <3>2. \A i \in stream.newest + 1 .. Len(log) : i \in 1 .. Len(log)
      BY <1>1, <3>1
    <3>3. ASSUME NEW i \in Fs!Undelivered PROVE i \in 1 .. Len(log)
      BY <3>2 DEF Fs!Undelivered
    <3>4. Fs!Undelivered \subseteq 1 .. Len(log)
      BY <3>3
    <3>5. QED BY <1>1, <3>1, <3>4
  <2>3. newest \in DOMAIN log /\ newest \in Nat /\ newest <= Len(log)
    BY <2>2 DEF Fs!Undelivered
  <2>4. callback'.ids \subseteq DOMAIN log /\ callback'.ids \subseteq Nat
    BY <2>1, <2>2
  <2>5. newest \in callback'.ids /\ \A i \in callback'.ids : i <= newest
    BY <2>1, <2>3
  <2>6. stream' \in [live : BOOLEAN, paths : SUBSET Dir, newest : Nat] /\ stream'.newest = newest
    BY <2>1, <2>3
  <2>7. UNCHANGED <<fsroots, last_event_id, since>> /\ log' = log
    BY <1>6 DEF Fs!Deliver
  <2>8. callback' \in [pc : {"idle", "record", "process"}, ids : SUBSET Nat]
    BY <2>1, <2>4
  <2>9. QED BY <2>3, <2>4, <2>5, <2>6, <2>7, <2>8
<1>7. CASE Fs!RecordId
  <2>1. PICK n \in callback.ids : \A i \in callback.ids : i <= n
    BY <1>7 DEF Fs!RecordId
  <2>2. callback.ids \subseteq DOMAIN log /\ callback.ids \subseteq Nat
    OBVIOUS
  <2>3. Max(callback.ids) \in callback.ids
    <3>1. \A i \in callback.ids : n >= i
      BY <2>1, <2>2
    <3>2. QED BY <3>1 DEF Max
  <2>4. last_event_id' \in callback.ids
    BY <1>7, <2>3 DEF Fs!RecordId, Fs!Max
  <2>5. last_event_id' \in Nat /\ last_event_id' <= Len(log)
    BY <1>1, <2>2, <2>4
  <2>6. QED BY <1>1, <1>7, <2>2, <2>5 DEF Fs!RecordId
<1>8. CASE Fs!ProcessEvents(scene.failures)
  BY <1>1, <1>8 DEF Fs!ProcessEvents
<1>9. CASE Fs!TearDown
  BY <1>1, <1>9 DEF Fs!TearDown, Fs!NoStream
<1>10. QED BY <1>2, <1>3, <1>4, <1>5, <1>6, <1>7, <1>8, <1>9, FsFrame DEF Fs!Backend, Fs!Callback

Completion == [kind : {"none", "records", "overflow", "failed", "post"}, key : Nat, ids : SUBSET Nat]
Watch == [path : Dir, recursive : BOOLEAN, read : {"armed", "ended", "failed"}, held : SUBSET Nat]

LEMMA IsSequence ==
  ASSUME NEW R, NEW n \in Nat, NEW f \in [1 .. n -> R]
  PROVE  f \in Seq(R) /\ Len(f) = n /\ DOMAIN f = 1 .. n
OBVIOUS

\* What a change, or the end of a read, does to the list of watches.
LEMMA CollectTypes ==
  ASSUME wroots \in Seq(Watch), NEW d, NEW id \in Nat, Win!Collect(d, id)
  PROVE  /\ wroots' \in Seq(Watch) /\ DOMAIN wroots' = DOMAIN wroots
         /\ \A k \in DOMAIN wroots :
              /\ wroots'[k].path = wroots[k].path /\ wroots'[k].recursive = wroots[k].recursive
              /\ wroots'[k].read = wroots[k].read
              /\ wroots'[k].held =
                   IF Reaches(wroots[k].path, wroots[k].recursive, d) /\ wroots[k].read # "failed"
                     THEN wroots[k].held \cup {id} ELSE wroots[k].held
<1>1. \A k \in DOMAIN wroots : wroots[k] \in Watch /\ [wroots[k] EXCEPT !.held = @ \cup {id}] \in Watch
  <2>1. ASSUME NEW w \in Watch PROVE [w EXCEPT !.held = @ \cup {id}] \in Watch
    BY DEF Watch
  <2>2. \A k \in DOMAIN wroots : wroots[k] \in Watch
    OBVIOUS
  <2>3. QED BY <2>1, <2>2
<1>2. wroots' \in [1 .. Len(wroots) -> Watch] /\ Len(wroots) \in Nat /\ DOMAIN wroots = 1 .. Len(wroots)
  BY <1>1 DEF Win!Collect
<1>3. wroots' \in Seq(Watch) /\ DOMAIN wroots' = DOMAIN wroots
  BY <1>2, IsSequence
<1>4. ASSUME NEW k \in DOMAIN wroots
      PROVE  /\ wroots'[k].path = wroots[k].path /\ wroots'[k].recursive = wroots[k].recursive
             /\ wroots'[k].read = wroots[k].read
             /\ wroots'[k].held =
                  IF Win!Reaches(wroots[k].path, wroots[k].recursive, d) /\ wroots[k].read # "failed"
                    THEN wroots[k].held \cup {id} ELSE wroots[k].held
  BY <1>1 DEF Win!Collect, Watch
<1>5. QED BY <1>3, <1>4 DEF Win!Reaches, Win!IsParentOf, Win!SameUpTo, Win!Sep, Reaches, IsParentOf, SameUpTo, Sep

LEMMA EndReadTypes ==
  ASSUME wroots \in Seq(Watch), port \in Seq(Completion), NEW k \in DOMAIN wroots,
         NEW read \in {"ended", "failed"}, NEW kind \in {"records", "overflow", "failed"},
         Win!EndRead(k, read, kind)
  PROVE  /\ wroots' \in Seq(Watch) /\ DOMAIN wroots' = DOMAIN wroots
         /\ wroots'[k].held = {} /\ wroots'[k].read = read
         /\ wroots'[k].path = wroots[k].path /\ wroots'[k].recursive = wroots[k].recursive
         /\ \A j \in DOMAIN wroots \ {k} : wroots'[j] = wroots[j]
         /\ port' \in Seq(Completion) /\ DOMAIN port' = 1 .. Len(port) + 1 /\ Len(port) \in Nat
         /\ \A n \in DOMAIN port : port'[n] = port[n]
         /\ port'[Len(port) + 1] = [kind |-> kind, key |-> k, ids |-> wroots[k].held]
<1>1. wroots[k] \in Watch /\ k \in Nat /\ Len(wroots) \in Nat /\ DOMAIN wroots = 1 .. Len(wroots)
  OBVIOUS
<1>2. wroots' = [wroots EXCEPT ![k] = [wroots[k] EXCEPT !.read = read, !.held = {}]]
  BY <1>1 DEF Win!EndRead, Watch
<1>3. [wroots[k] EXCEPT !.read = read, !.held = {}] \in Watch
  BY <1>1 DEF Watch
<1>4. wroots' \in [1 .. Len(wroots) -> Watch]
  BY <1>1, <1>2, <1>3
<1>5. wroots' \in Seq(Watch) /\ DOMAIN wroots' = DOMAIN wroots
  BY <1>1, <1>4, IsSequence
<1>6. [kind |-> kind, key |-> k, ids |-> wroots[k].held] \in Completion
  BY <1>1 DEF Completion, Watch
<1>7. port' = Append(port, [kind |-> kind, key |-> k, ids |-> wroots[k].held])
  BY DEF Win!EndRead
<1>8. QED BY <1>1, <1>2, <1>5, <1>6, <1>7 DEF Watch

\* The end of a read: what kind of completion there is.
LEMMA ReadEnds ==
  ASSUME wroots \in Seq(Watch), port \in Seq(Completion), NEW k \in DOMAIN wroots,
         Win!ReadCompletes(k) \/ Win!ReadFails(k)
  PROVE  \E read \in {"ended", "failed"}, kind \in {"records", "overflow", "failed"} :
        /\ kind = "failed" <=> read = "failed"
        /\ wroots[k].read = "armed" /\ thread' = thread
        /\ wroots' \in Seq(Watch) /\ DOMAIN wroots' = DOMAIN wroots
        /\ wroots'[k].held = {} /\ wroots'[k].read = read
        /\ wroots'[k].path = wroots[k].path /\ wroots'[k].recursive = wroots[k].recursive
        /\ \A j \in DOMAIN wroots \ {k} : wroots'[j] = wroots[j]
        /\ port' \in Seq(Completion) /\ DOMAIN port' = 1 .. Len(port) + 1 /\ Len(port) \in Nat
        /\ \A n \in DOMAIN port : port'[n] = port[n]
        /\ port'[Len(port) + 1] = [kind |-> kind, key |-> k, ids |-> wroots[k].held]
<1>1. PICK read \in {"ended", "failed"}, kind \in {"records", "overflow", "failed"} :
        /\ Win!EndRead(k, read, kind)
        /\ kind = "failed" <=> read = "failed"
  <2>1. CASE Win!ReadCompletes(k)
    BY <2>1 DEF Win!ReadCompletes
  <2>2. CASE Win!ReadFails(k)
    BY <2>2 DEF Win!ReadFails
  <2>3. QED BY <2>1, <2>2
<1>2. /\ wroots' \in Seq(Watch) /\ DOMAIN wroots' = DOMAIN wroots
      /\ wroots'[k].held = {} /\ wroots'[k].read = read
      /\ wroots'[k].path = wroots[k].path /\ wroots'[k].recursive = wroots[k].recursive
      /\ \A j \in DOMAIN wroots \ {k} : wroots'[j] = wroots[j]
      /\ port' \in Seq(Completion) /\ DOMAIN port' = 1 .. Len(port) + 1 /\ Len(port) \in Nat
      /\ \A n \in DOMAIN port : port'[n] = port[n]
      /\ port'[Len(port) + 1] = [kind |-> kind, key |-> k, ids |-> wroots[k].held]
  BY <1>1, EndReadTypes
<1>3. wroots[k].read = "armed" /\ thread' = thread
  BY <1>1 DEF Win!EndRead
<1>4. WITNESS read \in {"ended", "failed"}, kind \in {"records", "overflow", "failed"}
<1>5. QED BY <1>1, <1>2, <1>3

LEMMA IssueReadTypes ==
  ASSUME wroots \in Seq(Watch), NEW k \in DOMAIN wroots, NEW ok \in BOOLEAN, Win!IssueRead(k, ok)
  PROVE  /\ wroots' \in Seq(Watch) /\ DOMAIN wroots' = DOMAIN wroots
         /\ wroots'[k].read = (IF ok THEN "armed" ELSE "failed")
         /\ wroots'[k].path = wroots[k].path /\ wroots'[k].recursive = wroots[k].recursive
         /\ wroots'[k].held = wroots[k].held
         /\ \A j \in DOMAIN wroots \ {k} : wroots'[j] = wroots[j]
<1>1. wroots[k] \in Watch /\ k \in Nat /\ Len(wroots) \in Nat /\ DOMAIN wroots = 1 .. Len(wroots)
  OBVIOUS
<1>2. wroots' = [wroots EXCEPT ![k] = [wroots[k] EXCEPT !.read = IF ok THEN "armed" ELSE "failed"]]
  BY <1>1 DEF Win!IssueRead, Watch
<1>3. [wroots[k] EXCEPT !.read = IF ok THEN "armed" ELSE "failed"] \in Watch
  BY <1>1 DEF Watch
<1>4. wroots' \in [1 .. Len(wroots) -> Watch]
  BY <1>1, <1>2, <1>3
<1>5. wroots' \in Seq(Watch) /\ DOMAIN wroots' = DOMAIN wroots
  BY <1>1, <1>4, IsSequence
<1>6. QED BY <1>1, <1>2, <1>5 DEF Watch

LEMMA CancelTypes ==
  ASSUME wroots \in Seq(Watch), Win!Cancel
  PROVE  /\ wroots' \in Seq(Watch) /\ DOMAIN wroots' = DOMAIN wroots
         /\ \A k \in DOMAIN wroots : /\ wroots'[k].read # "armed"
                                     /\ wroots'[k].held = wroots[k].held
<1>1. \A k \in DOMAIN wroots : wroots[k] \in Watch
                               /\ [wroots[k] EXCEPT !.read = IF @ = "armed" THEN "ended" ELSE @] \in Watch
  <2>1. ASSUME NEW w \in Watch PROVE [w EXCEPT !.read = IF @ = "armed" THEN "ended" ELSE @] \in Watch
    BY DEF Watch
  <2>2. \A k \in DOMAIN wroots : wroots[k] \in Watch
    OBVIOUS
  <2>3. QED BY <2>1, <2>2
<1>2. wroots' \in [1 .. Len(wroots) -> Watch] /\ Len(wroots) \in Nat /\ DOMAIN wroots = 1 .. Len(wroots)
  BY <1>1 DEF Win!Cancel
<1>3. wroots' \in Seq(Watch) /\ DOMAIN wroots' = DOMAIN wroots
  BY <1>2, IsSequence
<1>4. QED BY <1>1, <1>3 DEF Win!Cancel, Watch

\* A new watch comes last.
LEMMA WatchRootTypes ==
  ASSUME wroots \in Seq(Watch), call.path \in Dir, call.recursive \in BOOLEAN, Win!WatchRoot
  PROVE  /\ wroots' \in Seq(Watch) /\ DOMAIN wroots' = 1 .. Len(wroots) + 1 /\ Len(wroots) \in Nat
         /\ \A k \in DOMAIN wroots : wroots'[k] = wroots[k]
         /\ wroots'[Len(wroots) + 1] = [path |-> call.path, recursive |-> call.recursive,
                                        read |-> "armed", held |-> {}]
<1>1. [path |-> call.path, recursive |-> call.recursive, read |-> "armed", held |-> {}] \in Watch
  BY DEF Watch
<1>2. QED BY <1>1 DEF Win!WatchRoot, Win!Root

LEMMA DequeueTypes ==
  ASSUME port \in Seq(Completion), Win!Dequeue
  PROVE  /\ port' \in Seq(Completion) /\ Len(port) \in Nat \ {0} /\ DOMAIN port' = 1 .. Len(port) - 1
         /\ \A n \in DOMAIN port' : n + 1 \in DOMAIN port /\ port'[n] = port[n + 1]
         /\ 1 \in DOMAIN port /\ port[1] \in Completion
         /\ thread' = [pc |-> port[1].kind, work |-> port[1]]
<1>1. port # <<>> /\ port' = Tail(port)
  BY DEF Win!Dequeue
<1>2. Len(port) \in Nat \ {0} /\ Head(port) = port[1] /\ DOMAIN port = 1 .. Len(port)
  BY <1>1
<1>3. /\ port' \in Seq(Completion) /\ DOMAIN port' = 1 .. Len(port) - 1
      /\ \A n \in DOMAIN port' : n + 1 \in DOMAIN port /\ port'[n] = port[n + 1]
  BY <1>1, <1>2
<1>4. QED BY <1>2, <1>3 DEF Win!Dequeue

Thread == [pc : {"wait", "records", "overflow", "failed", "handle", "rearm", "exit"}, work : Completion]

LEMMA WinTypesAre ==
  WinTypes <=> wroots \in Seq(Watch) /\ port \in Seq(Completion) /\ thread \in Thread
BY DEF WinTypes, Watch, Completion, Thread

\* The part of OnlyHappened for Windows.
WinHappened == /\ \A k \in DOMAIN wroots : wroots[k].held \subseteq DOMAIN log
               /\ \A n \in DOMAIN port : port[n].ids \subseteq DOMAIN log
               /\ thread.work.ids \subseteq DOMAIN log

LEMMA WinTypesStep ==
  ASSUME TypeInv, [Next]_vars
  PROVE  WinTypes' /\ WinHappened' /\ PortControl'
<1>0. SUFFICES /\ wroots' \in Seq(Watch) /\ port' \in Seq(Completion) /\ thread' \in Thread
               /\ WinHappened' /\ PortControl'
  BY DEF WinTypes, Watch, Completion, Thread
<1> USE DEF PortControl, WinHappened
<1>1. wroots \in Seq(Watch) /\ port \in Seq(Completion) /\ thread \in Thread
  BY WinTypesAre DEF TypeInv, TypeOK
<1>2. WinHappened /\ PortControl
  BY DEF TypeInv, TypeOK, OnlyHappened
<1>3. DOMAIN log \subseteq DOMAIN log' /\ (stop => stop')
  <2>1. stop => stop'
    BY ShutFrame
  <2>2. QED BY <2>1, LogGrows DEF TypeInv
<1>4. DOMAIN port = 1 .. Len(port) /\ \A n \in DOMAIN port : port[n] \in Completion
  BY <1>1
<1>5. Win!Nothing \in Completion /\ Win!Nothing.ids = {}
  BY DEF Win!Nothing, Completion
<1>6. CASE UNCHANGED winVars
  BY <1>1, <1>2, <1>3, <1>6 DEF winVars
<1>7. CASE Win!Backend(scene.failures)
  <2>1. CASE Win!WatchNothing \/ Win!WatchFails(scene.failures)
    BY <1>1, <1>2, <1>3, <2>1 DEF Win!WatchNothing, Win!WatchFails, Win!winVars
  <2>2. CASE Win!WatchRoot
    <3>1. call.path \in Dir /\ call.recursive \in BOOLEAN
      BY <2>2 DEF Win!WatchRoot, TypeInv, TypeOK, RootsTypes, RootsControl
    <3>2. /\ wroots' \in Seq(Watch) /\ DOMAIN wroots' = 1 .. Len(wroots) + 1 /\ Len(wroots) \in Nat
          /\ \A k \in DOMAIN wroots : wroots'[k] = wroots[k]
          /\ wroots'[Len(wroots) + 1].held = {}
      BY <1>1, <2>2, <3>1, WatchRootTypes
    <3>3. \A k \in DOMAIN wroots' : k \in DOMAIN wroots \/ k = Len(wroots) + 1
      BY <3>2
    <3>4. UNCHANGED <<port, thread>>
      BY <2>2 DEF Win!WatchRoot
    <3>5. QED BY <1>1, <1>2, <1>3, <3>2, <3>3, <3>4
  <2>3. QED BY <1>7, <2>1, <2>2 DEF Win!Backend
<1>8. CASE Win!System(scene.failures)
  <2>1. PICK k \in DOMAIN wroots : Win!ReadCompletes(k) \/ Win!ReadFails(k)
    BY <1>8 DEF Win!System
  <2>2. PICK read \in {"ended", "failed"}, kind \in {"records", "overflow", "failed"} :
          Win!EndRead(k, read, kind)
    BY <2>1 DEF Win!ReadCompletes, Win!ReadFails
  <2>3. /\ wroots' \in Seq(Watch) /\ DOMAIN wroots' = DOMAIN wroots
        /\ wroots'[k].held = {}
        /\ \A j \in DOMAIN wroots \ {k} : wroots'[j] = wroots[j]
        /\ port' \in Seq(Completion) /\ DOMAIN port' = 1 .. Len(port) + 1 /\ Len(port) \in Nat
        /\ \A n \in DOMAIN port : port'[n] = port[n]
        /\ port'[Len(port) + 1] = [kind |-> kind, key |-> k, ids |-> wroots[k].held]
    BY <1>1, <2>2, EndReadTypes
  <2>4. UNCHANGED <<thread, stop>>
    BY <2>2 DEF Win!EndRead
  <2>5. \A j \in DOMAIN wroots' : wroots'[j].held \subseteq DOMAIN log'
    BY <1>2, <1>3, <2>3
  <2>6. \A n \in DOMAIN port' : n \in DOMAIN port \/ n = Len(port) + 1
    BY <1>4, <2>3
  <2>7. \A n \in DOMAIN port' : port'[n].ids \subseteq DOMAIN log'
    BY <1>2, <1>3, <2>3, <2>6
  <2>8. PortControl'
    BY <1>2, <2>3, <2>4, <2>6
  <2>9. QED BY <1>1, <1>2, <1>3, <2>3, <2>4, <2>5, <2>7, <2>8
<1>9. CASE Win!Dequeue
  <2>1. /\ port' \in Seq(Completion)
        /\ \A n \in DOMAIN port' : n + 1 \in DOMAIN port /\ port'[n] = port[n + 1]
        /\ 1 \in DOMAIN port /\ port[1] \in Completion
        /\ thread' = [pc |-> port[1].kind, work |-> port[1]]
    BY <1>1, <1>9, DequeueTypes
  <2>2. UNCHANGED <<wroots, stop>> /\ ~stop
    BY <1>9 DEF Win!Dequeue
  <2>3. thread' \in Thread
    <3>1. port[1].kind \in {"records", "overflow", "failed"}
      BY <1>2, <2>1, <2>2
    <3>2. QED BY <2>1, <3>1 DEF Thread
  <2>4. thread'.work.ids \subseteq DOMAIN log'
    BY <1>2, <1>3, <2>1
  <2>5. PortControl' /\ \A n \in DOMAIN port' : port'[n].ids \subseteq DOMAIN log'
    BY <1>2, <1>3, <2>1, <2>2
  <2>6. QED BY <1>1, <1>2, <1>3, <2>1, <2>2, <2>3, <2>4, <2>5
<1>10. CASE Win!Exit \/ Win!Failed \/ Win!Gone \/ Win!CopyRecords \/ Win!HandleRecords
  <2>1. UNCHANGED <<wroots, port, stop>>
    BY <1>10 DEF Win!Exit, Win!Failed, Win!Gone, Win!CopyRecords, Win!HandleRecords
  <2>2. \/ \E pc \in {"exit", "handle", "rearm"} : thread' = [thread EXCEPT !.pc = pc]
        \/ thread' = [pc |-> "wait", work |-> Win!Nothing]
    BY <1>10 DEF Win!Exit, Win!Failed, Win!Gone, Win!CopyRecords, Win!HandleRecords, Win!Rewait
  <2>3. thread' \in Thread /\ thread'.work.ids \subseteq DOMAIN log'
    BY <1>1, <1>2, <1>3, <1>5, <2>2 DEF Thread
  <2>4. QED BY <1>1, <1>2, <1>3, <2>1, <2>3
<1>11. CASE Win!Rearm(scene.failures) \/ Win!Overflow(scene.failures)
  <2>1. PICK ok \in BOOLEAN : Win!IssueRead(thread.work.key, ok)
    BY <1>11, SceneTypes DEF Win!Rearm, Win!Overflow, TypeInv, TypeOK, WatchTypes
  <2>2. thread.work.key \in DOMAIN wroots /\ UNCHANGED <<port, stop>>
    BY <1>11 DEF Win!Rearm, Win!Overflow
  <2>3. thread' = [pc |-> "wait", work |-> Win!Nothing]
    BY <1>11 DEF Win!Rearm, Win!Overflow, Win!Rewait
  <2>4. wroots' \in Seq(Watch) /\ DOMAIN wroots' = DOMAIN wroots
        /\ \A j \in DOMAIN wroots : wroots'[j].held = wroots[j].held
    BY <1>1, <2>1, <2>2, IssueReadTypes
  <2>5. thread' \in Thread /\ thread'.work.ids \subseteq DOMAIN log'
    BY <1>5, <2>3 DEF Thread
  <2>6. QED BY <1>1, <1>2, <1>3, <2>2, <2>4, <2>5
<1>12. CASE Win!Post
  <2>1. [Win!Nothing EXCEPT !.kind = "post"] \in Completion /\ [Win!Nothing EXCEPT !.kind = "post"].ids = {}
    BY DEF Win!Nothing, Completion
  <2>2. port' = Append(port, [Win!Nothing EXCEPT !.kind = "post"]) /\ UNCHANGED <<wroots, thread, stop>>
    BY <1>12 DEF Win!Post
  <2>3. stop
    BY <1>12 DEF Win!Post, TypeInv, StopControl
  <2>4. [Win!Nothing EXCEPT !.kind = "post"].kind = "post"
    BY DEF Win!Nothing
  <2>5. QED BY <1>1, <1>2, <1>3, <2>1, <2>2, <2>3, <2>4
<1>13. CASE Win!Cancel
  <2>1. wroots' \in Seq(Watch) /\ DOMAIN wroots' = DOMAIN wroots
        /\ \A k \in DOMAIN wroots : wroots'[k].held = wroots[k].held
    BY <1>1, <1>13, CancelTypes
  <2>2. UNCHANGED <<port, thread, stop>>
    BY <1>13 DEF Win!Cancel
  <2>3. QED BY <1>1, <1>2, <1>3, <2>1, <2>2
<1>14. CASE Win!Clear \/ Win!ClosePort
  <2>1. CASE Win!Clear
    <3>1. wroots' = <<>> /\ UNCHANGED <<port, thread, stop>>
      BY <2>1 DEF Win!Clear
    <3>2. QED BY <1>1, <1>2, <1>3, <3>1
  <2>2. CASE Win!ClosePort
    <3>1. port' = <<>> /\ UNCHANGED <<wroots, thread, stop>>
      BY <2>2 DEF Win!ClosePort
    <3>2. QED BY <1>1, <1>2, <1>3, <3>1
  <2>3. QED BY <1>14, <2>1, <2>2
<1>15. CASE Change
  <2>1. PICK d \in scene.at : Win!Collect(d, Len(log'))
    BY <1>15 DEF Change
  <2>2. Len(log') \in DOMAIN log' /\ Len(log') \in Nat
    BY <1>15, ChangeTypes DEF TypeInv
  <2>3. /\ wroots' \in Seq(Watch) /\ DOMAIN wroots' = DOMAIN wroots
        /\ \A k \in DOMAIN wroots : wroots'[k].held \subseteq wroots[k].held \cup {Len(log')}
    BY <1>1, <2>1, <2>2, CollectTypes
  <2>4. UNCHANGED <<port, thread, stop>>
    BY <1>15 DEF Change, rootsVars
  <2>5. QED BY <1>1, <1>2, <1>3, <2>2, <2>3, <2>4
<1>16. QED
  BY <1>6, <1>7, <1>8, <1>9, <1>10, <1>11, <1>12, <1>13, <1>14, <1>15, WinFrame
     DEF Win!Thread, Win!Shutdown

LEMMA SeenHappened ==
  ASSUME TypeInv, [Next]_vars
  PROVE  seen' \subseteq DOMAIN log'
<1>1. /\ seen \subseteq DOMAIN log /\ callback.ids \subseteq DOMAIN log /\ thread.work.ids \subseteq DOMAIN log
      /\ DOMAIN log \subseteq DOMAIN log'
  BY LogGrows DEF TypeInv, TypeOK, OnlyHappened
<1>2. CASE seen' = seen
  BY <1>1, <1>2
<1>3. CASE Change
  <2>1. seen' = seen \/ seen' = seen \cup {Len(log')}
    BY <1>3 DEF Change
  <2>2. Len(log') \in DOMAIN log'
    BY <1>3, ChangeTypes DEF TypeInv
  <2>3. QED BY <1>1, <2>1, <2>2
<1>4. CASE Fs!ProcessEvents(scene.failures)
  BY <1>1, <1>4 DEF Fs!ProcessEvents
<1>5. CASE Win!Failed \/ Win!HandleRecords \/ Win!Overflow(scene.failures)
  BY <1>1, <1>5 DEF Win!Failed, Win!HandleRecords, Win!Overflow
<1>6. QED BY <1>2, <1>3, <1>4, <1>5, HistoryFrame

LEMMA TypeInvInit ==
  ASSUME Init
  PROVE  TypeInv /\ RootsInv
<1>1. RootsInv
  BY RootsInvInit DEF Init
<1>2. log = <<[dir |-> <<>>, owed |-> FALSE]>> /\ log \in Seq([dir : Dir \cup {<<>>}, owed : BOOLEAN])
  BY DEF Init
<1>3. WatchTypes
  <2>1. scene.refilters \in Nat
    BY SceneTypes DEF Init
  <2>2. QED BY <1>2, <2>1 DEF Init, WatchTypes
<1>4. FsTypes /\ CallbackControl
  BY DEF Init, Fs!FsInit, Fs!NoStream, FsTypes, CallbackControl
<1>5. WinTypes /\ PortControl
  <2>1. wroots = <<>> /\ port = <<>> /\ thread = [pc |-> "wait", work |-> Win!Nothing]
    BY DEF Init, Win!WinInit
  <2>2. wroots \in Seq(Watch) /\ port \in Seq(Completion) /\ thread \in Thread
    BY <2>1 DEF Thread, Completion, Win!Nothing
  <2>3. QED BY <2>1, <2>2, WinTypesAre DEF PortControl
<1>6. OnlyHappened
  BY <1>2 DEF Init, Fs!FsInit, Fs!NoStream, Win!WinInit, Win!Nothing, OnlyHappened
<1>7. filter \in scene.filters \cup {{}} /\ StopControl
  BY DEF Init, RootsInit, StopControl
<1>8. QED BY <1>1, <1>3, <1>4, <1>5, <1>6, <1>7 DEF TypeInv, TypeOK, RootsInv

LEMMA TypeInvStep ==
  ASSUME TypeInv, RootsInv, [Next]_vars
  PROVE  TypeInv' /\ RootsInv'
<1>1. RootsInv'
  BY NextIsRootsStep, RootsInvStep DEF TypeInv
<1>2. (filter \in scene.filters \cup {{}})'
  BY OutsideStep DEF TypeInv, TypeOK
<1>3. StopControl'
  <2>1. CASE UNCHANGED <<stop, shut>>
    BY <2>1 DEF TypeInv, StopControl
  <2>2. CASE Fs!TearDown \/ Win!Shutdown
    BY <2>2, ShutFrame DEF TypeInv, StopControl, Fs!TearDown, Win!Shutdown, Win!Post, Win!Cancel, Win!Clear,
          Win!ClosePort
  <2>3. QED BY <2>1, <2>2, ShutFrame DEF StopControl
<1>4. WinTypes' /\ WinHappened' /\ PortControl'
  BY WinTypesStep
<1>5. OnlyHappened'
  BY <1>4, FsTypesStep, SeenHappened DEF OnlyHappened, WinHappened
<1>6. TypeOK'
  BY <1>1, <1>2, <1>4, <1>5, WatchTypesStep, FsTypesStep DEF TypeOK, RootsInv
<1>7. QED BY <1>1, <1>3, <1>4, <1>6, FsTypesStep DEF TypeInv

\* The variables have values of their types, the worker uses them at the right points, and
\* only what has happened is reported or on its way (Worker and the three backends).
THEOREM TypeCorrect == Spec => []TypeOK
<1>1. Init => TypeInv /\ RootsInv
  BY TypeInvInit
<1>2. TypeInv /\ RootsInv /\ [Next]_vars => (TypeInv /\ RootsInv)'
  BY TypeInvStep
<1>3. TypeInv => TypeOK
  BY DEF TypeInv
<1>4. QED BY <1>1, <1>2, <1>3, PTL DEF Spec

\* The roots are listed in tree order, whatever is asked for and answered (worker.rs:81-107).
THEOREM RootsInTreeOrder == Spec => []TreeOrder
<1>1. Init => TypeInv /\ RootsInv
  BY TypeInvInit
<1>2. TypeInv /\ RootsInv /\ [Next]_vars => (TypeInv /\ RootsInv)'
  BY TypeInvStep
<1>3. RootsInv => TreeOrder
  BY SortedIsTreeOrder DEF RootsInv, RootsTypes
<1>4. QED BY <1>1, <1>2, <1>3, PTL DEF Spec

\* No root is crawled twice until a filter is taken back, but for what the filter, a
\* second entry or a refusal explains (worker.rs:84-103, tree.rs:557-596).
THEOREM NoRootIsCrawledTwice == Spec => []NoDoubleCrawl
<1>1. Init => TypeInv /\ RootsInv
  BY TypeInvInit
<1>2. TypeInv /\ RootsInv /\ [Next]_vars => (TypeInv /\ RootsInv)'
  BY TypeInvStep
<1>3. RootsInv => NoDoubleCrawl
  BY DEF RootsInv
<1>4. QED BY <1>1, <1>2, <1>3, PTL DEF Spec

------------------------------------------------------------------------------
(* Shutdown *)

\* Who moves the worker's call of watch_dir on, and what it has brought.
LEMMA CallFrame ==
  ASSUME TypeInv, [Next]_vars
  PROVE  \/ UNCHANGED <<call, watched>>
         \/ call.pc = "none" /\ call'.pc = "called" /\ watched' = watched
         \/ call.pc = "done" /\ Return /\ UNCHANGED backend
         \/ OfInotify(InotifyWatch) /\ watched' = watched
         \/ On("fsevent") /\ Fs!Backend /\ watched' = watched
         \/ On("windows") /\ Win!Backend(scene.failures) /\ watched' = watched
<1>1. CASE WorkerStep
  <2>1. UNCHANGED backend /\ Worker
    BY <1>1 DEF WorkerStep
  <2>2. CASE TakeRequests \/ KnownRoot \/ InvalidRoot \/ ListRoot \/ Recrawl \/ CrawlNext \/ RecrawlDone
    BY <2>2 DEF TakeRequests, KnownRoot, InvalidRoot, ListRoot, Recrawl, CrawlNext, RecrawlDone
  <2>3. CASE NewRoot
    <3>1. call.pc = "none" /\ watched' = watched
      BY <2>3 DEF NewRoot, TypeInv, TypeOK, RootsControl, RootsTypes
    <3>2. call'.pc = "called"
      BY <2>3 DEF NewRoot, CallWatchDir
    <3>3. QED BY <3>1, <3>2
  <2>4. CASE WatchNext
    BY <2>4 DEF WatchNext, CallWatchDir
  <2>5. CASE RootRefused \/ CrawlRoot \/ Watched
    BY <2>1, <2>5 DEF RootRefused, CrawlRoot, Watched
  <2>6. QED BY <2>1, <2>2, <2>3, <2>4, <2>5 DEF Worker
<1>2. CASE WatchDir
  BY <1>2 DEF WatchDir, OfInotify, OfFsEvents, OfWindows, workerOnly
<1>3. CASE EventThread
  BY <1>3 DEF EventThread, OfFsEvents, OfWindows, workerOnly, Fs!Callback, Fs!Deliver, Fs!RecordId,
              Fs!ProcessEvents, Win!Thread, Win!Exit, Win!Dequeue, Win!Failed, Win!Gone, Win!CopyRecords,
              Win!HandleRecords, Win!Rearm, Win!Overflow
<1>4. CASE System
  BY <1>4 DEF System, OfWindows, workerOnly, Win!System, Win!ReadCompletes, Win!ReadFails, Win!EndRead
<1>5. CASE CallShutdown \/ Shutdown
  BY <1>5 DEF CallShutdown, Shutdown, OfInotify, OfFsEvents, OfWindows, workerOnly, InotifyShutdown,
              Fs!StoreShutdown, Fs!TearDown, Win!SwapShutdown, Win!Shutdown, Win!Post, Win!Cancel,
              Win!Clear, Win!ClosePort
<1>6. CASE Ask \/ ChangeFilter \/ Change \/ UNCHANGED vars
  BY <1>6 DEF Ask, ChangeFilter, AddRoot, SetFilter, Change, vars, rootsVars
<1>7. QED BY <1>1, <1>2, <1>3, <1>4, <1>5, <1>6 DEF Next, Program

LEMMA CancelledStep ==
  ASSUME TypeInv, CancelledBeforeFreed, [Next]_vars
  PROVE  CancelledBeforeFreed'
<1> USE DEF CancelledBeforeFreed
<1>1. wroots \in Seq(Watch) /\ port \in Seq(Completion)
  BY WinTypesAre DEF TypeInv, TypeOK
<1>2. CASE Win!Cancel
  BY <1>1, <1>2, CancelTypes
<1>3. CASE Win!Post \/ Win!Clear \/ Win!ClosePort \/ Fs!TearDown
  BY <1>3 DEF Win!Post, Win!Clear, Win!ClosePort, Fs!TearDown
<1>4. shut' = "cancel" => shut = "cancel" \/ Win!Cancel
  BY ShutFrame DEF Fs!TearDown, Win!Shutdown, Win!Post, Win!Clear, Win!ClosePort
<1>5. ASSUME shut = "cancel", \A k \in DOMAIN wroots' : k \in DOMAIN wroots /\ wroots'[k].read \in {wroots[k].read, "ended", "failed"}
      PROVE  CancelledBeforeFreed'
  BY <1>5
<1>6. CASE shut = "cancel"
  <2>1. CASE UNCHANGED winVars
    BY <1>5, <1>6, <2>1 DEF winVars
  <2>2. CASE Win!Backend(scene.failures)
    BY <1>6, <2>2 DEF Win!Backend, Win!WatchNothing, Win!WatchRoot, Win!WatchFails, Win!Locked
  <2>3. CASE Win!Thread(scene.failures)
    <3>1. wroots' = wroots
      BY <1>6, <2>3 DEF Win!Thread, Win!Exit, Win!Dequeue, Win!Failed, Win!Gone, Win!CopyRecords,
                        Win!HandleRecords, Win!Rearm, Win!Overflow, Win!MayLock, Win!Locked
    <3>2. QED BY <1>5, <1>6, <3>1
  <2>4. CASE Win!System(scene.failures)
    <3>1. PICK k \in DOMAIN wroots : Win!ReadCompletes(k) \/ Win!ReadFails(k)
      BY <2>4 DEF Win!System
    <3>2. PICK read \in {"ended", "failed"}, kind \in {"records", "overflow", "failed"} :
            Win!EndRead(k, read, kind)
      BY <3>1 DEF Win!ReadCompletes, Win!ReadFails
    <3>3. /\ DOMAIN wroots' = DOMAIN wroots /\ wroots'[k].read = read
          /\ \A j \in DOMAIN wroots \ {k} : wroots'[j] = wroots[j]
      BY <1>1, <3>2, EndReadTypes
    <3>4. QED BY <1>5, <1>6, <3>3
  <2>5. CASE Win!Shutdown
    BY <1>2, <1>3, <1>6, <2>5 DEF Win!Shutdown
  <2>6. CASE Change
    <3>1. PICK d \in scene.at : Win!Collect(d, Len(log'))
      BY <2>6 DEF Change
    <3>2. Len(log') \in Nat
      BY <2>6, ChangeTypes DEF TypeInv
    <3>3. DOMAIN wroots' = DOMAIN wroots /\ \A k \in DOMAIN wroots : wroots'[k].read = wroots[k].read
      BY <1>1, <3>1, <3>2, CollectTypes
    <3>4. QED BY <1>5, <1>6, <3>3
  <2>7. QED BY <2>1, <2>2, <2>3, <2>4, <2>5, <2>6, WinFrame
<1>7. QED BY <1>2, <1>4, <1>6

\* When the buffers are freed no read is in flight: while shutdown has the lock, nobody
\* issues one (windows.rs:334-360).
THEOREM ReadsAreCancelledFirst == Spec => []CancelledBeforeFreed
<1>1. Init => TypeInv /\ RootsInv /\ CancelledBeforeFreed
  BY TypeInvInit DEF Init, CancelledBeforeFreed
<1>2. TypeInv /\ RootsInv /\ CancelledBeforeFreed /\ [Next]_vars => (TypeInv /\ RootsInv /\ CancelledBeforeFreed)'
  BY TypeInvStep, CancelledStep
<1>3. QED BY <1>1, <1>2, PTL DEF Spec

\* Only FSEvents has a stream and rebuilds it.
OnlyFsEvents == ~On("fsevent") => ~stream.live /\ call.pc \notin {"resume", "create"}

LEMMA OnlyFsEventsStep ==
  ASSUME TypeInv, OnlyFsEvents, [Next]_vars
  PROVE  OnlyFsEvents'
<1>1. On("fsevent")' <=> On("fsevent")
  BY OutsideStep DEF On
<1>2. ASSUME ~On("fsevent") PROVE ~stream'.live /\ call'.pc \notin {"resume", "create"}
  <2>1. stream' = stream
    BY <1>2, FsFrame DEF fsVars
  <2>2. CASE call' = call
    BY <1>2, <2>1, <2>2 DEF OnlyFsEvents
  <2>3. CASE call'.pc = "called" \/ Return
    BY <1>2, <2>1, <2>3 DEF OnlyFsEvents, Return, NoCall
  <2>4. CASE OfInotify(InotifyWatch) \/ Win!Backend(scene.failures)
    <3>1. call'.pc = "done"
      BY <2>4 DEF OfInotify, InotifyWatch, Win!Backend, Win!WatchNothing, Win!WatchRoot, Win!WatchFails,
                  Win!Returns, TypeInv, TypeOK, RootsTypes
    <3>2. QED BY <1>2, <2>1, <3>1 DEF OnlyFsEvents
  <2>5. QED BY <1>2, <2>2, <2>3, <2>4, CallFrame
<1>3. QED BY <1>1, <1>2 DEF OnlyFsEvents

LEMMA NoStreamLeftStep ==
  ASSUME TypeInv, OnlyFsEvents, NoStreamLeft, [Next]_vars
  PROVE  NoStreamLeft'
<1> USE DEF NoStreamLeft, Fs!Rebuilding
<1>1. ASSUME ~stream'.live /\ call'.pc \notin {"resume", "create"} PROVE NoStreamLeft'
  BY <1>1
<1>2. CASE ~On("fsevent")
  <2>1. On("fsevent")' <=> On("fsevent")
    BY OutsideStep DEF On
  <2>2. QED BY <1>1, <1>2, <2>1, OnlyFsEventsStep DEF OnlyFsEvents
<1>3. CASE On("fsevent") /\ Fs!TearDown
  BY <1>1, <1>3 DEF Fs!TearDown, Fs!NoStream
<1>4. ASSUME On("fsevent"), ~Fs!TearDown, shut' = "done"
      PROVE  ~stream'.live /\ call'.pc \notin {"resume", "create"}
  <2>1. shut = "done"
    BY <1>4, ShutFrame DEF On
  <2>2. stop /\ ~stream.live /\ call.pc \notin {"resume", "create"}
    BY <2>1 DEF TypeInv, StopControl
  <2>3. CASE Fs!Backend
    BY <2>2, <2>3 DEF Fs!Backend, Fs!WatchNothing, Fs!WatchRoot, Fs!Resume, Fs!Create, Fs!Unneeded, Fs!fsVars,
                      Fs!Go, TypeInv, TypeOK, RootsTypes
  <2>4. CASE ~Fs!Backend
    <3>1. ~stream'.live
      BY <1>4, <2>2, <2>4, FsFrame DEF fsVars, Fs!Callback, Fs!Deliver, Fs!RecordId, Fs!ProcessEvents
    <3>2. call'.pc \notin {"resume", "create"}
      BY <1>4, <2>2, <2>4, CallFrame DEF OfInotify, On, Return, NoCall
    <3>3. QED BY <3>1, <3>2
  <2>5. QED BY <2>3, <2>4
<1>5. QED BY <1>1, <1>2, <1>3, <1>4

\* After shutdown no stream is left or comes back (fsevent.rs:222-229, 247-260).
THEOREM ShutdownLeavesNoStream == Spec => []NoStreamLeft
<1>1. Init => TypeInv /\ RootsInv /\ OnlyFsEvents /\ NoStreamLeft
  <2>1. ASSUME Init PROVE shut # "done" /\ ~stream.live /\ call.pc \notin {"resume", "create"}
    BY <2>1 DEF Init, Fs!FsInit, Fs!NoStream, RootsInit, NoCall
  <2>2. QED BY <2>1, TypeInvInit DEF NoStreamLeft, OnlyFsEvents
<1>2. TypeInv /\ RootsInv /\ OnlyFsEvents /\ NoStreamLeft /\ [Next]_vars
        => (TypeInv /\ RootsInv /\ OnlyFsEvents /\ NoStreamLeft)'
  BY TypeInvStep, OnlyFsEventsStep, NoStreamLeftStep
<1>3. QED BY <1>1, <1>2, PTL DEF Spec

------------------------------------------------------------------------------
(* Reads *)

\* Unless it is armed, a read is with one completion of the port or with the thread;
\* a failed one may be with neither.
OneHolder ==
  /\ \A n \in DOMAIN port :
       /\ port[n].key \in DOMAIN wroots /\ wroots[port[n].key].read # "armed"
       /\ port[n].kind = "failed" <=> wroots[port[n].key].read = "failed"
       /\ thread.work.key # port[n].key
  /\ \A m, n \in DOMAIN port : port[m].key = port[n].key => m = n
  /\ \A k \in DOMAIN wroots : wroots[k].read = "ended" =>
       thread.work.key = k \/ \E n \in DOMAIN port : port[n].key = k
  /\ thread.pc = "wait" => thread.work.key = 0
  /\ thread.pc # "wait" => /\ thread.pc # "exit" /\ thread.work.key \in DOMAIN wroots
                           /\ wroots[thread.work.key].read # "armed"
                           /\ thread.pc = "failed" <=> wroots[thread.work.key].read = "failed"

LEMMA SameCardinality == \A S : Win!Cardinality(S) = Cardinality(S)
BY DEF Win!Cardinality, Cardinality

LEMMA OneOrNone == Cardinality({}) = 0 /\ \A x : Cardinality({x}) = 1
BY FS_EmptySet, FS_Singleton

LEMMA OneHolderOneRead ==
  ASSUME TypeInv, ~stop => OneHolder
  PROVE  OneRead
<1>1. SUFFICES ASSUME ~stop, NEW k \in DOMAIN wroots
               PROVE  Win!Reads(k) = 1 \/ (Win!Dead(k) /\ Win!Reads(k) = 0)
  BY DEF OneRead
<1>2. wroots \in Seq(Watch) /\ k # 0
  BY WinTypesAre DEF TypeInv, TypeOK
<1>3. wroots[k].read \in {"armed", "ended", "failed"}
  <2>1. wroots[k] \in Watch
    BY <1>2
  <2>2. QED BY <2>1 DEF Watch
<1> DEFINE armed == {x \in {"armed"} : wroots[k].read = x}
           queued == {n \in DOMAIN port : port[n].key = k}
           worked == {x \in {k} : thread.work.key = x}
<1>4. Win!Reads(k) = Cardinality(armed) + Cardinality(queued) + Cardinality(worked)
  BY SameCardinality DEF Win!Reads
<1>5. CASE wroots[k].read = "armed"
  <2>1. armed = {"armed"} /\ queued = {} /\ worked = {}
    BY <1>1, <1>2, <1>5 DEF OneHolder
  <2>2. Cardinality(armed) = 1 /\ Cardinality(queued) = 0 /\ Cardinality(worked) = 0
    BY <2>1, OneOrNone
  <2> HIDE DEF armed, queued, worked
  <2>3. QED BY <1>4, <2>2
<1>6. CASE wroots[k].read # "armed" /\ thread.work.key = k
  <2>1. armed = {} /\ queued = {} /\ worked = {k}
    BY <1>1, <1>6 DEF OneHolder
  <2>2. Cardinality(armed) = 0 /\ Cardinality(queued) = 0 /\ Cardinality(worked) = 1
    BY <2>1, OneOrNone
  <2> HIDE DEF armed, queued, worked
  <2>3. QED BY <1>4, <2>2
<1>7. ASSUME wroots[k].read # "armed", NEW n \in DOMAIN port, port[n].key = k
      PROVE  Win!Reads(k) = 1
  <2>1. armed = {} /\ queued = {n} /\ worked = {}
    BY <1>1, <1>7 DEF OneHolder
  <2>2. Cardinality(armed) = 0 /\ Cardinality(queued) = 1 /\ Cardinality(worked) = 0
    BY <2>1, OneOrNone
  <2> HIDE DEF armed, queued, worked
  <2>3. QED BY <1>4, <2>2
<1>8. CASE wroots[k].read = "failed" /\ thread.work.key # k /\ \A n \in DOMAIN port : port[n].key # k
  <2>1. armed = {} /\ queued = {} /\ worked = {}
    BY <1>8
  <2>2. Cardinality(armed) = 0 /\ Cardinality(queued) = 0 /\ Cardinality(worked) = 0
    BY <2>1, OneOrNone
  <2> HIDE DEF armed, queued, worked
  <2>3. QED BY <1>4, <2>2, <1>8 DEF Win!Dead
<1>9. QED BY <1>1, <1>3, <1>5, <1>6, <1>7, <1>8 DEF OneHolder

LEMMA OneHolderStep ==
  ASSUME TypeInv, ~stop => OneHolder, [Next]_vars
  PROVE  ~stop' => OneHolder'
<1>1. wroots \in Seq(Watch) /\ port \in Seq(Completion) /\ thread \in Thread
  BY WinTypesAre DEF TypeInv, TypeOK
<1>2. /\ Len(wroots) \in Nat /\ DOMAIN wroots = 1 .. Len(wroots) /\ 0 \notin DOMAIN wroots
      /\ Len(port) \in Nat /\ DOMAIN port = 1 .. Len(port)
      /\ \A k \in DOMAIN wroots : wroots[k] \in Watch
  BY <1>1
<1>3. SUFFICES ASSUME ~stop, ~stop' PROVE OneHolder'
  <2>1. stop => stop'
    BY ShutFrame
  <2>2. QED BY <2>1
<1>4. OneHolder
  BY <1>3
<1> USE DEF OneHolder
<1>5. shut = "none"
  BY <1>3 DEF TypeInv, StopControl
<1>6. CASE UNCHANGED winVars
  BY <1>4, <1>6 DEF winVars
<1>7. CASE Win!Backend(scene.failures)
  <2>1. CASE Win!WatchNothing \/ Win!WatchFails(scene.failures)
    <3>1. UNCHANGED <<wroots, port, thread>>
      BY <2>1 DEF Win!WatchNothing, Win!WatchFails, Win!winVars
    <3>2. QED BY <1>4, <3>1
  <2>2. CASE Win!WatchRoot
    <3>1. call.path \in Dir /\ call.recursive \in BOOLEAN
      BY <2>2 DEF Win!WatchRoot, TypeInv, TypeOK, RootsTypes, RootsControl
    <3>2. /\ DOMAIN wroots' = 1 .. Len(wroots) + 1
          /\ \A k \in DOMAIN wroots : k \in DOMAIN wroots' /\ wroots'[k] = wroots[k]
          /\ wroots'[Len(wroots) + 1].read = "armed"
      BY <1>1, <1>2, <2>2, <3>1, WatchRootTypes
    <3>3. \A k \in DOMAIN wroots' : k \in DOMAIN wroots \/ k = Len(wroots) + 1
      BY <1>2, <3>2
    <3>4. UNCHANGED <<port, thread>>
      BY <2>2 DEF Win!WatchRoot
    <3>5. QED BY <1>4, <3>2, <3>3, <3>4
  <2>3. QED BY <1>7, <2>1, <2>2 DEF Win!Backend
<1>8. CASE Win!System(scene.failures)
  <2>1. PICK k \in DOMAIN wroots : Win!ReadCompletes(k) \/ Win!ReadFails(k)
    BY <1>8 DEF Win!System
  <2>2. PICK read \in {"ended", "failed"}, kind \in {"records", "overflow", "failed"} :
        /\ kind = "failed" <=> read = "failed"
        /\ wroots[k].read = "armed" /\ thread' = thread
        /\ wroots' \in Seq(Watch) /\ DOMAIN wroots' = DOMAIN wroots
        /\ wroots'[k].held = {} /\ wroots'[k].read = read
        /\ wroots'[k].path = wroots[k].path /\ wroots'[k].recursive = wroots[k].recursive
        /\ \A j \in DOMAIN wroots \ {k} : wroots'[j] = wroots[j]
        /\ port' \in Seq(Completion) /\ DOMAIN port' = 1 .. Len(port) + 1 /\ Len(port) \in Nat
        /\ \A n \in DOMAIN port : port'[n] = port[n]
        /\ port'[Len(port) + 1] = [kind |-> kind, key |-> k, ids |-> wroots[k].held]
    BY <1>1, <2>1, ReadEnds
  <2>3. /\ wroots' \in Seq(Watch) /\ DOMAIN wroots' = DOMAIN wroots
        /\ wroots'[k].held = {} /\ wroots'[k].read = read
        /\ wroots'[k].path = wroots[k].path /\ wroots'[k].recursive = wroots[k].recursive
        /\ \A j \in DOMAIN wroots \ {k} : wroots'[j] = wroots[j]
        /\ port' \in Seq(Completion) /\ DOMAIN port' = 1 .. Len(port) + 1 /\ Len(port) \in Nat
        /\ \A n \in DOMAIN port : port'[n] = port[n]
        /\ port'[Len(port) + 1] = [kind |-> kind, key |-> k, ids |-> wroots[k].held]
    BY <2>2
  <2>4. thread' = thread /\ wroots[k].read = "armed"
    BY <2>2
  <2>5. thread.work.key # k /\ \A n \in DOMAIN port : port[n].key # k
    BY <1>2, <1>4, <2>4
  <2>6. \A n \in DOMAIN port' : n \in DOMAIN port \/ n = Len(port) + 1
    BY <1>2, <2>3
  <2>7. Len(port) + 1 \in DOMAIN port' /\ \A n \in DOMAIN port : n \in DOMAIN port'
    BY <1>2, <2>3
  <2>8. /\ port'[Len(port) + 1].key = k /\ port'[Len(port) + 1].kind = kind
        /\ wroots'[k].read # "armed"
    BY <2>3
  <2>9. \A n \in DOMAIN port' :
          /\ port'[n].key \in DOMAIN wroots' /\ wroots'[port'[n].key].read # "armed"
          /\ port'[n].kind = "failed" <=> wroots'[port'[n].key].read = "failed"
          /\ thread'.work.key # port'[n].key
    BY <1>4, <2>2, <2>3, <2>4, <2>5, <2>6, <2>8
  <2>10. \A m, n \in DOMAIN port' : port'[m].key = port'[n].key => m = n
    BY <1>4, <2>3, <2>5, <2>6, <2>8
  <2>11. \A j \in DOMAIN wroots' : wroots'[j].read = "ended" =>
           thread'.work.key = j \/ \E n \in DOMAIN port' : port'[n].key = j
    BY <1>4, <2>3, <2>4, <2>7, <2>8
  <2>12. /\ thread'.pc = "wait" => thread'.work.key = 0
         /\ thread'.pc # "wait" => /\ thread'.pc # "exit" /\ thread'.work.key \in DOMAIN wroots'
                                   /\ wroots'[thread'.work.key].read # "armed"
                                   /\ thread'.pc = "failed" <=> wroots'[thread'.work.key].read = "failed"
    BY <1>4, <2>3, <2>4, <2>5
  <2>13. QED BY <2>9, <2>10, <2>11, <2>12
<1>9. CASE Win!Dequeue
  <2>1. /\ DOMAIN port' = 1 .. Len(port) - 1
        /\ \A n \in DOMAIN port' : n + 1 \in DOMAIN port /\ port'[n] = port[n + 1]
        /\ 1 \in DOMAIN port
        /\ thread' = [pc |-> port[1].kind, work |-> port[1]]
    BY <1>1, <1>9, DequeueTypes
  <2>2. wroots' = wroots /\ thread.work.key = 0
    BY <1>4, <1>9 DEF Win!Dequeue
  <2>3. port[1].kind \in {"records", "overflow", "failed"}
    BY <1>3, <2>1 DEF TypeInv, PortControl
  <2>4. \A n \in DOMAIN port : n = 1 \/ (n - 1 \in DOMAIN port' /\ port'[n - 1] = port[n])
    <3>1. \A n \in DOMAIN port : n = 1 \/ n - 1 \in DOMAIN port'
      BY <1>2, <2>1
    <3>2. \A n \in DOMAIN port : (n - 1) + 1 = n
      BY <1>2
    <3>3. QED BY <2>1, <3>1, <3>2
  <2>5. \A n \in DOMAIN port' : n \in Nat /\ n + 1 # 1
    BY <1>2, <2>1
  <2>6. \A n \in DOMAIN port' :
          /\ port'[n].key \in DOMAIN wroots' /\ wroots'[port'[n].key].read # "armed"
          /\ port'[n].kind = "failed" <=> wroots'[port'[n].key].read = "failed"
          /\ thread'.work.key # port'[n].key
    BY <1>4, <2>1, <2>2, <2>5
  <2>7. \A m, n \in DOMAIN port' : port'[m].key = port'[n].key => m = n
    <3>1. \A m, n \in DOMAIN port' : port'[m].key = port'[n].key => m + 1 = n + 1
      BY <1>4, <2>1
    <3>2. QED BY <2>5, <3>1
  <2>8. ASSUME NEW j \in DOMAIN wroots', wroots'[j].read = "ended"
        PROVE  thread'.work.key = j \/ \E n \in DOMAIN port' : port'[n].key = j
    <3>1. j # 0 /\ wroots[j].read = "ended" /\ j \in DOMAIN wroots
      BY <1>2, <2>2, <2>8
    <3>2. PICK n \in DOMAIN port : port[n].key = j
      BY <1>4, <2>2, <3>1
    <3>3. CASE n = 1
      BY <2>1, <3>2, <3>3
    <3>4. CASE n # 1
      BY <2>4, <3>2, <3>4
    <3>5. QED BY <3>3, <3>4
  <2>9. /\ thread'.pc = port[1].kind /\ thread'.work.key = port[1].key
    BY <2>1
  <2>10. QED BY <1>4, <2>1, <2>2, <2>3, <2>6, <2>7, <2>8, <2>9
<1>10. CASE Win!Exit
  BY <1>3, <1>10 DEF Win!Exit
<1>11. CASE Win!Gone
  BY <1>4, <1>11 DEF Win!Gone
<1>12. CASE Win!Failed
  <2>1. UNCHANGED <<wroots, port>> /\ thread' = [pc |-> "wait", work |-> Win!Nothing] /\ thread.pc = "failed"
    BY <1>12 DEF Win!Failed, Win!Rewait
  <2>2. thread'.pc = "wait" /\ thread'.work.key = 0
    BY <2>1 DEF Win!Nothing
  <2>3. wroots[thread.work.key].read = "failed"
    BY <1>4, <2>1
  <2>4. QED BY <1>2, <1>4, <2>1, <2>2, <2>3
<1>13. CASE Win!CopyRecords \/ Win!HandleRecords
  <2>1. UNCHANGED <<wroots, port>> /\ thread.pc \in {"records", "handle"}
    BY <1>13 DEF Win!CopyRecords, Win!HandleRecords
  <2>2. \E pc \in {"handle", "rearm"} : thread' = [thread EXCEPT !.pc = pc]
    BY <1>13 DEF Win!CopyRecords, Win!HandleRecords
  <2>3. thread'.pc \in {"handle", "rearm"} /\ thread'.work = thread.work
    BY <1>1, <2>2 DEF Thread
  <2>4. QED BY <1>4, <2>1, <2>3
<1>14. CASE Win!Rearm(scene.failures) \/ Win!Overflow(scene.failures)
  <2> DEFINE k == thread.work.key
  <2>1. PICK ok \in BOOLEAN : Win!IssueRead(k, ok)
    BY <1>14, SceneTypes DEF Win!Rearm, Win!Overflow, TypeInv, TypeOK, WatchTypes
  <2>2. k \in DOMAIN wroots /\ port' = port /\ thread.pc \in {"rearm", "overflow"}
    BY <1>14 DEF Win!Rearm, Win!Overflow
  <2>3. thread' = [pc |-> "wait", work |-> Win!Nothing]
    BY <1>14 DEF Win!Rearm, Win!Overflow, Win!Rewait
  <2>4. /\ DOMAIN wroots' = DOMAIN wroots /\ wroots'[k].read \in {"armed", "failed"}
        /\ \A j \in DOMAIN wroots \ {k} : wroots'[j] = wroots[j]
    BY <1>1, <2>1, <2>2, IssueReadTypes
  <2>5. thread'.pc = "wait" /\ thread'.work.key = 0
    BY <2>3 DEF Win!Nothing
  <2>6. \A n \in DOMAIN port : port[n].key # k
    BY <1>4
  <2>7. QED BY <1>2, <1>4, <2>2, <2>4, <2>5, <2>6
<1>15. CASE Win!Shutdown
  BY <1>5, <1>15 DEF Win!Shutdown, Win!Post, Win!Cancel, Win!Clear, Win!ClosePort
<1>16. CASE Change
  <2>1. PICK d \in scene.at : Win!Collect(d, Len(log'))
    BY <1>16 DEF Change
  <2>2. Len(log') \in Nat
    BY <1>16, ChangeTypes DEF TypeInv
  <2>3. DOMAIN wroots' = DOMAIN wroots /\ \A k \in DOMAIN wroots : wroots'[k].read = wroots[k].read
    BY <1>1, <2>1, <2>2, CollectTypes
  <2>4. UNCHANGED <<port, thread>>
    BY <1>16 DEF Change
  <2>5. QED BY <1>4, <2>3, <2>4
<1>17. QED BY <1>6, <1>7, <1>8, <1>9, <1>10, <1>11, <1>12, <1>13, <1>14, <1>15, <1>16, WinFrame
          DEF Win!Thread

\* Until shutdown each watch has exactly one read, completion or step of the thread, but
\* for one whose read has failed (windows.rs:107-164).
THEOREM NoWatchFallsAsleep == Spec => []OneRead
<1>1. Init => TypeInv /\ RootsInv /\ (~stop => OneHolder)
  <2>1. ASSUME Init PROVE OneHolder
    BY <2>1 DEF Init, Win!WinInit, Win!Nothing, OneHolder
  <2>2. QED BY <2>1, TypeInvInit
<1>2. TypeInv /\ RootsInv /\ (~stop => OneHolder) /\ [Next]_vars
        => (TypeInv /\ RootsInv /\ (~stop => OneHolder))'
  BY TypeInvStep, OneHolderStep
<1>3. TypeInv /\ (~stop => OneHolder) => OneRead
  BY OneHolderOneRead
<1>4. QED BY <1>1, <1>2, <1>3, PTL DEF Spec
==============================================================================
