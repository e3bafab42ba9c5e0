-------------------------- MODULE WorkerLoop_proofs --------------------------
(***************************************************************************)
(* Proofs about WorkerLoop, for any scenes, changes and calls: every       *)
(* safety property of the run `worker`.                                    *)
(*   - TypeOK: the worker holds the two mutexes at the right points only;  *)
(*   - nothing is lost between the backend, the queue and the worker       *)
(*     (NothingForgotten, SwapHandsBackNothing);                           *)
(*   - the worker does not sleep through it (NoLostChange);                *)
(*   - clearing the flag hides no root (RootsAnnounced);                   *)
(*   - what makes a batch go out too early (SettledUnlessStarved).         *)
(***************************************************************************)
EXTENDS WorkerLoop, TLAPS

------------------------------------------------------------------------------
(* What the steps of one thread leave alone: the proofs below only have to     *)
(* look at the rest.                                                           *)

\* The worker touches neither the backend nor the calls.
LEMMA WorkerFrame ==
  ASSUME Worker
  PROVE  /\ UNCHANGED <<native, arrivals, bpc, inflight, readable, wake, closed, cpc>>
         /\ stop' = stop
BY DEF Worker, shared, backend, history, window,
       WaitForever, WaitToSettle, LockQueue, TakeChanges, TimedOut, MustPark, Park,
       WakeByTimeout, CheckShutdown, SwapFlag, TakeRoots, AnswerRoot, RootsDone,
       LockHandlers, RunHandlers, ApplyTransaction, CrawlRoots

\* Only these steps of the worker touch what it shares with the others.
LEMMA WorkerShared ==
  ASSUME Worker
  PROVE  \/ UNCHANGED <<queue, queueHeld, configHeld, handlers, has_notifications, notifications>>
         \/ WaitToSettle \/ LockQueue \/ TakeChanges \/ TimedOut \/ Park \/ SwapFlag
         \/ TakeRoots \/ LockHandlers \/ RunHandlers
BY DEF Worker, shared, backend, history, window, WaitForever, MustPark, WakeByTimeout,
       CheckShutdown, AnswerRoot, RootsDone, ApplyTransaction, CrawlRoots

\* Only these steps of the worker touch the queued changes, its own, or what is
\* owed; they keep the list of roots and the window.
LEMMA WorkerChanges ==
  ASSUME Worker
  PROVE  \/ UNCHANGED <<queue, pending_changes, owed>>
         \/ TakeChanges \/ ApplyTransaction \/ CrawlRoots
BY DEF Worker, shared, backend, history, window,
       WaitForever, WaitToSettle, LockQueue, TimedOut, MustPark, Park,
       WakeByTimeout, CheckShutdown, SwapFlag, TakeRoots, AnswerRoot, RootsDone,
       LockHandlers, RunHandlers

\* The backend changes the queue in two steps and wakes the worker in one.
LEMMA BackendFrame ==
  ASSUME BackendThread
  PROVE  /\ UNCHANGED <<queueHeld, configHeld, handlers, has_notifications, notifications, stop,
                        pending_changes, batch, todo, timed, settled, arrivals, cpc,
                        answered, expired, disturbed, excuse>>
         /\ UNCHANGED wpc \/ NotifyWorker
         /\ UNCHANGED <<queue, owed>> \/ (\E e \in Change \cup {Overflow} : HandleEvent(e)) \/ ProcessEvents
BY DEF BackendThread, shared, worker, history, window, Poll, HandleMessage, HandleEvent, ReadDone,
       Callback, Completion, ReadFilter, ProcessEvents, NotifyWorker

\* A call changes its own program counter and one thing more.
LEMMA CallFrame ==
  ASSUME NEW c \in Call, CallStep(c)
  PROVE  /\ UNCHANGED <<queueHeld, configHeld, pending_changes, batch, todo, timed, settled,
                        native, arrivals, bpc, inflight, readable,
                        owed, answered, expired, disturbed, excuse>>
         /\ UNCHANGED wpc \/ CallNotify(c)
         /\ UNCHANGED queue \/ RequestRecrawl(c)
         /\ UNCHANGED handlers \/ AddHandler(c)
         /\ UNCHANGED has_notifications \/ AddRootStore(c)
         /\ UNCHANGED notifications \/ AddRootPush(c)
         /\ UNCHANGED stop \/ ShutdownStore(c)
         /\ UNCHANGED wake \/ RefreshConfig(c) \/ StopBackend(c)
         /\ UNCHANGED closed \/ StopBackend(c)
BY DEF CallStep, shared, worker, backend, history, window, AddRootCheck, AddRootPush,
       AddRootStore, SetFilter, RefreshConfig, RequestRecrawl, AddHandler, ShutdownStore,
       StopBackend, CallNotify

\* The other steps, of the OS and of time, leave both mutexes and the queue alone.
LEMMA OtherFrame ==
  ASSUME \/ SpuriousWakeup
         \/ \E e \in Change \cup {Overflow} : Arrive(e)
         \/ Elapse
         \/ \E c \in Call : StartCall(c)
  PROVE  /\ UNCHANGED <<shared, pending_changes, batch, todo, timed, settled, owed, answered>>
         /\ UNCHANGED wpc \/ SpuriousWakeup
         /\ UNCHANGED cpc \/ \E c \in Call : StartCall(c)
BY DEF shared, worker, backend, history, window, SpuriousWakeup, Arrive, Elapse, StartCall

------------------------------------------------------------------------------
(* Type correctness *)

LEMMA QueueTypes ==
  /\ NoChanges \in PendingChanges
  /\ \A q \in PendingChanges : Recrawl(q) \in PendingChanges
BY DEF NoChanges, PendingChanges, Recrawl

LEMMA SharedTypesStep ==
  ASSUME Types, Next
  PROVE  SharedTypes'
<1> USE DEF Types, SharedTypes, WorkerTypes, PendingChanges
<1>1. CASE Worker
  <2>1. CASE UNCHANGED <<queue, queueHeld, configHeld, handlers, has_notifications, notifications>>
    BY <1>1, <2>1, WorkerFrame
  <2>2. ASSUME WaitToSettle \/ LockQueue \/ Park PROVE SharedTypes'
    BY <2>2 DEF WaitToSettle, LockQueue, Park
  <2>3. ASSUME TakeChanges \/ TimedOut PROVE SharedTypes'
    BY <2>3 DEF TakeChanges, TimedOut, ReleaseLocks
  <2>4. ASSUME SwapFlag PROVE SharedTypes'
    BY <2>4 DEF SwapFlag
  <2>5. ASSUME TakeRoots PROVE SharedTypes'
    BY <2>5 DEF TakeRoots
  <2>6. ASSUME LockHandlers \/ RunHandlers PROVE SharedTypes'
    BY <2>6 DEF LockHandlers, RunHandlers
  <2>7. QED BY <1>1, <2>1, <2>2, <2>3, <2>4, <2>5, <2>6, WorkerShared
<1>2. CASE BackendThread
  <2>1. ASSUME NEW e \in Change \cup {Overflow}, HandleEvent(e) PROVE queue' \in PendingChanges
    BY <2>1 DEF HandleEvent, Recrawl, AddWatcher
  <2>2. ASSUME ProcessEvents PROVE queue' \in PendingChanges
    <3>1. CASE Overflow \in inflight
      <4>1. queue' = Recrawl(queue)
        BY <2>2, <3>1 DEF ProcessEvents
      <4>2. QED BY <4>1, QueueTypes
    <3>2. CASE Overflow \notin inflight
      <4>1. inflight \subseteq Change
        BY <3>2 DEF BackendTypes
      <4>2. QED BY <2>2, <3>2, <4>1 DEF ProcessEvents
    <3>3. QED BY <3>1, <3>2
  <2>3. QED BY <1>2, <2>1, <2>2, BackendFrame
<1>3. ASSUME NEW c \in Call, CallStep(c) PROVE SharedTypes'
  <2>1. queue' \in PendingChanges
    <3>1. ASSUME RequestRecrawl(c) PROVE queue' \in PendingChanges
      BY <3>1, QueueTypes DEF RequestRecrawl
    <3>2. QED BY <1>3, <3>1, CallFrame
  <2>2. handlers' \subseteq HandlerCall
    BY <1>3, CallFrame DEF AddHandler
  <2>3. has_notifications' \in BOOLEAN /\ stop' \in BOOLEAN
    BY <1>3, CallFrame DEF AddRootStore, ShutdownStore
  <2>4. notifications' \in Seq(RootCall)
    BY <1>3, CallFrame DEF AddRootPush
  <2>5. QED BY <1>3, <2>1, <2>2, <2>3, <2>4, CallFrame
<1>4. QED BY <1>1, <1>2, <1>3, OtherFrame DEF Next, Same, shared

LEMMA WorkerTypesStep ==
  ASSUME Types, Next
  PROVE  WorkerTypes'
<1> USE DEF Types, SharedTypes, WorkerTypes, PendingChanges, WorkerPc, WaitPc
<1>1. CASE Worker
  <2>1. ASSUME WaitForever \/ WaitToSettle \/ LockQueue \/ MustPark PROVE WorkerTypes'
    BY <2>1 DEF WaitForever, WaitToSettle, LockQueue, MustPark
  <2>2. ASSUME TakeChanges \/ TimedOut \/ Park PROVE WorkerTypes'
    BY <2>2 DEF TakeChanges, TimedOut, Park
  <2>3. ASSUME WakeByTimeout \/ CheckShutdown \/ SwapFlag PROVE WorkerTypes'
    BY <2>3 DEF WakeByTimeout, CheckShutdown, SwapFlag
  <2>4. ASSUME TakeRoots \/ RootsDone PROVE WorkerTypes'
    BY <2>4 DEF TakeRoots, RootsDone
  <2>5. ASSUME AnswerRoot PROVE WorkerTypes'
    BY <2>5 DEF AnswerRoot
  <2>6. ASSUME LockHandlers \/ RunHandlers PROVE WorkerTypes'
    BY <2>6 DEF LockHandlers, RunHandlers
  <2>7. ASSUME ApplyTransaction PROVE WorkerTypes'
    BY <2>7 DEF ApplyTransaction, NoChanges
  <2>8. ASSUME CrawlRoots PROVE WorkerTypes'
    BY <2>8 DEF CrawlRoots
  <2>9. QED BY <1>1, <2>1, <2>2, <2>3, <2>4, <2>5, <2>6, <2>7, <2>8 DEF Worker
<1>2. CASE BackendThread
  BY <1>2, BackendFrame DEF NotifyWorker, Notify
<1>3. ASSUME NEW c \in Call, CallStep(c) PROVE WorkerTypes'
  BY <1>3, CallFrame DEF CallNotify, Notify
<1>4. QED BY <1>1, <1>2, <1>3, OtherFrame DEF Next, Same, SpuriousWakeup

LEMMA BackendTypesStep ==
  ASSUME Types, Next, scene' = scene
  PROVE  BackendTypes'
<1> USE DEF Types, BackendTypes, BackendPc
<1>1. CASE BackendThread
  <2>1. ASSUME Poll PROVE BackendTypes'
    <3>1. readable' \in BOOLEAN
      BY <2>1 DEF Poll
    <3>2. QED BY <2>1, <3>1 DEF Poll
  <2>2. ASSUME HandleMessage \/ ReadDone \/ ReadFilter PROVE BackendTypes'
    BY <2>2 DEF HandleMessage, ReadDone, ReadFilter
  <2>3. ASSUME NEW e \in Change \cup {Overflow}, HandleEvent(e) PROVE BackendTypes'
    BY <2>3 DEF HandleEvent
  <2>4. ASSUME Callback \/ Completion PROVE BackendTypes'
    BY <2>4 DEF Callback, Completion
  <2>5. ASSUME ProcessEvents \/ NotifyWorker PROVE BackendTypes'
    BY <2>5 DEF ProcessEvents, NotifyWorker
  <2>6. QED BY <1>1, <2>1, <2>2, <2>3, <2>4, <2>5 DEF BackendThread
<1>2. ASSUME NEW e \in Change \cup {Overflow}, Arrive(e) PROVE BackendTypes'
  <2>1. scene.arrivals \in Nat
    BY ScenesAssumption
  <2>2. QED BY <1>2, <2>1 DEF Arrive
<1>3. ASSUME NEW c \in Call, CallStep(c) PROVE BackendTypes'
  BY <1>3, CallFrame DEF RefreshConfig, StopBackend
<1>4. ASSUME NEW c \in Call, StartCall(c) PROVE BackendTypes'
  BY <1>4 DEF StartCall, backend
<1>5. CASE SpuriousWakeup \/ Elapse
  BY <1>5 DEF SpuriousWakeup, Elapse, backend
<1>6. QED BY <1>1, <1>2, <1>3, <1>4, <1>5, WorkerFrame DEF Next, Same

LEMMA HistoryTypesStep ==
  ASSUME Types, Next
  PROVE  HistoryTypes'
<1> USE DEF Types, HistoryTypes
<1>1. CASE Worker
  <2>1. ASSUME AnswerRoot PROVE HistoryTypes'
    BY <2>1 DEF AnswerRoot, window, WorkerTypes
  <2>2. ASSUME LockQueue PROVE HistoryTypes'
    BY <2>2 DEF LockQueue, window
  <2>3. ASSUME ApplyTransaction \/ CrawlRoots PROVE HistoryTypes'
    BY <2>3 DEF ApplyTransaction, CrawlRoots, window
  <2>4. CASE UNCHANGED history
    BY <2>4 DEF history, window
  <2>5. QED
    BY <1>1, <2>1, <2>2, <2>3, <2>4
    DEF Worker, WaitForever, WaitToSettle, TakeChanges, TimedOut, MustPark, Park,
        WakeByTimeout, CheckShutdown, SwapFlag, TakeRoots, RootsDone, LockHandlers, RunHandlers
<1>2. CASE BackendThread
  <2>1. ASSUME NEW e \in Change \cup {Overflow}, HandleEvent(e) PROVE owed' \subseteq Change
    BY <2>1 DEF HandleEvent
  <2>2. ASSUME ProcessEvents PROVE owed' \subseteq Change
    BY <2>2 DEF ProcessEvents, BackendTypes
  <2>3. QED BY <1>2, <2>1, <2>2, BackendFrame
<1>3. ASSUME NEW e \in Change \cup {Overflow}, Arrive(e) PROVE HistoryTypes'
  BY <1>3 DEF Arrive, InWindow
<1>4. CASE Elapse
  BY <1>4 DEF Elapse
<1>5. ASSUME NEW c \in Call, CallStep(c) PROVE HistoryTypes'
  BY <1>5, CallFrame
<1>6. CASE SpuriousWakeup \/ \E c \in Call : StartCall(c)
  BY <1>6 DEF SpuriousWakeup, StartCall, history, window
<1>7. QED BY <1>1, <1>2, <1>3, <1>4, <1>5, <1>6 DEF Next, Same

LEMMA CallTypesStep ==
  ASSUME Types, Next
  PROVE  cpc' \in [Call -> CallPc]
<1> USE DEF Types, Goto, CallPc
<1>1. ASSUME NEW c \in Call, CallStep(c) PROVE cpc' \in [Call -> CallPc]
  BY <1>1 DEF CallStep, AddRootCheck, AddRootPush, AddRootStore, SetFilter, RefreshConfig,
              RequestRecrawl, AddHandler, ShutdownStore, StopBackend, CallNotify
<1>2. ASSUME NEW c \in Call, StartCall(c) PROVE cpc' \in [Call -> CallPc]
  BY <1>2 DEF StartCall
<1>3. QED BY <1>1, <1>2, WorkerFrame, BackendFrame, OtherFrame DEF Next, Same

\* The worker locks and unlocks as its program counter says; nobody else does.
LEMMA LocksStep ==
  ASSUME Types, LocksHeld, Next
  PROVE  LocksHeld'
<1> USE DEF Types, SharedTypes, WorkerTypes, LocksHeld, WaitPc
<1>1. CASE Worker
  <2>1. ASSUME WaitForever \/ WaitToSettle \/ MustPark PROVE LocksHeld'
    BY <2>1 DEF WaitForever, WaitToSettle, MustPark, shared
  <2>2. ASSUME LockQueue PROVE LocksHeld'
    BY <2>2 DEF LockQueue
  <2>3. ASSUME TakeChanges \/ TimedOut PROVE LocksHeld'
    BY <2>3 DEF TakeChanges, TimedOut, ReleaseLocks
  <2>4. ASSUME Park \/ WakeByTimeout PROVE LocksHeld'
    BY <2>4 DEF Park, WakeByTimeout, shared
  <2>5. ASSUME CheckShutdown \/ SwapFlag \/ TakeRoots \/ AnswerRoot \/ RootsDone PROVE LocksHeld'
    BY <2>5 DEF CheckShutdown, SwapFlag, TakeRoots, AnswerRoot, RootsDone, shared
  <2>6. ASSUME LockHandlers \/ RunHandlers PROVE LocksHeld'
    BY <2>6 DEF LockHandlers, RunHandlers
  <2>7. ASSUME ApplyTransaction PROVE LocksHeld'
    BY <2>7 DEF ApplyTransaction, shared
  <2>8. ASSUME CrawlRoots PROVE LocksHeld'
    BY <2>8 DEF CrawlRoots, shared
  <2>9. QED BY <1>1, <2>1, <2>2, <2>3, <2>4, <2>5, <2>6, <2>7, <2>8 DEF Worker
<1>2. CASE BackendThread
  BY <1>2, BackendFrame DEF NotifyWorker, Notify
<1>3. ASSUME NEW c \in Call, CallStep(c) PROVE LocksHeld'
  BY <1>3, CallFrame DEF CallNotify, Notify
<1>4. CASE SpuriousWakeup
  BY <1>4 DEF SpuriousWakeup, shared
<1>5. QED BY <1>1, <1>2, <1>3, <1>4, OtherFrame DEF Next, Same, shared

\* Every variable has its type, and the worker holds the mutex of the queue from
\* LockQueue until it takes the changes or sleeps, the config during a timed wait
\* and while handlers run, and at no other point (worker.rs:129-150, pending.rs).
THEOREM TypeCorrect == Spec => []TypeOK
<1>1. Init => TypeOK
  <2> SUFFICES ASSUME Init PROVE TypeOK
    OBVIOUS
  <2>1. SharedTypes
    <3>1. queue \in PendingChanges /\ notifications \in Seq(RootCall) /\ handlers \subseteq HandlerCall
      BY QueueTypes DEF Init
    <3>2. /\ queueHeld \in BOOLEAN /\ configHeld \in BOOLEAN
          /\ has_notifications \in BOOLEAN /\ stop \in BOOLEAN
      BY DEF Init
    <3>3. QED BY <3>1, <3>2 DEF SharedTypes
  <2>2. WorkerTypes
    <3>1. wpc \in WorkerPc /\ pending_changes \in PendingChanges /\ todo \in Seq(RootCall)
      BY QueueTypes DEF Init, WorkerPc
    <3>2. batch \in BOOLEAN /\ timed \in BOOLEAN /\ settled \in BOOLEAN
      BY DEF Init
    <3>3. QED BY <3>1, <3>2 DEF WorkerTypes
  <2>3. BackendTypes
    <3>1. arrivals \in 0 .. scene.arrivals
      BY ScenesAssumption DEF Init
    <3>2. native \subseteq Change \cup {Overflow} /\ inflight \subseteq Change \cup {Overflow}
      BY DEF Init
    <3>3. bpc \in BackendPc
      BY DEF Init, BackendPc
    <3>4. readable \in BOOLEAN /\ wake \in BOOLEAN /\ closed \in BOOLEAN
      BY DEF Init
    <3>5. QED BY <3>1, <3>2, <3>3, <3>4 DEF BackendTypes
  <2>4. HistoryTypes
    BY Zenon DEF Init, HistoryTypes
  <2>5. LocksHeld
    BY DEF Init, LocksHeld, WaitPc
  <2>6. QED BY <2>1, <2>2, <2>3, <2>4, <2>5 DEF Init, TypeOK, Types, CallPc
<1>2. TypeOK /\ [Next]_vars => TypeOK'
  <2>1. ASSUME TypeOK, Next PROVE TypeOK'
    <3>1. scene' = scene
      BY <2>1 DEF Next, Same
    <3>2. QED
      BY <2>1, <3>1, SharedTypesStep, WorkerTypesStep, BackendTypesStep, HistoryTypesStep,
         CallTypesStep, LocksStep DEF TypeOK, Types
  <2>2. ASSUME TypeOK, UNCHANGED vars PROVE TypeOK'
    BY <2>2 DEF vars, shared, worker, backend, window, history, TypeOK, Types, SharedTypes,
                WorkerTypes, BackendTypes, HistoryTypes, LocksHeld
  <2>3. QED BY <2>1, <2>2
<1>3. QED BY <1>1, <1>2, PTL DEF Spec

------------------------------------------------------------------------------
(* Nothing is lost *)

\* What the backend adds to the queue, all at once or one by one.
LEMMA BackendAdds ==
  ASSUME Types,
         ProcessEvents \/ \E e \in Change \cup {Overflow} : HandleEvent(e)
  PROVE  /\ queue' = Recrawl(queue)
         \/ /\ queue'.recrawl = queue.recrawl
            /\ queue.recrawl \/ \E new \in SUBSET Change : /\ queue'.changes = queue.changes \cup new
                                                           /\ owed' = owed \cup new
            /\ queue.recrawl => queue' = queue
<1> USE DEF Types, SharedTypes
<1>1. ASSUME NEW e \in Change \cup {Overflow}, HandleEvent(e)
      PROVE  \/ queue' = Recrawl(queue)
             \/ \E new \in SUBSET Change :
                  /\ queue' = IF queue.recrawl THEN queue ELSE [queue EXCEPT !.changes = @ \cup new]
                  /\ owed' = owed \cup new
  <2>1. CASE e = Overflow
    BY <1>1, <2>1 DEF HandleEvent
  <2>2. CASE e # Overflow
    BY <1>1, <2>2 DEF HandleEvent, AddWatcher
  <2>3. QED BY <2>1, <2>2
<1>2. ASSUME ProcessEvents
      PROVE  \/ queue' = Recrawl(queue)
             \/ \E new \in SUBSET Change :
                  /\ queue' = IF queue.recrawl THEN queue ELSE [queue EXCEPT !.changes = @ \cup new]
                  /\ owed' = owed \cup new
  <2>1. CASE Overflow \in inflight
    BY <1>2, <2>1 DEF ProcessEvents
  <2>2. CASE Overflow \notin inflight
    <3>1. inflight \in SUBSET Change
      BY <2>2 DEF BackendTypes
    <3>2. QED BY <1>2, <2>2, <3>1 DEF ProcessEvents
  <2>3. QED BY <2>1, <2>2
<1>3. QED BY <1>1, <1>2 DEF PendingChanges

\* A set of changes that is queued, in the worker's hands, or will be found by a
\* crawl stays so until the tree was brought up to date.
LEMMA ForgottenStep ==
  ASSUME Types, NothingForgotten, Next
  PROVE  NothingForgotten'
<1> USE DEF Types, SharedTypes, WorkerTypes, PendingChanges, NothingForgotten
<1>1. CASE Worker
  <2>1. ASSUME TakeChanges PROVE NothingForgotten'
    BY <2>1 DEF TakeChanges, history
  <2>2. ASSUME ApplyTransaction PROVE NothingForgotten'
    <3>1. /\ pending_changes' = NoChanges /\ queue' = queue /\ ~pending_changes.recrawl
          /\ owed' = owed \ pending_changes.changes
      BY <2>2 DEF ApplyTransaction, shared
    <3>2. QED BY <3>1 DEF NoChanges
  <2>3. ASSUME CrawlRoots PROVE NothingForgotten'
    BY <2>3 DEF CrawlRoots
  <2>4. QED BY <1>1, <2>1, <2>2, <2>3, WorkerChanges
<1>2. CASE BackendThread
  <2>1. ASSUME queue' = Recrawl(queue) PROVE NothingForgotten'
    BY <2>1 DEF Recrawl
  <2>2. QED BY <1>2, <2>1, BackendFrame, BackendAdds
<1>3. ASSUME NEW c \in Call, CallStep(c) PROVE NothingForgotten'
  <2>1. ASSUME RequestRecrawl(c) PROVE queue'.recrawl
    BY <2>1 DEF RequestRecrawl, Recrawl
  <2>2. QED BY <1>3, <2>1, CallFrame
<1>4. QED BY <1>1, <1>2, <1>3, OtherFrame DEF Next, Same, shared

\* No change the OS reported is lost between its thread, the queue and the worker
\* (PendingChanges::add and recrawl, the swaps in take and take_timeout).
THEOREM NothingIsForgotten == Spec => []NothingForgotten
<1>1. Init => NothingForgotten
  BY DEF Init, NothingForgotten
<1>2. TypeOK /\ NothingForgotten /\ [Next]_vars => NothingForgotten'
  <2>1. ASSUME NothingForgotten, UNCHANGED vars PROVE NothingForgotten'
    BY <2>1 DEF NothingForgotten, vars, shared, worker, history
  <2>2. QED BY <2>1, ForgottenStep DEF TypeOK
<1>3. QED BY <1>1, <1>2, TypeCorrect, PTL DEF Spec

\* Why the worker's own list is empty whenever it waits: a recrawl stands for all
\* changes, and whoever settles has swapped nothing in.
HandsEmpty ==
  /\ queue.recrawl => queue.changes = {}
  /\ pending_changes.recrawl => pending_changes.changes = {}
  /\ wpc \in WaitPc \cup {"loop", "handlers"} \/ settled => IsEmpty(pending_changes)

LEMMA HandsEmptyStep ==
  ASSUME Types, HandsEmpty, Next
  PROVE  HandsEmpty'
<1> USE DEF Types, SharedTypes, WorkerTypes, HandsEmpty, IsEmpty, WaitPc
<1>1. CASE Worker
  <2>1. ASSUME TakeChanges PROVE HandsEmpty'
    BY <2>1 DEF TakeChanges
  <2>2. ASSUME ApplyTransaction PROVE HandsEmpty'
    BY <2>2 DEF ApplyTransaction, NoChanges, shared
  <2>3. ASSUME CrawlRoots PROVE HandsEmpty'
    <3>1. /\ pending_changes'.recrawl = FALSE /\ pending_changes'.changes = {}
          /\ queue' = queue
      BY <2>3 DEF CrawlRoots, PendingChanges, shared
    <3>2. QED BY <3>1
  <2>4. ASSUME UNCHANGED <<queue, pending_changes, owed>>,
               WaitForever \/ WaitToSettle \/ LockQueue \/ MustPark \/ Park \/ WakeByTimeout
        PROVE  HandsEmpty'
    BY <2>4 DEF WaitForever, WaitToSettle, LockQueue, MustPark, Park, WakeByTimeout
  <2>5. ASSUME TimedOut PROVE HandsEmpty'
    BY <2>5 DEF TimedOut
  <2>6. ASSUME UNCHANGED <<queue, pending_changes, owed>>,
               CheckShutdown \/ SwapFlag \/ TakeRoots \/ AnswerRoot \/ RootsDone
        PROVE  HandsEmpty'
    BY <2>6 DEF CheckShutdown, SwapFlag, TakeRoots, AnswerRoot, RootsDone
  <2>7. ASSUME UNCHANGED <<queue, pending_changes, owed>>, LockHandlers \/ RunHandlers
        PROVE  HandsEmpty'
    BY <2>7 DEF LockHandlers, RunHandlers
  <2>8. QED BY <1>1, <2>1, <2>2, <2>3, <2>4, <2>5, <2>6, <2>7, WorkerChanges DEF Worker
<1>2. CASE BackendThread
  <2>1. wpc' = wpc \/ (wpc = "waiting" /\ wpc' = "relock")
    BY <1>2, BackendFrame DEF NotifyWorker, Notify
  <2>2. queue'.recrawl => queue'.changes = {}
    <3>1. \/ queue' = Recrawl(queue)
          \/ queue'.recrawl = queue.recrawl /\ (queue.recrawl => queue' = queue)
      BY <1>2, BackendFrame, BackendAdds
    <3>2. ASSUME queue' = Recrawl(queue) PROVE queue'.changes = {}
      BY <3>2 DEF Recrawl
    <3>3. ASSUME queue' = queue PROVE queue'.recrawl => queue'.changes = {}
      BY <3>3
    <3>4. QED BY <3>1, <3>2, <3>3
  <2>3. QED BY <1>2, <2>1, <2>2, BackendFrame
<1>3. ASSUME NEW c \in Call, CallStep(c) PROVE HandsEmpty'
  <2>1. wpc' = wpc \/ (wpc = "waiting" /\ wpc' = "relock")
    BY <1>3, CallFrame DEF CallNotify, Notify
  <2>2. queue'.recrawl => queue'.changes = {}
    BY <1>3, CallFrame DEF RequestRecrawl, Recrawl
  <2>3. QED BY <1>3, <2>1, <2>2, CallFrame
<1>4. QED BY <1>1, <1>2, <1>3, OtherFrame DEF Next, Same, SpuriousWakeup, shared

LEMMA HandsAreEmpty == Spec => []HandsEmpty
<1>1. Init => HandsEmpty
  BY DEF Init, HandsEmpty, NoChanges, IsEmpty
<1>2. TypeOK /\ HandsEmpty /\ [Next]_vars => HandsEmpty'
  <2>1. ASSUME HandsEmpty, UNCHANGED vars PROVE HandsEmpty'
    BY <2>1 DEF HandsEmpty, IsEmpty, vars, shared, worker
  <2>2. QED BY <2>1, HandsEmptyStep DEF TypeOK
<1>3. QED BY <1>1, <1>2, TypeCorrect, PTL DEF Spec

\* The worker never goes to wait with changes in its own list, so the next swap
\* puts nothing old behind what is newer (PendingChangesLock::take_timeout, take).
THEOREM SwapsHandBackNothing == Spec => []SwapHandsBackNothing
<1>1. HandsEmpty => SwapHandsBackNothing
  BY DEF HandsEmpty, SwapHandsBackNothing
<1>2. QED BY <1>1, HandsAreEmpty, PTL

------------------------------------------------------------------------------
(* No wake-up is lost *)

\* Between the look at the queue and the sleep nobody can add to it.
ParksOnEmpty == wpc = "park" => IsEmpty(queue)

LEMMA WakeUpStep ==
  ASSUME Types, LocksHeld, ParksOnEmpty, NoLostChange, Next
  PROVE  ParksOnEmpty' /\ NoLostChange'
<1> USE DEF Types, SharedTypes, WorkerTypes, ParksOnEmpty, NoLostChange
<1>1. CASE Worker
  <2>1. ASSUME TakeChanges \/ TimedOut \/ WakeByTimeout PROVE ParksOnEmpty' /\ NoLostChange'
    BY <2>1 DEF TakeChanges, TimedOut, WakeByTimeout
  <2>2. ASSUME MustPark PROVE ParksOnEmpty' /\ NoLostChange'
    BY <2>2 DEF MustPark, MustWait, IsEmpty, shared
  <2>3. ASSUME Park PROVE ParksOnEmpty' /\ NoLostChange'
    BY <2>3 DEF Park, IsEmpty
  <2>4. ASSUME WaitForever \/ WaitToSettle \/ LockQueue PROVE ParksOnEmpty' /\ NoLostChange'
    BY <2>4 DEF WaitForever, WaitToSettle, LockQueue
  <2>5. ASSUME CheckShutdown \/ SwapFlag \/ TakeRoots \/ AnswerRoot \/ RootsDone
        PROVE  ParksOnEmpty' /\ NoLostChange'
    BY <2>5 DEF CheckShutdown, SwapFlag, TakeRoots, AnswerRoot, RootsDone
  <2>6. ASSUME LockHandlers \/ RunHandlers \/ ApplyTransaction \/ CrawlRoots
        PROVE  ParksOnEmpty' /\ NoLostChange'
    BY <2>6 DEF LockHandlers, RunHandlers, ApplyTransaction, CrawlRoots
  <2>7. QED BY <1>1, <2>1, <2>2, <2>3, <2>4, <2>5, <2>6 DEF Worker
<1>2. CASE BackendThread
  <2>1. ASSUME NEW e \in Change \cup {Overflow}, HandleEvent(e) PROVE ParksOnEmpty' /\ NoLostChange'
    BY <2>1 DEF HandleEvent, worker, LocksHeld
  <2>2. ASSUME ProcessEvents PROVE ParksOnEmpty' /\ NoLostChange'
    BY <2>2 DEF ProcessEvents, worker, LocksHeld
  <2>3. ASSUME NotifyWorker PROVE ParksOnEmpty' /\ NoLostChange'
    BY <2>3 DEF NotifyWorker, Notify, shared
  <2>4. ASSUME ReadDone PROVE ParksOnEmpty' /\ NoLostChange'
    BY <2>4 DEF ReadDone, shared, worker
  <2>5. ASSUME Poll \/ HandleMessage \/ Callback \/ Completion \/ ReadFilter
        PROVE  ParksOnEmpty' /\ NoLostChange'
    <3>1. bpc \notin {"read", "notify"} /\ UNCHANGED <<queue, wpc, cpc>>
      BY <2>5 DEF Poll, HandleMessage, Callback, Completion, ReadFilter, shared, worker
    <3>2. QED BY <3>1
  <2>6. QED BY <1>2, <2>1, <2>2, <2>3, <2>4, <2>5 DEF BackendThread
<1>3. ASSUME NEW c \in Call, CallStep(c) PROVE ParksOnEmpty' /\ NoLostChange'
  <2>1. ASSUME CallNotify(c) PROVE ParksOnEmpty' /\ NoLostChange'
    <3>1. wpc' # "waiting" /\ (wpc' = "park" => wpc = "park") /\ queue' = queue
      BY <2>1 DEF CallNotify, Notify, shared
    <3>2. QED BY <3>1
  <2>2. ASSUME RequestRecrawl(c) PROVE ParksOnEmpty' /\ NoLostChange'
    BY <2>2 DEF RequestRecrawl, Goto, worker, LocksHeld
  <2>3. ASSUME UNCHANGED <<queue, wpc>> PROVE ParksOnEmpty' /\ NoLostChange'
    <3>1. bpc' = bpc
      BY <1>3, CallFrame
    <3>2. \A d \in Call : cpc[d] = "notify" => cpc'[d] = "notify" \/ CallNotify(c)
      BY <1>3 DEF CallStep, Goto, AddRootCheck, AddRootPush, AddRootStore, SetFilter,
                  RefreshConfig, RequestRecrawl, AddHandler, ShutdownStore, StopBackend, CallNotify
    <3>3. QED BY <2>1, <2>3, <3>1, <3>2
  <2>4. QED BY <1>3, <2>1, <2>2, <2>3, CallFrame
<1>4. ASSUME NEW c \in Call, StartCall(c) PROVE ParksOnEmpty' /\ NoLostChange'
  BY <1>4 DEF StartCall, Goto, shared, worker, backend
<1>5. ASSUME NEW e \in Change \cup {Overflow}, Arrive(e) PROVE ParksOnEmpty' /\ NoLostChange'
  BY <1>5 DEF Arrive, shared, worker
<1>6. CASE SpuriousWakeup \/ Elapse
  BY <1>6 DEF SpuriousWakeup, Elapse, shared, worker, backend
<1>7. QED BY <1>1, <1>2, <1>3, <1>4, <1>5, <1>6 DEF Next, Same

\* Whatever a backend or set_filter puts into the queue, the worker does not sleep
\* on it unless its wake-up is still to come (InotifyWatcher::handle_event and
\* process_events against PendingChangesLock).
THEOREM NoChangeIsLost == Spec => []NoLostChange
<1>1. Init => ParksOnEmpty /\ NoLostChange
  BY DEF Init, ParksOnEmpty, NoLostChange
<1>2. TypeOK /\ ParksOnEmpty /\ NoLostChange /\ [Next]_vars => ParksOnEmpty' /\ NoLostChange'
  <2>1. ASSUME ParksOnEmpty, NoLostChange, UNCHANGED vars PROVE ParksOnEmpty' /\ NoLostChange'
    BY <2>1 DEF ParksOnEmpty, NoLostChange, vars, shared, worker, backend
  <2>2. QED BY <2>1, WakeUpStep DEF TypeOK
<1>3. QED BY <1>1, <1>2, TypeCorrect, PTL DEF Spec

------------------------------------------------------------------------------
(* No root is hidden *)

LEMMA AnnouncedStep ==
  ASSUME Types, RootsAnnounced, Next
  PROVE  RootsAnnounced'
<1> USE DEF Types, SharedTypes, WorkerTypes, RootsAnnounced
<1>1. CASE Worker
  <2>1. ASSUME SwapFlag PROVE RootsAnnounced'
    BY <2>1 DEF SwapFlag
  <2>2. ASSUME TakeRoots PROVE RootsAnnounced'
    BY <2>2 DEF TakeRoots
  <2>3. ASSUME ~TakeRoots, ~SwapFlag PROVE RootsAnnounced'
    <3>1. UNCHANGED <<has_notifications, notifications, cpc>>
      BY <1>1, <2>3, WorkerFrame, WorkerShared
         DEF WaitToSettle, LockQueue, TakeChanges, TimedOut, Park, LockHandlers, RunHandlers
    <3>2. wpc # "take_roots"
      BY <1>1, <2>3
         DEF Worker, WaitForever, WaitToSettle, LockQueue, TakeChanges, TimedOut, MustPark, Park,
             WakeByTimeout, CheckShutdown, AnswerRoot, RootsDone, LockHandlers, RunHandlers,
             ApplyTransaction, CrawlRoots
    <3>3. QED BY <3>1, <3>2
  <2>4. QED BY <2>1, <2>2, <2>3
<1>2. CASE BackendThread
  BY <1>2, BackendFrame DEF NotifyWorker, Notify
<1>3. ASSUME NEW c \in Call, CallStep(c) PROVE RootsAnnounced'
  <2>1. wpc = "take_roots" => wpc' = "take_roots"
    BY <1>3, CallFrame DEF CallNotify, Notify
  <2>2. ASSUME AddRootPush(c) PROVE RootsAnnounced'
    BY <2>2 DEF AddRootPush, Goto
  <2>3. ASSUME AddRootStore(c) PROVE RootsAnnounced'
    BY <2>3 DEF AddRootStore
  <2>4. ASSUME ~AddRootPush(c), ~AddRootStore(c) PROVE RootsAnnounced'
    <3>1. UNCHANGED <<has_notifications, notifications>>
      BY <1>3, <2>4, CallFrame
    <3>2. \A d \in RootCall : cpc[d] = "store" => cpc'[d] = "store"
      BY <1>3, <2>4 DEF CallStep, Goto, Call, AddRootCheck, SetFilter, RefreshConfig,
                        RequestRecrawl, AddHandler, ShutdownStore, StopBackend, CallNotify
    <3>3. QED BY <2>1, <3>1, <3>2
  <2>5. QED BY <2>2, <2>3, <2>4
<1>4. ASSUME NEW c \in Call, StartCall(c) PROVE RootsAnnounced'
  BY <1>4 DEF StartCall, Goto, Call, shared, worker
<1>5. CASE SpuriousWakeup \/ Elapse \/ \E e \in Change \cup {Overflow} : Arrive(e)
  BY <1>5 DEF SpuriousWakeup, Elapse, Arrive, shared, worker
<1>6. QED BY <1>1, <1>2, <1>3, <1>4, <1>5 DEF Next, Same

\* The worker never clears the flag on a root that is in the list: it clears the
\* flag first, add_root sets it last (process_notifications, Watcher::add_root).
THEOREM RootsAreAnnounced == Spec => []RootsAnnounced
<1>1. Init => RootsAnnounced
  BY DEF Init, RootsAnnounced
<1>2. TypeOK /\ RootsAnnounced /\ [Next]_vars => RootsAnnounced'
  <2>1. ASSUME RootsAnnounced, UNCHANGED vars PROVE RootsAnnounced'
    BY <2>1 DEF RootsAnnounced, vars, shared, worker
  <2>2. QED BY <2>1, AnnouncedStep DEF TypeOK
<1>3. QED BY <1>1, <1>2, TypeCorrect, PTL DEF Spec

------------------------------------------------------------------------------
(* A batch in the middle of activity has one of two reasons *)

\* What ends a wait before its time is over.
Heard == stop \/ ~IsEmpty(queue)

\* An event of the running window is on its way to the queue or in it, and once the
\* time is over with the backend at rest, it is in it; a backend that has ended or
\* was closed has done so for a shutdown.
WindowTold ==
  /\ bpc \notin {"filter", "enqueue"} => inflight = {}
  /\ bpc = "stopped" \/ closed \/ (\E c \in Call : cpc[c] = "stop_backend") => stop
  /\ InWindow /\ disturbed /\ ~expired => Heard \/ native # {} \/ inflight # {}
  /\ InWindow /\ disturbed /\ expired /\ excuse = "none" => Heard


LEMMA HeardStays ==
  ASSUME Types, Heard, Next, ~TakeChanges
  PROVE  Heard'
<1> USE DEF Types, SharedTypes, PendingChanges, Heard, IsEmpty
<1>1. CASE Worker
  BY <1>1, WorkerFrame, WorkerChanges DEF ApplyTransaction, CrawlRoots, shared
<1>2. CASE BackendThread
  <2>1. \/ queue' = Recrawl(queue)
        \/ queue' = queue
        \/ queue'.recrawl = queue.recrawl /\ \E new \in SUBSET Change : queue'.changes = queue.changes \cup new
    BY <1>2, BackendFrame, BackendAdds
  <2>2. stop' = stop
    BY <1>2, BackendFrame
  <2>3. QED BY <2>1, <2>2 DEF Recrawl
<1>3. ASSUME NEW c \in Call, CallStep(c) PROVE Heard'
  <2>1. queue' = queue \/ queue' = Recrawl(queue)
    BY <1>3, CallFrame DEF RequestRecrawl
  <2>2. stop => stop'
    BY <1>3, CallFrame DEF ShutdownStore
  <2>3. QED BY <2>1, <2>2 DEF Recrawl
<1>4. QED BY <1>1, <1>2, <1>3, OtherFrame DEF Next, Same, shared

\* The window goes on: nothing but time, an event and its start change it.
LEMMA WindowStays ==
  ASSUME Types, Next, InWindow', ~(\E e \in Change \cup {Overflow} : Arrive(e)), ~Elapse,
         disturbed'
  PROVE  InWindow /\ (expired' <=> expired) /\ disturbed /\ excuse' = excuse /\ ~TakeChanges
<1> USE DEF Types, WorkerTypes, InWindow
<1>1. CASE Worker
  <2>1. ASSUME LockQueue PROVE InWindow /\ (expired' <=> expired) /\ disturbed /\ excuse' = excuse /\ ~TakeChanges
    BY <2>1 DEF LockQueue, TakeChanges, window
  <2>2. ASSUME WaitForever \/ WaitToSettle \/ MustPark \/ Park \/ WakeByTimeout
        PROVE  InWindow /\ (expired' <=> expired) /\ disturbed /\ excuse' = excuse /\ ~TakeChanges
    <3>1. UNCHANGED <<expired, disturbed, excuse>>
      BY <2>2 DEF WaitForever, WaitToSettle, MustPark, Park, WakeByTimeout, history, window
    <3>2. timed' => InWindow
      BY <2>2 DEF WaitForever, WaitToSettle, MustPark, Park, WakeByTimeout
    <3>3. ~TakeChanges
      BY <2>2 DEF WaitForever, WaitToSettle, MustPark, Park, WakeByTimeout, TakeChanges
    <3>4. QED BY <3>1, <3>2, <3>3
  <2>3. ASSUME TakeChanges \/ TimedOut \/ CheckShutdown \/ SwapFlag \/ TakeRoots
        PROVE  FALSE
    BY <2>3 DEF TakeChanges, TimedOut, CheckShutdown, SwapFlag, TakeRoots
  <2>4. ASSUME AnswerRoot \/ RootsDone \/ LockHandlers \/ RunHandlers \/ ApplyTransaction \/ CrawlRoots
        PROVE  FALSE
    BY <2>4 DEF AnswerRoot, RootsDone, LockHandlers, RunHandlers, ApplyTransaction, CrawlRoots
  <2>5. QED BY <1>1, <2>1, <2>2, <2>3, <2>4 DEF Worker
<1>2. CASE BackendThread
  <2>1. UNCHANGED <<expired, disturbed, excuse, timed, pending_changes>>
    BY <1>2, BackendFrame
  <2>2. wpc' = wpc \/ (wpc = "waiting" /\ wpc' = "relock")
    BY <1>2, BackendFrame DEF NotifyWorker, Notify
  <2>3. ~TakeChanges \/ wpc' = "awake"
    BY DEF TakeChanges
  <2>4. QED BY <2>1, <2>2, <2>3
<1>3. ASSUME NEW c \in Call, CallStep(c)
      PROVE  InWindow /\ (expired' <=> expired) /\ disturbed /\ excuse' = excuse /\ ~TakeChanges
  <2>1. UNCHANGED <<expired, disturbed, excuse, timed, pending_changes>>
    BY <1>3, CallFrame
  <2>2. wpc' = wpc \/ (wpc = "waiting" /\ wpc' = "relock")
    BY <1>3, CallFrame DEF CallNotify, Notify
  <2>3. ~TakeChanges \/ wpc' = "awake"
    BY DEF TakeChanges
  <2>4. QED BY <2>1, <2>2, <2>3
<1>4. ASSUME SpuriousWakeup \/ \E c \in Call : StartCall(c)
      PROVE  InWindow /\ (expired' <=> expired) /\ disturbed /\ excuse' = excuse /\ ~TakeChanges
  <2>1. UNCHANGED <<expired, disturbed, excuse, timed>>
    BY <1>4 DEF SpuriousWakeup, StartCall, worker, history, window
  <2>2. wpc' = wpc \/ (wpc = "waiting" /\ wpc' = "relock")
    BY <1>4 DEF SpuriousWakeup, StartCall, worker
  <2>3. ~TakeChanges \/ wpc' = "awake"
    BY DEF TakeChanges
  <2>4. QED BY <2>1, <2>2, <2>3
<1>5. QED BY <1>1, <1>2, <1>3, <1>4 DEF Next, Same

LEMMA StoppedStep ==
  ASSUME Types, WindowTold, Next
  PROVE  /\ bpc' \notin {"filter", "enqueue"} => inflight' = {}
         /\ bpc' = "stopped" \/ closed' \/ (\E c \in Call : cpc'[c] = "stop_backend") => stop'
<1> USE DEF Types, BackendTypes, WindowTold
<1>1. CASE Worker
  BY <1>1, WorkerFrame
<1>2. CASE BackendThread
  <2>1. UNCHANGED <<stop, cpc, closed>>
    BY <1>2, BackendFrame
       DEF BackendThread, Poll, HandleMessage, HandleEvent, ReadDone, Callback, Completion,
           ReadFilter, ProcessEvents, NotifyWorker
  <2>2. bpc' = "stopped" => bpc = "stopped" \/ stop
    BY <1>2 DEF BackendThread, Poll, HandleMessage, HandleEvent, ReadDone, Callback, Completion,
                ReadFilter, ProcessEvents, NotifyWorker
  <2>3. bpc' \notin {"filter", "enqueue"} => inflight' = {}
    <3>1. ASSUME Poll \/ HandleMessage \/ ReadDone \/ NotifyWorker PROVE inflight' = {}
      BY <3>1 DEF Poll, HandleMessage, ReadDone, NotifyWorker
    <3>2. ASSUME NEW e \in Change \cup {Overflow}, HandleEvent(e) PROVE inflight' = {}
      BY <3>2 DEF HandleEvent
    <3>3. ASSUME Callback \/ ReadFilter PROVE bpc' \in {"filter", "enqueue"}
      BY <3>3 DEF Callback, ReadFilter
    <3>4. ASSUME Completion \/ ProcessEvents PROVE bpc' \in {"filter", "enqueue"} \/ inflight' = {}
      BY <3>4 DEF Completion, ProcessEvents
    <3>5. QED BY <1>2, <3>1, <3>2, <3>3, <3>4 DEF BackendThread
  <2>4. QED BY <2>1, <2>2, <2>3
<1>3. ASSUME NEW c \in Call, CallStep(c)
      PROVE  /\ inflight' = inflight /\ bpc' = bpc /\ (stop => stop')
             /\ closed' \/ (\E d \in Call : cpc'[d] = "stop_backend") => stop'
  <2>1. inflight' = inflight /\ bpc' = bpc
    BY <1>3, CallFrame
  <2>2. stop => stop'
    BY <1>3, CallFrame DEF ShutdownStore
  <2>3. closed' => stop'
    BY <1>3, <2>2, CallFrame DEF StopBackend
  <2>4. \A d \in Call : cpc'[d] = "stop_backend" => cpc[d] = "stop_backend" \/ stop'
    BY <1>3 DEF CallStep, Goto, Call, AddRootCheck, AddRootPush, AddRootStore, SetFilter,
                RefreshConfig, RequestRecrawl, AddHandler, ShutdownStore, StopBackend, CallNotify
  <2>5. QED BY <2>1, <2>2, <2>3, <2>4
<1>4. ASSUME NEW c \in Call, StartCall(c)
      PROVE  /\ UNCHANGED <<bpc, inflight, closed, stop>>
             /\ \A d \in Call : cpc'[d] = "stop_backend" => cpc[d] = "stop_backend"
  BY <1>4 DEF StartCall, Goto, shared, backend
<1>5. ASSUME NEW e \in Change \cup {Overflow}, Arrive(e)
      PROVE  UNCHANGED <<bpc, inflight, closed, stop, cpc>>
  BY <1>5 DEF Arrive, shared
<1>6. ASSUME SpuriousWakeup \/ Elapse PROVE UNCHANGED <<bpc, inflight, closed, stop, cpc>>
  BY <1>6 DEF SpuriousWakeup, Elapse, shared, backend
<1>7. ASSUME UNCHANGED <<bpc, inflight, closed, stop, cpc>>
      PROVE  /\ bpc' \notin {"filter", "enqueue"} => inflight' = {}
             /\ bpc' = "stopped" \/ closed' \/ (\E c \in Call : cpc'[c] = "stop_backend") => stop'
  BY <1>7
<1>8. QED BY <1>1, <1>2, <1>3, <1>4, <1>5, <1>6, <1>7 DEF Next, Same

\* An event on its way stays so, or is heard of.
LEMMA OnItsWay ==
  ASSUME Types, WindowTold, Next, ~TakeChanges, Heard \/ native # {} \/ inflight # {}
  PROVE  Heard' \/ native' # {} \/ inflight' # {}
<1> USE DEF Types, SharedTypes, BackendTypes
<1>1. CASE Heard
  BY <1>1, HeardStays
<1>2. ASSUME ~Heard, BackendThread PROVE Heard' \/ native' # {} \/ inflight' # {}
  <2>1. ASSUME Poll \/ HandleMessage \/ ReadDone \/ ReadFilter \/ NotifyWorker
        PROVE  UNCHANGED <<native, inflight>>
    BY <2>1 DEF Poll, HandleMessage, ReadDone, ReadFilter, NotifyWorker
  <2>2. ASSUME Callback \/ Completion PROVE Heard' \/ inflight' # {}
    <3>1. ~stop /\ bpc = "poll" => native # {}
      BY <1>2 DEF WindowTold
    <3>2. QED BY <1>2, <2>2, <3>1 DEF Callback, Completion, Heard
  <2>3. ASSUME NEW e \in Change \cup {Overflow}, HandleEvent(e) PROVE Heard'
    BY <2>3 DEF HandleEvent, Heard, IsEmpty, Recrawl, AddWatcher, PendingChanges
  <2>4. ASSUME ProcessEvents PROVE Heard' \/ native' # {}
    BY <1>2, <2>4 DEF ProcessEvents, Heard, IsEmpty, Recrawl, PendingChanges
  <2>5. QED BY <1>2, <2>1, <2>2, <2>3, <2>4 DEF BackendThread
<1>3. CASE Worker
  BY <1>1, <1>3, WorkerFrame
<1>4. ASSUME NEW c \in Call, CallStep(c) PROVE UNCHANGED <<native, inflight>>
  BY <1>4, CallFrame
<1>5. ASSUME NEW e \in Change \cup {Overflow}, Arrive(e) PROVE native' # {}
  BY <1>5 DEF Arrive
<1>6. ASSUME SpuriousWakeup \/ Elapse \/ \E c \in Call : StartCall(c) PROVE UNCHANGED <<native, inflight>>
  BY <1>6 DEF SpuriousWakeup, Elapse, StartCall, backend
<1>7. QED BY <1>1, <1>2, <1>3, <1>4, <1>5, <1>6 DEF Next, Same

LEMMA WindowStep ==
  ASSUME Types, WindowTold, Next
  PROVE  WindowTold'
<1>1. ASSUME NEW e \in Change \cup {Overflow}, Arrive(e) PROVE WindowTold'
  <2>1. native' # {} /\ UNCHANGED <<expired, excuse, timed, wpc, stop, queue>>
    BY <1>1 DEF Arrive, shared, worker
  <2>2. expired => disturbed' = disturbed
    BY <1>1 DEF Arrive, Types, HistoryTypes
  <2>3. QED BY <1>1, <2>1, <2>2, StoppedStep DEF WindowTold, InWindow, Heard, IsEmpty
<1>2. CASE Elapse
  <2>1. /\ InWindow /\ ~expired /\ expired' = TRUE
        /\ UNCHANGED <<timed, wpc, disturbed, stop, queue, native, inflight>>
    BY <1>2 DEF Elapse, shared, worker, backend
  <2>2. excuse' = "none" => BackendIdle
    BY <1>2 DEF Elapse
  <2>3. BackendIdle /\ disturbed => Heard
    BY <2>1 DEF BackendIdle, WindowTold, Heard
  <2>4. QED BY <2>1, <2>2, <2>3, StoppedStep DEF WindowTold, InWindow, Heard, IsEmpty
<1>3. ASSUME ~(\E e \in Change \cup {Overflow} : Arrive(e)), ~Elapse PROVE WindowTold'
  <2>1. ASSUME InWindow', disturbed'
        PROVE  InWindow /\ (expired' <=> expired) /\ disturbed /\ excuse' = excuse /\ ~TakeChanges
    BY <1>3, <2>1, WindowStays
  <2>2. ASSUME InWindow', disturbed', ~expired' PROVE Heard' \/ native' # {} \/ inflight' # {}
    <3>1. InWindow /\ disturbed /\ ~expired /\ ~TakeChanges
      BY <2>1, <2>2
    <3>2. QED BY <3>1, OnItsWay DEF WindowTold
  <2>3. ASSUME InWindow', disturbed', expired', excuse' = "none" PROVE Heard'
    <3>1. InWindow /\ disturbed /\ expired /\ excuse = "none" /\ ~TakeChanges
      BY <2>1, <2>3
    <3>2. QED BY <3>1, HeardStays DEF WindowTold
  <2>4. QED BY <2>2, <2>3, StoppedStep DEF WindowTold
<1>4. QED BY <1>1, <1>2, <1>3

LEMMA SettledStep ==
  ASSUME Types, WindowTold, SettledUnlessStarved, Next
  PROVE  SettledUnlessStarved'
<1> USE DEF Types, WorkerTypes, HistoryTypes, SettledUnlessStarved
<1>1. CASE Worker
  <2>1. ASSUME TimedOut PROVE SettledUnlessStarved'
    <3>1. InWindow /\ expired /\ ~Heard /\ UNCHANGED <<disturbed, excuse>>
      BY <2>1 DEF TimedOut, InWindow, MustWait, should_wakeup, Heard, history, window
    <3>2. QED BY <3>1 DEF WindowTold
  <2>2. ASSUME TakeChanges PROVE SettledUnlessStarved'
    BY <2>2 DEF TakeChanges
  <2>3. ASSUME ~TimedOut, ~TakeChanges PROVE wpc' # "awake"
    BY <1>1, <2>3
       DEF Worker, WaitForever, WaitToSettle, LockQueue, MustPark, Park, WakeByTimeout,
           CheckShutdown, SwapFlag, TakeRoots, AnswerRoot, RootsDone, LockHandlers,
           RunHandlers, ApplyTransaction, CrawlRoots
  <2>4. QED BY <2>1, <2>2, <2>3
<1>2. CASE BackendThread
  BY <1>2, BackendFrame DEF NotifyWorker, Notify
<1>3. ASSUME NEW c \in Call, CallStep(c) PROVE SettledUnlessStarved'
  BY <1>3, CallFrame DEF CallNotify, Notify
<1>4. ASSUME NEW e \in Change \cup {Overflow}, Arrive(e) PROVE SettledUnlessStarved'
  BY <1>4 DEF Arrive, worker, InWindow
<1>5. CASE Elapse
  BY <1>5 DEF Elapse, worker, InWindow
<1>6. CASE SpuriousWakeup
  BY <1>6 DEF SpuriousWakeup
<1>7. ASSUME NEW c \in Call, StartCall(c) PROVE SettledUnlessStarved'
  BY <1>7 DEF StartCall, worker, history, window
<1>8. QED BY <1>1, <1>2, <1>3, <1>4, <1>5, <1>6, <1>7 DEF Next, Same

\* If a batch goes out although something happened while it settled, the backend
\* had no time to read it or waited for the config that the worker held
\* (PendingChangesLock::take_timeout, wait_for_changes).
THEOREM SettlesUnlessStarved == Spec => []SettledUnlessStarved
<1>1. Init => WindowTold /\ SettledUnlessStarved
  BY DEF Init, WindowTold, SettledUnlessStarved, InWindow
<1>2. TypeOK /\ WindowTold /\ SettledUnlessStarved /\ [Next]_vars
        => WindowTold' /\ SettledUnlessStarved'
  <2>1. ASSUME WindowTold, UNCHANGED vars PROVE WindowTold'
    BY <2>1 DEF WindowTold, Heard, IsEmpty, InWindow, vars, shared, worker, backend, history, window
  <2>2. ASSUME SettledUnlessStarved, UNCHANGED vars PROVE SettledUnlessStarved'
    BY <2>2 DEF SettledUnlessStarved, vars, worker, history, window
  <2>3. QED BY <2>1, <2>2, WindowStep, SettledStep DEF TypeOK
<1>3. QED BY <1>1, <1>2, TypeCorrect, PTL DEF Spec
==============================================================================
