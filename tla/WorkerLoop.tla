------------------------------ MODULE WorkerLoop -----------------------------
(***************************************************************************)
(* The threads of a Watcher and the locks between them:                    *)
(*                                                                         *)
(*   worker   Worker::run: waits on the condition variable of the pending  *)
(*            queue, registers new roots, hands settled batches to the     *)
(*            handlers, reconciles the tree with the queued changes;       *)
(*   backend  the thread (inotify, Windows) or dispatch queue (FSEvents)   *)
(*            that turns native events into pending changes;               *)
(*   calls    the public API, called from any thread. A call is a constant *)
(*            of this module: it is made once, at any time, or never.      *)
(*                                                                         *)
(* An action is what a thread does between two points where another thread *)
(* can interfere: a lock operation, an atomic access, a wait. Atomics are  *)
(* sequentially consistent here (the code uses Relaxed). A mutex that only *)
(* guards one short critical section is part of that action; the ones held *)
(* over several actions, by the worker alone, are configHeld / queueHeld.  *)
(* The tree and the event table are reduced to "is there an event to       *)
(* deliver".                                                               *)
(*                                                                         *)
(* Definitions named X_bug are wrong on purpose: X with a plausible        *)
(* mistake.                                                                *)
(***************************************************************************)
EXTENDS Naturals, Sequences

CONSTANTS
  Change,                 \* paths a native event may name
  Overflow,               \* the native event that says: events were dropped
  RootCall,               \* calls of Watcher::add_root (and the root they add)
  FilterCall,             \* calls of Watcher::set_filter
  HandlerCall,            \* calls of Watcher::add_handler (and their handler)
  ShutdownCall,           \* calls of Watcher::shutdown
  Scenes,                 \* a backend, the calls made and a bound on native events
  Spurious                \* may the condition variable wake up on its own?

Call == RootCall \cup FilterCall \cup HandlerCall \cup ShutdownCall

ASSUME ScenesAssumption ==
  \A sc \in Scenes : /\ sc.backend \in {"inotify", "fsevent", "windows"}
                     /\ sc.calls \subseteq Call
                     /\ sc.arrivals \in Nat
ASSUME SpuriousAssumption == Spurious \in BOOLEAN
ASSUME OverflowAssumption == Overflow \notin Change

VARIABLES
  scene,                  \* the one of Scenes that this run plays
  \* shared
  queue,                  \* PendingChangesLock.inner
  queueHeld,              \* does the worker hold its mutex?
  configHeld,             \* does the worker hold the config mutex?
  handlers,               \* Config.handlers
  has_notifications, notifications, stop,
  \* worker
  wpc, pending_changes, batch, todo, timed, settled,
  \* backend
  native, arrivals, bpc, inflight, readable, wake, closed,
  \* calls
  cpc,
  \* history
  owed,                   \* changes read from the OS, not reconciled yet
  answered,               \* roots whose callback ran
  expired, disturbed,     \* of the running settle window: over? an event in it?
  excuse                  \* what kept the backend from its work when it was over

shared  == <<queue, queueHeld, configHeld, handlers, has_notifications, notifications, stop>>
worker  == <<wpc, pending_changes, batch, todo, timed, settled>>
backend == <<native, arrivals, bpc, inflight, readable, wake, closed>>
window  == <<expired, disturbed, excuse>>
history == <<owed, answered, window>>
vars    == <<scene, shared, worker, backend, cpc, history>>

------------------------------------------------------------------------------
(* The pending queue: a set of changed paths, or one request to look at all *)

PendingChanges == [changes : SUBSET Change, recrawl : BOOLEAN]

NoChanges == [changes |-> {}, recrawl |-> FALSE]

IsEmpty(q) == q.changes = {} /\ ~q.recrawl

Recrawl_bug(q) == NoChanges      \* the flag is not set

\* PendingChanges::recrawl
Recrawl(q) == [changes |-> {}, recrawl |-> TRUE]

AddWatcher_bug(q, c) == [q EXCEPT !.changes = @ \cup {c}]      \* no early return

\* PendingChanges::add; once a recrawl is due nothing else is worth keeping.
AddWatcher(q, c) == IF q.recrawl THEN q ELSE [q EXCEPT !.changes = @ \cup {c}]

\* PendingChangesLock::notify: whoever waits has to take the mutex again.
Notify == wpc' = IF wpc = "waiting" THEN "relock" ELSE wpc

------------------------------------------------------------------------------
(* The worker *)

\* wait_for_changes with no event to deliver: no time limit.
WaitForever ==
  /\ wpc = "loop" /\ ~batch
  /\ wpc' = "lock"
  /\ timed' = FALSE
  /\ UNCHANGED <<shared, pending_changes, batch, todo, settled, backend, cpc, history>>

WaitToSettle_bug ==      \* take instead of take_timeout
  /\ wpc = "loop" /\ batch
  /\ wpc' = "lock"
  /\ timed' = FALSE
  /\ UNCHANGED <<shared, pending_changes, batch, todo, settled, backend, cpc, history>>

\* With events to deliver: the guard through which settle_time is read is a
\* temporary of the call, so the config stays locked for the whole wait.
WaitToSettle ==
  /\ wpc = "loop" /\ batch
  /\ ~configHeld
  /\ configHeld' = TRUE
  /\ wpc' = "lock"
  /\ timed' = TRUE
  /\ UNCHANGED <<queue, queueHeld, handlers, has_notifications, notifications, stop,
                 pending_changes, batch, todo, settled, backend, cpc, history>>

\* The mutex of the queue, on entry (the clock starts) and after every wake-up.
LockQueue ==
  /\ wpc \in {"lock", "relock"}
  /\ ~queueHeld
  /\ queueHeld' = TRUE
  /\ wpc' = "check"
  /\ IF wpc = "lock" THEN expired' = FALSE /\ disturbed' = FALSE /\ excuse' = "none"
                     ELSE UNCHANGED window
  /\ UNCHANGED <<queue, configHeld, handlers, has_notifications, notifications, stop,
                 pending_changes, batch, todo, timed, settled, backend, cpc, owed, answered>>

\* What the condition variable waits for, and the reasons to give up waiting.
should_wakeup == has_notifications \/ stop

MustWait == IsEmpty(queue) /\ ~should_wakeup

ReleaseLocks_bug == queueHeld' = FALSE /\ UNCHANGED configHeld

ReleaseLocks == queueHeld' = FALSE /\ configHeld' = FALSE

\* take / take_timeout return with the queue's content.
TakeChanges ==
  /\ wpc = "check" /\ ~MustWait
  /\ queue' = pending_changes
  /\ pending_changes' = queue
  /\ settled' = FALSE
  /\ ReleaseLocks
  /\ wpc' = "awake"
  /\ UNCHANGED <<handlers, has_notifications, notifications, stop, batch, todo, timed,
                 backend, cpc, history>>

TimedOut_bug ==      \* the time is looked at before the queue
  /\ wpc = "check"
  /\ timed /\ expired
  /\ settled' = TRUE
  /\ ReleaseLocks
  /\ wpc' = "awake"
  /\ UNCHANGED <<queue, handlers, has_notifications, notifications, stop, pending_changes,
                 batch, todo, timed, backend, cpc, history>>

\* take_timeout returns because nothing came in for settle_time.
TimedOut ==
  /\ wpc = "check" /\ MustWait
  /\ timed /\ expired
  /\ settled' = TRUE
  /\ ReleaseLocks
  /\ wpc' = "awake"
  /\ UNCHANGED <<queue, handlers, has_notifications, notifications, stop, pending_changes,
                 batch, todo, timed, backend, cpc, history>>

MustPark ==
  /\ wpc = "check" /\ MustWait
  /\ ~(timed /\ expired)
  /\ wpc' = "park"
  /\ UNCHANGED <<shared, pending_changes, batch, todo, timed, settled, backend, cpc, history>>

\* Condvar::wait: the mutex is released and the thread sleeps, in one step.
Park ==
  /\ wpc = "park"
  /\ queueHeld' = FALSE
  /\ wpc' = "waiting"
  /\ UNCHANGED <<queue, configHeld, handlers, has_notifications, notifications, stop,
                 pending_changes, batch, todo, timed, settled, backend, cpc, history>>

\* The sleep ends because the time is over.
WakeByTimeout ==
  /\ wpc = "waiting" /\ timed /\ expired
  /\ wpc' = "relock"
  /\ UNCHANGED <<shared, pending_changes, batch, todo, timed, settled, backend, cpc, history>>

\* A condition variable may wake up on its own.
SpuriousWakeup ==
  /\ Spurious
  /\ wpc = "waiting"
  /\ wpc' = "relock"
  /\ UNCHANGED <<shared, pending_changes, batch, todo, timed, settled, backend, cpc, history>>

\* Worker::run, after the wait.
CheckShutdown ==
  /\ wpc = "awake"
  /\ wpc' = IF stop THEN "done" ELSE "notifications"
  /\ UNCHANGED <<shared, pending_changes, batch, todo, timed, settled, backend, cpc, history>>

\* process_notifications: the flag is cleared before the list is taken.
SwapFlag ==
  /\ wpc = "notifications"
  /\ has_notifications' = FALSE
  /\ wpc' = IF has_notifications THEN "take_roots" ELSE "apply"
  /\ UNCHANGED <<queue, queueHeld, configHeld, handlers, notifications, stop,
                 pending_changes, batch, todo, timed, settled, backend, cpc, history>>

TakeRoots ==
  /\ wpc = "take_roots"
  /\ todo' = notifications
  /\ notifications' = <<>>
  /\ wpc' = "roots"
  /\ UNCHANGED <<queue, queueHeld, configHeld, handlers, has_notifications, stop,
                 pending_changes, batch, timed, settled, backend, cpc, history>>

\* The next root's callback runs: at once if the tree already knows the path or
\* the OS refuses to watch it, else after reading the filter and crawling it.
\* (The config is free here: only the worker holds it longer than an access.)
AnswerRoot ==
  /\ wpc = "roots" /\ todo # <<>>
  /\ ~configHeld
  /\ answered' = answered \cup {Head(todo)}
  /\ todo' = Tail(todo)
  /\ UNCHANGED <<shared, wpc, pending_changes, batch, timed, settled, backend, cpc,
                 owed, window>>

RootsDone_bug ==      \* the flag is cleared once the list is dealt with
  /\ wpc = "roots" /\ todo = <<>>
  /\ has_notifications' = FALSE
  /\ wpc' = "apply"
  /\ UNCHANGED <<queue, queueHeld, configHeld, handlers, notifications, stop,
                 pending_changes, batch, todo, timed, settled, backend, cpc, history>>

RootsDone ==
  /\ wpc = "roots" /\ todo = <<>>
  /\ wpc' = "apply"
  /\ UNCHANGED <<shared, pending_changes, batch, todo, timed, settled, backend, cpc, history>>

\* Settled: the batch is taken and the handlers run with the config locked.
LockHandlers ==
  /\ wpc = "apply" /\ settled
  /\ ~configHeld
  /\ configHeld' = TRUE
  /\ batch' = FALSE
  /\ wpc' = "handlers"
  /\ UNCHANGED <<queue, queueHeld, handlers, has_notifications, notifications, stop,
                 pending_changes, todo, timed, settled, backend, cpc, history>>

\* A handler that returns false is dropped.
RunHandlers ==
  /\ wpc = "handlers"
  /\ handlers' \in SUBSET handlers
  /\ configHeld' = FALSE
  /\ wpc' = "loop"
  /\ UNCHANGED <<queue, queueHeld, has_notifications, notifications, stop, pending_changes,
                 batch, todo, timed, settled, backend, cpc, history>>

\* Not settled: the filter is read and the changes are applied to the tree,
\* or all roots are crawled. Either may leave events to deliver.
ApplyTransaction ==
  /\ wpc = "apply" /\ ~settled
  /\ ~configHeld
  /\ ~pending_changes.recrawl
  /\ pending_changes' = NoChanges
  /\ batch' \in {batch, batch \/ pending_changes.changes # {}}
  /\ owed' = owed \ pending_changes.changes
  /\ wpc' = "loop"
  /\ UNCHANGED <<shared, todo, timed, settled, backend, cpc, answered, window>>

CrawlRoots ==
  /\ wpc = "apply" /\ ~settled
  /\ ~configHeld
  /\ pending_changes.recrawl
  /\ pending_changes' = [pending_changes EXCEPT !.recrawl = FALSE]
  /\ batch' \in {batch, TRUE}
  /\ owed' = {}
  /\ wpc' = "loop"
  /\ UNCHANGED <<shared, todo, timed, settled, backend, cpc, answered, window>>

Worker ==
  \/ WaitForever \/ WaitToSettle \/ LockQueue \/ TakeChanges \/ TimedOut \/ MustPark
  \/ Park \/ WakeByTimeout \/ CheckShutdown \/ SwapFlag \/ TakeRoots \/ AnswerRoot
  \/ RootsDone \/ LockHandlers \/ RunHandlers \/ ApplyTransaction \/ CrawlRoots

------------------------------------------------------------------------------
(* The backend *)

InWindow == timed /\ wpc \in {"check", "park", "waiting", "relock"}

\* The OS has a native event for us.
Arrive(e) ==
  /\ arrivals < scene.arrivals
  /\ arrivals' = arrivals + 1
  /\ native' = native \cup {e}
  /\ disturbed' = (disturbed \/ (InWindow /\ ~expired))
  /\ UNCHANGED <<shared, worker, bpc, inflight, readable, wake, closed, cpc,
                 owed, answered, expired, excuse>>

\* inotify: poll returns with what is ready, the message being looked at first.
Poll ==
  /\ scene.backend = "inotify"
  /\ bpc = "poll"
  /\ wake \/ native # {}
  /\ readable' = (native # {})
  /\ wake' = FALSE
  /\ bpc' = IF wake THEN "message" ELSE "read"
  /\ UNCHANGED <<shared, worker, native, arrivals, inflight, closed, cpc, history>>

\* The filter is fetched anew; a shutdown ends the thread.
HandleMessage ==
  /\ bpc = "message"
  /\ ~configHeld
  /\ bpc' = IF stop THEN "stopped" ELSE IF readable THEN "read" ELSE "poll"
  /\ UNCHANGED <<shared, worker, native, arrivals, inflight, readable, wake, closed,
                 cpc, history>>

\* One event is read and added to the queue, under the mutex of the queue.
HandleEvent(e) ==
  /\ bpc = "read"
  /\ e \in native
  /\ ~queueHeld
  /\ native' = native \ {e}
  /\ queue' = IF e = Overflow THEN Recrawl(queue) ELSE AddWatcher(queue, e)
  /\ owed' = IF e = Overflow THEN Change ELSE owed \cup {e}
  /\ UNCHANGED <<queueHeld, configHeld, handlers, has_notifications, notifications, stop,
                 worker, arrivals, bpc, inflight, readable, wake, closed, cpc,
                 answered, window>>

\* Nothing left to read.
ReadDone ==
  /\ bpc = "read" /\ native = {}
  /\ bpc' = "notify"
  /\ UNCHANGED <<shared, worker, native, arrivals, inflight, readable, wake, closed,
                 cpc, history>>

\* fsevent: a callback with everything there is; it needs the filter first.
Callback ==
  /\ scene.backend = "fsevent"
  /\ bpc = "poll"
  /\ native # {} /\ ~closed
  /\ inflight' = native
  /\ native' = {}
  /\ bpc' = "filter"
  /\ UNCHANGED <<shared, worker, arrivals, readable, wake, closed, cpc, history>>

\* Windows: the completion of a read, or the post of a shutdown. A read that
\* completes empty stands for lost events and needs no filter.
Completion ==
  /\ scene.backend = "windows"
  /\ bpc = "poll"
  /\ wake \/ native # {}
  /\ wake' = FALSE
  /\ inflight' = IF stop THEN {} ELSE native
  /\ native' = {}
  /\ bpc' = IF stop THEN "stopped" ELSE IF Overflow \in native THEN "enqueue" ELSE "filter"
  /\ UNCHANGED <<shared, worker, arrivals, readable, closed, cpc, history>>

ReadFilter ==
  /\ bpc = "filter"
  /\ ~configHeld
  /\ bpc' = "enqueue"
  /\ UNCHANGED <<shared, worker, native, arrivals, inflight, readable, wake, closed,
                 cpc, history>>

\* process_events: all of them under one lock, or a recrawl instead.
ProcessEvents ==
  /\ bpc = "enqueue"
  /\ ~queueHeld
  /\ IF Overflow \in inflight
       THEN queue' = Recrawl(queue) /\ owed' = Change
       ELSE /\ queue' = IF queue.recrawl THEN queue
                                         ELSE [queue EXCEPT !.changes = @ \cup inflight]
            /\ owed' = owed \cup inflight
  /\ inflight' = {}
  /\ bpc' = "notify"
  /\ UNCHANGED <<queueHeld, configHeld, handlers, has_notifications, notifications, stop,
                 worker, native, arrivals, readable, wake, closed, cpc,
                 answered, window>>

NotifyWorker_bug ==      \* nobody is woken up
  /\ bpc = "notify"
  /\ bpc' = "poll"
  /\ UNCHANGED <<shared, worker, native, arrivals, inflight, readable, wake, closed,
                 cpc, history>>

NotifyWorker ==
  /\ bpc = "notify"
  /\ Notify
  /\ bpc' = "poll"
  /\ UNCHANGED <<shared, pending_changes, batch, todo, timed, settled,
                 native, arrivals, inflight, readable, wake, closed, cpc, history>>

BackendThread ==
  \/ Poll \/ HandleMessage \/ (\E e \in Change \cup {Overflow} : HandleEvent(e)) \/ ReadDone
  \/ Callback \/ Completion \/ ReadFilter \/ ProcessEvents \/ NotifyWorker

\* Nothing the backend could do, or nothing until the worker gives up the config.
BackendIdle    == \/ bpc = "stopped"
                  \/ bpc = "poll" /\ ~wake /\ (native = {} \/ closed)
BackendStarved == bpc \in {"message", "filter"} /\ configHeld

\* The settle time is over; mostly it is long enough for the backend to have
\* read, by then, whatever the OS had for it.
Elapse ==
  /\ InWindow /\ ~expired
  /\ expired' = TRUE
  /\ excuse' = CASE BackendIdle    -> "none"
                 [] BackendStarved -> "starved"
                 [] OTHER          -> "hasty"
  /\ UNCHANGED <<shared, worker, backend, cpc, owed, answered, disturbed>>

------------------------------------------------------------------------------
(* The public API *)

Goto(c, pc) == cpc' = [cpc EXCEPT ![c] = pc]

StartCall(c) ==
  /\ c \in scene.calls
  /\ cpc[c] = "uncalled"
  /\ Goto(c, "called")
  /\ UNCHANGED <<shared, worker, backend, history>>

\* add_root: asks the filter; an ignored root is dropped without a word.
AddRootCheck(c) ==
  /\ c \in RootCall /\ cpc[c] = "called"
  /\ ~configHeld
  /\ Goto(c, "push") \/ Goto(c, "returned")
  /\ UNCHANGED <<shared, worker, backend, history>>

AddRootPush(c) ==
  /\ c \in RootCall /\ cpc[c] = "push"
  /\ notifications' = Append(notifications, c)
  /\ Goto(c, "store")
  /\ UNCHANGED <<queue, queueHeld, configHeld, handlers, has_notifications, stop,
                 worker, backend, history>>

AddRootStore(c) ==
  /\ c \in RootCall /\ cpc[c] = "store"
  /\ has_notifications' = TRUE
  /\ Goto(c, "notify")
  /\ UNCHANGED <<queue, queueHeld, configHeld, handlers, notifications, stop,
                 worker, backend, history>>

\* set_filter: replaces the filter, wakes the event loop and may ask for a crawl.
SetFilter(c) ==
  /\ c \in FilterCall /\ cpc[c] = "called"
  /\ ~configHeld
  /\ Goto(c, "refresh")
  /\ UNCHANGED <<shared, worker, backend, history>>

RefreshConfig(c) ==
  /\ c \in FilterCall /\ cpc[c] = "refresh"
  /\ wake' = (wake \/ scene.backend = "inotify")
  /\ Goto(c, "recrawl") \/ Goto(c, "returned")
  /\ UNCHANGED <<shared, worker, native, arrivals, bpc, inflight, readable, closed, history>>

RequestRecrawl(c) ==
  /\ c \in FilterCall /\ cpc[c] = "recrawl"
  /\ ~queueHeld
  /\ queue' = Recrawl(queue)
  /\ Goto(c, "notify")
  /\ UNCHANGED <<queueHeld, configHeld, handlers, has_notifications, notifications, stop,
                 worker, backend, history>>

AddHandler(c) ==
  /\ c \in HandlerCall /\ cpc[c] = "called"
  /\ ~configHeld
  /\ handlers' = handlers \cup {c}
  /\ Goto(c, "returned")
  /\ UNCHANGED <<queue, queueHeld, configHeld, has_notifications, notifications, stop,
                 worker, backend, history>>

\* shutdown: the flag, then the backend's thread or stream, then the worker.
ShutdownStore(c) ==
  /\ c \in ShutdownCall /\ cpc[c] = "called"
  /\ stop' = TRUE
  /\ Goto(c, "stop_backend")
  /\ UNCHANGED <<queue, queueHeld, configHeld, handlers, has_notifications, notifications,
                 worker, backend, history>>

StopBackend(c) ==
  /\ c \in ShutdownCall /\ cpc[c] = "stop_backend"
  /\ wake' = (wake \/ scene.backend # "fsevent")
  /\ closed' = (closed \/ scene.backend = "fsevent")
  /\ Goto(c, "notify")
  /\ UNCHANGED <<shared, worker, native, arrivals, bpc, inflight, readable, history>>

\* The last step of add_root, set_filter and shutdown. None of them holds the
\* mutex of the queue here.
CallNotify(c) ==
  /\ cpc[c] = "notify"
  /\ Notify
  /\ Goto(c, "returned")
  /\ UNCHANGED <<shared, pending_changes, batch, todo, timed, settled, backend, history>>

CallStep(c) ==
  \/ AddRootCheck(c) \/ AddRootPush(c) \/ AddRootStore(c)
  \/ SetFilter(c) \/ RefreshConfig(c) \/ RequestRecrawl(c)
  \/ AddHandler(c) \/ ShutdownStore(c) \/ StopBackend(c) \/ CallNotify(c)

------------------------------------------------------------------------------
Init ==
  /\ scene \in Scenes
  /\ queue = NoChanges /\ queueHeld = FALSE /\ configHeld = FALSE
  /\ handlers = {} /\ has_notifications = FALSE /\ notifications = <<>> /\ stop = FALSE
  /\ wpc = "loop" /\ pending_changes = NoChanges /\ batch = FALSE
  /\ todo = <<>> /\ timed = FALSE /\ settled = FALSE
  /\ native = {} /\ arrivals = 0 /\ bpc = "poll" /\ inflight = {}
  /\ readable = FALSE /\ wake = FALSE /\ closed = FALSE
  /\ cpc = [c \in Call |-> "uncalled"]
  /\ owed = {} /\ answered = {} /\ expired = FALSE /\ disturbed = FALSE /\ excuse = "none"

\* The scene never changes.
Same(action) == action /\ UNCHANGED scene

Next ==
  \/ Same(Worker)
  \/ Same(SpuriousWakeup)
  \/ \E e \in Change \cup {Overflow} : Same(Arrive(e))
  \/ Same(BackendThread)
  \/ Same(Elapse)
  \/ \E c \in Call : Same(StartCall(c)) \/ Same(CallStep(c))

Spec == Init /\ [][Next]_vars

\* Every thread goes on when it can and time passes; the OS may stay silent,
\* calls need not be made and no spurious wake-up is owed to anyone.
\* (Endless spurious wake-ups could starve the other users of the mutex, so
\* liveness is checked without any.)
Fairness ==
  /\ WF_vars(Same(Worker))
  /\ WF_vars(Same(BackendThread))
  /\ WF_vars(Same(Elapse))
  /\ \A c \in Call : WF_vars(Same(CallStep(c)))

FairSpec == Spec /\ Fairness

------------------------------------------------------------------------------
WaitPc == {"lock", "relock", "check", "park", "waiting"}
WorkerPc == WaitPc \cup {"loop", "awake", "done", "notifications", "take_roots", "roots",
                         "apply", "handlers"}
BackendPc == {"poll", "message", "read", "notify", "stopped", "filter", "enqueue"}
CallPc == {"uncalled", "called", "push", "store", "refresh", "recrawl", "stop_backend",
           "notify", "returned"}

\* The values that the variables have, part by part.
SharedTypes ==
  /\ queue \in PendingChanges /\ queueHeld \in BOOLEAN /\ configHeld \in BOOLEAN
  /\ handlers \subseteq HandlerCall
  /\ has_notifications \in BOOLEAN /\ notifications \in Seq(RootCall) /\ stop \in BOOLEAN

WorkerTypes ==
  /\ wpc \in WorkerPc /\ pending_changes \in PendingChanges /\ todo \in Seq(RootCall)
  /\ batch \in BOOLEAN /\ timed \in BOOLEAN /\ settled \in BOOLEAN

BackendTypes ==
  /\ native \subseteq Change \cup {Overflow} /\ inflight \subseteq Change \cup {Overflow}
  /\ arrivals \in 0 .. scene.arrivals /\ bpc \in BackendPc
  /\ readable \in BOOLEAN /\ wake \in BOOLEAN /\ closed \in BOOLEAN

HistoryTypes ==
  /\ owed \subseteq Change /\ answered \subseteq RootCall
  /\ expired \in BOOLEAN /\ disturbed \in BOOLEAN /\ excuse \in {"none", "starved", "hasty"}

Types == /\ scene \in Scenes /\ cpc \in [Call -> CallPc]
         /\ SharedTypes /\ WorkerTypes /\ BackendTypes /\ HistoryTypes

\* Which program points hold which lock (worker.rs, pending.rs: a guard lives from
\* the lock to the end of its statement or scope).
LocksHeld ==
  /\ queueHeld <=> wpc \in {"check", "park"}
  /\ configHeld <=> wpc = "handlers" \/ (timed /\ wpc \in WaitPc)

\* Type correctness, and the locks are held exactly where they should be.
TypeOK == Types /\ LocksHeld

\* No change the OS reported is lost between its thread, the queue and the
\* worker: until the tree was brought up to date it is queued, in the worker's
\* hands, or covered by a recrawl in one of the two (PendingChanges::add,
\* PendingChanges::recrawl, the swap in take_timeout / take).
NothingForgotten ==
  \/ queue.recrawl \/ pending_changes.recrawl
  \/ owed \subseteq queue.changes \cup pending_changes.changes

\* The worker never goes to wait with changes in its own list: take and
\* take_timeout swap it into the queue, so leftovers would go back there and be
\* applied after newer ones (Worker::run leaves them there on a recrawl).
SwapHandsBackNothing ==
  wpc \in WaitPc \cup {"loop"} => IsEmpty(pending_changes)

\* The worker never sleeps on a non-empty queue unless somebody is on the way to
\* wake it (InotifyWatcher::handle_event, set_filter against PendingChangesLock).
NoLostChange ==
  wpc = "waiting" /\ ~IsEmpty(queue) =>
    \/ bpc \in {"read", "notify"}
    \/ \E c \in Call : cpc[c] = "notify"

\* A root in the list is announced by the flag, or about to be, or about to be
\* picked up: clearing the flag never hides one (process_notifications clears
\* the flag before it takes the list, add_root pushes before it sets the flag).
RootsAnnounced ==
  notifications # <<>> =>
    has_notifications \/ wpc = "take_roots" \/ \E c \in RootCall : cpc[c] = "store"

\* README: "merged until the file-watcher has settled (no events for N
\* milliseconds)": a batch goes out only if no native event came in while the
\* settle time ran, unless it was too short for the backend to even read it.
SettledQuiet == wpc = "awake" /\ settled => ~disturbed \/ excuse = "hasty"

\* A batch goes out in the middle of activity for two reasons only: the backend
\* had no time to read the event, or it waits for the config that the worker
\* holds (the queue is looked at before the clock, PendingChangesLock::take_timeout).
SettledUnlessStarved == wpc = "awake" /\ settled => ~disturbed \/ excuse # "none"

\* Every reported change is eventually reconciled with the tree, unless the
\* watcher is shut down (Worker::run).
Reconciled == \A c \in Change : c \in owed ~> (c \notin owed \/ stop)

\* Events are eventually handed to the handlers once the OS is silent, unless
\* the watcher is shut down (the settle time-out of wait_for_changes).
Delivered == batch ~> (~batch \/ stop)

\* Every call of the API returns, although the config is locked during the wait
\* for the settle time and while handlers run.
CallsReturn == \A c \in Call : cpc[c] = "called" ~> cpc[c] = "returned"

\* Backend::shutdown: "Request shutdown of the backend's worker thread(s) and
\* wake the worker.": the worker thread ends.
ShutdownStopsWorker == stop ~> wpc = "done"
==============================================================================
