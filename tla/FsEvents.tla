------------------------------- MODULE FsEvents ------------------------------
(***************************************************************************)
(* The macOS backend (fsevent.rs): one event stream for all roots. Its     *)
(* paths are fixed, so a new root means a new stream, which starts at the  *)
(* newest event id the callback has recorded. The system keeps the changes *)
(* and numbers them: `log`, where a change's id is its index; it began     *)
(* long before the watcher.                                                *)
(*                                                                         *)
(* watch_dir and shutdown hold the lock of `inner`, the callback, which    *)
(* runs on a serial queue, does not. Stopping a stream does not wait for a *)
(* callback that runs. That a stream cannot be created is left out.        *)
(*                                                                         *)
(* Definitions named X_bug are wrong on purpose.                           *)
(***************************************************************************)
EXTENDS CanonicalPath, FiniteSetsExt

VARIABLES call,           \* the worker's call of watch_dir, see Roots
          recrawl,        \* PendingChanges: is a recrawl due?
          stop,           \* FsEventWatcher.shutdown
          shut,           \* shutdown(): "none", "flag" or "done"
          log,            \* all changes of directories
          seen,           \* history: the changes handed to the worker
          fsroots,        \* Inner.roots
          stream,         \* Inner.stream: which paths, the newest id delivered
          last_event_id,
          since,          \* local to rebuild_stream
          callback        \* the callback: where it is, the ids in its batch

fsVars == <<fsroots, stream, last_event_id, since, callback>>

NoStream == [live |-> FALSE, paths |-> {}, newest |-> 0]

FsInit == /\ fsroots = {} /\ stream = NoStream /\ last_event_id = 0 /\ since = 0
          /\ callback = [pc |-> "idle", ids |-> {}]

Rebuilding == call.pc \in {"resume", "create"}      \* holds the lock

Go(pc) == call' = [call EXCEPT !.pc = pc]

------------------------------------------------------------------------------
(* watch_dir *)

Unneeded_bug == \E r \in fsroots : Reaches(r, TRUE, call.path)      \* no look at the flag

\* Shut down, or a root covers the path.
Unneeded == stop \/ \E r \in fsroots : Reaches(r, TRUE, call.path)

WatchNothing ==
  /\ call.pc = "called" /\ Unneeded
  /\ Go("done")
  /\ UNCHANGED <<recrawl, stop, shut, log, seen, fsVars>>

\* The stream is torn down.
WatchRoot ==
  /\ call.pc = "called" /\ ~Unneeded
  /\ fsroots' = fsroots \cup {call.path}
  /\ stream' = NoStream
  /\ Go("resume")
  /\ UNCHANGED <<recrawl, stop, shut, log, seen, last_event_id, since, callback>>

ResumeFrom_bug == Len(log)      \* from now on

\* The newest id seen; the first time that of the system.
ResumeFrom == IF last_event_id = 0 THEN Len(log) ELSE last_event_id

Resume ==
  /\ call.pc = "resume"
  /\ since' = ResumeFrom
  /\ last_event_id' = IF last_event_id = 0 THEN since' ELSE last_event_id
  /\ Go("create")
  /\ UNCHANGED <<recrawl, stop, shut, log, seen, fsroots, stream, callback>>

Create ==
  /\ call.pc = "create"
  /\ stream' = [live |-> TRUE, paths |-> fsroots, newest |-> since]
  /\ Go("done")
  /\ UNCHANGED <<recrawl, stop, shut, log, seen, fsroots, last_event_id, since, callback>>

------------------------------------------------------------------------------
(* The callback *)

\* What the stream has yet to deliver.
Undelivered == {i \in stream.newest + 1 .. Len(log) :
                  \E p \in stream.paths : Reaches(p, TRUE, log[i].dir)}

\* The next batch.
Deliver ==
  /\ callback.pc = "idle" /\ stream.live
  /\ \E newest \in Undelivered :
       /\ callback' = [pc |-> "record", ids |-> {i \in Undelivered : i <= newest}]
       /\ stream' = [stream EXCEPT !.newest = newest]
  /\ UNCHANGED <<call, recrawl, stop, shut, log, seen, fsroots, last_event_id, since>>

RecordId ==
  /\ callback.pc = "record"
  /\ last_event_id' = Max(callback.ids)
  /\ callback' = [callback EXCEPT !.pc = "process"]
  /\ UNCHANGED <<call, recrawl, stop, shut, log, seen, fsroots, stream, since>>

\* process_events: every directory is queued (an ignored one needs nothing), or
\* the system asks for a scan of everything and the rest of the batch is left.
ProcessEvents(may_scan) ==
  /\ callback.pc = "process"
  /\ seen' = seen \cup callback.ids
  /\ \E must_scan \in {FALSE, may_scan} : recrawl' = (recrawl \/ must_scan)
  /\ callback' = [pc |-> "idle", ids |-> {}]
  /\ UNCHANGED <<call, stop, shut, log, fsroots, stream, last_event_id, since>>

------------------------------------------------------------------------------
(* shutdown *)

StoreShutdown ==
  /\ shut = "none"
  /\ stop' = TRUE
  /\ shut' = "flag"
  /\ UNCHANGED <<call, recrawl, log, seen, fsVars>>

\* Waits for the lock.
TearDown ==
  /\ shut = "flag" /\ ~Rebuilding
  /\ stream' = NoStream
  /\ shut' = "done"
  /\ UNCHANGED <<call, recrawl, stop, log, seen, fsroots, last_event_id, since, callback>>

Backend == WatchNothing \/ WatchRoot \/ Resume \/ Create
Callback(may_scan) == Deliver \/ RecordId \/ ProcessEvents(may_scan)

------------------------------------------------------------------------------
(* Where a change is that the worker does not know of: in the callback, or in  *)
(* the part of the log that the stream, this one or the next, has to deliver.  *)

Position == CASE stream.live         -> stream.newest
              [] call.pc = "create"  -> since
              [] OTHER               -> last_event_id

OnItsWay(i) == i \in callback.ids \/ (i > Position /\ (stream.live \/ Rebuilding))
==============================================================================
