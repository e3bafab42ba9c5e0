---------------------------- MODULE WindowsWatcher ---------------------------
(***************************************************************************)
(* The Windows backend (windows.rs): every watch has a directory handle    *)
(* and, most of the time, one read (ReadDirectoryChangesW) in flight. The  *)
(* system ends a read when something changed and puts a completion, with   *)
(* the index of the watch as its key, into the port. The completion thread *)
(* takes it, hands the changes to the worker and issues the next read; in  *)
(* between the system collects changes in the handle's buffer.             *)
(*                                                                         *)
(* `wroots` is read and written under its lock; a step that takes and      *)
(* releases it is one action, shutdown holds it over two.                  *)
(*                                                                         *)
(* Definitions named X_bug are wrong on purpose.                           *)
(***************************************************************************)
EXTENDS CanonicalPath, SequencesExt

VARIABLES call,           \* the worker's call of watch_dir, see Roots
          recrawl,        \* PendingChanges: is a recrawl due?
          stop,           \* WindowsWatcher.shutdown
          shut,           \* shutdown(): "none", "flag", "post", "cancel", "clear", "done"
          log,            \* all changes of directories
          seen,           \* history: the changes handed to the worker
          wroots,         \* WindowsWatcher.roots, see Root
          port,           \* the completions in it
          thread          \* the completion thread and the completion it works on

winVars == <<wroots, port, thread>>

\* read: "armed" (in flight), "ended" or "failed"; held: changes collected since.
Root(p, recursive) == [path |-> p, recursive |-> recursive, read |-> "armed", held |-> {}]

Nothing == [kind |-> "none", key |-> 0, ids |-> {}]

WinInit == wroots = <<>> /\ port = <<>> /\ thread = [pc |-> "wait", work |-> Nothing]

Locked == shut = "cancel"       \* shutdown has the lock of roots between its steps

------------------------------------------------------------------------------
(* watch_dir *)

Unneeded_bug == \E k \in DOMAIN wroots : Reaches(wroots[k].path, TRUE, call.path)

\* A watch covers the path.
Unneeded == \E k \in DOMAIN wroots : Reaches(wroots[k].path, wroots[k].recursive, call.path)

Returns(ok) == call' = [call EXCEPT !.pc = "done", !.ok = ok]

WatchNothing ==
  /\ call.pc = "called" /\ ~Locked /\ Unneeded
  /\ Returns(TRUE)
  /\ UNCHANGED <<recrawl, stop, shut, log, seen, winVars>>

\* A handle, its place in the port and the first read. The flag is not asked.
WatchRoot ==
  /\ call.pc = "called" /\ ~Locked /\ ~Unneeded /\ shut # "done"
  /\ wroots' = Append(wroots, Root(call.path, call.recursive))
  /\ Returns(TRUE)
  /\ UNCHANGED <<recrawl, stop, shut, log, seen, port, thread>>

\* One of the calls fails, as it does with a port that is closed.
WatchFails(may_fail) ==
  /\ call.pc = "called" /\ ~Locked /\ ~Unneeded
  /\ may_fail \/ shut = "done"
  /\ Returns(FALSE)
  /\ UNCHANGED <<recrawl, stop, shut, log, seen, winVars>>

------------------------------------------------------------------------------
(* The system *)

\* Who collects a change of d with that id.
Collect(d, id) ==
  wroots' = [k \in DOMAIN wroots |->
               IF Reaches(wroots[k].path, wroots[k].recursive, d) /\ wroots[k].read # "failed"
                 THEN [wroots[k] EXCEPT !.held = @ \cup {id}] ELSE wroots[k]]

EndRead(k, read, kind) ==
  /\ wroots[k].read = "armed" /\ shut # "done"
  /\ wroots' = [wroots EXCEPT ![k].read = read, ![k].held = {}]
  /\ port' = Append(port, [kind |-> kind, key |-> k, ids |-> wroots[k].held])
  /\ UNCHANGED <<call, recrawl, stop, shut, log, seen, thread>>

\* The changes fit into the buffer, or they do not and are lost.
ReadCompletes(k) == wroots[k].held # {} /\ \E kind \in {"records", "overflow"} : EndRead(k, "ended", kind)

\* The handle has become invalid.
ReadFails(k) == EndRead(k, "failed", "failed")

------------------------------------------------------------------------------
(* completion_loop *)

Exit ==
  /\ thread.pc = "wait" /\ stop /\ (port # <<>> \/ shut = "done")
  /\ thread' = [thread EXCEPT !.pc = "exit"]
  /\ UNCHANGED <<call, recrawl, stop, shut, log, seen, wroots, port>>

\* GetQueuedCompletionStatus, and the flag is not set.
Dequeue ==
  /\ thread.pc = "wait" /\ ~stop /\ port # <<>>
  /\ port' = Tail(port)
  /\ thread' = [pc |-> Head(port).kind, work |-> Head(port)]
  /\ UNCHANGED <<call, recrawl, stop, shut, log, seen, wroots>>

Rewait == thread' = [pc |-> "wait", work |-> Nothing]

\* A recrawl makes up for what was lost. There is no other read.
Failed ==
  /\ thread.pc = "failed"
  /\ recrawl' = TRUE
  /\ seen' = seen \cup thread.work.ids
  /\ Rewait
  /\ UNCHANGED <<call, stop, shut, log, wroots, port>>

MayLock_bug == TRUE

\* The thread gets the lock.
MayLock == ~Locked

\* roots.get_mut(key) finds nothing: shutdown has cleared the list.
Gone ==
  /\ thread.pc \in {"records", "overflow", "rearm"} /\ MayLock
  /\ thread.work.key \notin DOMAIN wroots
  /\ Rewait
  /\ UNCHANGED <<call, recrawl, stop, shut, log, seen, wroots, port>>

CopyRecords ==
  /\ thread.pc = "records" /\ MayLock /\ thread.work.key \in DOMAIN wroots
  /\ thread' = [thread EXCEPT !.pc = "handle"]
  /\ UNCHANGED <<call, recrawl, stop, shut, log, seen, wroots, port>>

\* Without the lock (what the filter ignores needs nothing).
HandleRecords ==
  /\ thread.pc = "handle"
  /\ seen' = seen \cup thread.work.ids
  /\ thread' = [thread EXCEPT !.pc = "rearm"]
  /\ UNCHANGED <<call, recrawl, stop, shut, log, wroots, port>>

IssueRead_bug(k, ok) ==      \* not after an overflow
  wroots' = IF thread.pc = "overflow" THEN wroots
            ELSE [wroots EXCEPT ![k].read = IF ok THEN "armed" ELSE "failed"]

\* The next read. If it fails the watch stays, without one.
IssueRead(k, ok) ==
  wroots' = [wroots EXCEPT ![k].read = IF ok THEN "armed" ELSE "failed"]

Rearm(may_fail) ==
  /\ thread.pc = "rearm" /\ MayLock /\ thread.work.key \in DOMAIN wroots
  /\ \E ok \in {TRUE, ~may_fail} : IssueRead(thread.work.key, ok)
  /\ Rewait
  /\ UNCHANGED <<call, recrawl, stop, shut, log, seen, port>>

\* Here too.
Overflow(may_fail) ==
  /\ thread.pc = "overflow" /\ MayLock /\ thread.work.key \in DOMAIN wroots
  /\ recrawl' = TRUE
  /\ seen' = seen \cup thread.work.ids
  /\ \E ok \in {TRUE, ~may_fail} : IssueRead(thread.work.key, ok)
  /\ Rewait
  /\ UNCHANGED <<call, stop, shut, log, port>>

Thread(may_fail) == \/ Exit \/ Dequeue \/ Failed \/ Gone \/ CopyRecords \/ HandleRecords
                    \/ Rearm(may_fail) \/ Overflow(may_fail)

------------------------------------------------------------------------------
(* shutdown *)

SwapShutdown ==
  /\ shut = "none"
  /\ stop' = TRUE
  /\ shut' = "flag"
  /\ UNCHANGED <<call, recrawl, log, seen, winVars>>

Post ==
  /\ shut = "flag"
  /\ port' = Append(port, [Nothing EXCEPT !.kind = "post"])
  /\ shut' = "post"
  /\ UNCHANGED <<call, recrawl, stop, log, seen, wroots, thread>>

\* Under the lock: every read in flight is cancelled and has ended ...
Cancel ==
  /\ shut = "post"
  /\ wroots' = [k \in DOMAIN wroots |-> [wroots[k] EXCEPT !.read = IF @ = "armed" THEN "ended" ELSE @]]
  /\ shut' = "cancel"
  /\ UNCHANGED <<call, recrawl, stop, log, seen, port, thread>>

\* ... before the buffers are freed.
Clear ==
  /\ shut = "cancel"
  /\ wroots' = <<>>
  /\ shut' = "clear"
  /\ UNCHANGED <<call, recrawl, stop, log, seen, port, thread>>

ClosePort ==
  /\ shut = "clear"
  /\ shut' = "done"
  /\ port' = <<>>
  /\ UNCHANGED <<call, recrawl, stop, log, seen, wroots, thread>>

Shutdown == Post \/ Cancel \/ Clear \/ ClosePort

Backend(may_fail) == WatchNothing \/ WatchRoot \/ WatchFails(may_fail)
System(may_fail) == \E k \in DOMAIN wroots : ReadCompletes(k) \/ (may_fail /\ ReadFails(k))

------------------------------------------------------------------------------
(* Where a change or a read is *)

Dead(k) == wroots[k].read = "failed"

OnItsWay(i) == \/ \E k \in DOMAIN wroots : i \in wroots[k].held
               \/ \E n \in DOMAIN port : i \in port[n].ids
               \/ i \in thread.work.ids

\* How many reads, completions and thread steps there are for a watch.
Reads(k) == Cardinality({x \in {"armed"} : wroots[k].read = x})
            + Cardinality({n \in DOMAIN port : port[n].key = k})
            + Cardinality({x \in {k} : thread.work.key = x})
==============================================================================
