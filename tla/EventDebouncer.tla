---------------------------- MODULE EventDebouncer ---------------------------
(***************************************************************************)
(* From what the tree sees of single paths to the batch a handler gets:    *)
(* NodeMeta::change_type (tree.rs) decides whether an observation is an    *)
(* event, EventDebouncer::add (events.rs) merges it into the pending batch *)
(* and Worker::run hands the batch over once the watcher has settled.      *)
(*                                                                         *)
(* The hash table from paths to positions in `events` is the function      *)
(* `table`; position 0 stands for a vacant entry (the code counts from 0). *)
(* A path with no node yet is a Deleted one: the code treats the two alike *)
(* (a file found there is a Create).                                       *)
(*                                                                         *)
(* Definitions named X_bug are wrong on purpose: X with a plausible        *)
(* mistake.                                                                *)
(***************************************************************************)
EXTENDS Naturals, Sequences, FileEvents

CONSTANTS Path,           \* the paths in the watched tree
          Stamp           \* (mtime, size) pairs a file may have

VARIABLES meta,           \* the tree's NodeMeta of every path
          table, events,  \* the debouncer
          crawls,         \* may crawls of this run find a known path missing?
          consumer,       \* the files a handler that applies every batch knows
          batch           \* the batch delivered last

debouncer == <<table, events>>
vars == <<meta, debouncer, crawls, consumer, batch>>

------------------------------------------------------------------------------
NodeMeta == {File(s) : s \in Stamp} \cup {Dir, Deleted}

\* EventDebouncer::add
Add(p, ty) ==
  LET i == table[p] IN
  \/ /\ i > 0
     /\ events' = [events EXCEPT ![i].ty = Merge(@, ty)]
     /\ UNCHANGED table
  \/ /\ i = 0
     /\ table' = [table EXCEPT ![p] = Len(events) + 1]
     /\ events' = Append(events, [path |-> p, ty |-> ty])

Take_bug == events' = <<>> /\ UNCHANGED table    \* no clear()

\* EventDebouncer::take
Take == /\ table' = [p \in Path |-> 0]
        /\ events' = <<>>

------------------------------------------------------------------------------
(* A handler that applies every event: a Tempfile leaves nothing behind. *)

Believed == {p \in Path : IF table[p] = 0 THEN p \in consumer
                                          ELSE Present(events[table[p]].ty)}

Files == {p \in Path : IsFile(meta[p])}

------------------------------------------------------------------------------
Init == /\ meta \in [Path -> NodeMeta]
        /\ table = [p \in Path |-> 0]
        /\ events = <<>>
        /\ crawls \in BOOLEAN
        /\ consumer = Files
        /\ batch = <<>>

\* The tree stats a path and finds `new` there (Deleted: nothing).
Observe(p, new, skip_check) ==
  LET ty == ChangeType(meta[p], new, skip_check) IN
  /\ meta' = [meta EXCEPT ![p] = new]
  /\ IF ty = NoEvent THEN UNCHANGED debouncer ELSE Add(p, ty)
  /\ UNCHANGED <<crawls, consumer, batch>>

\* A crawl leaves a directory without having met its child p. A child that is
\* a file emits Delete, then delete_rec returns at once (a file has no list of
\* children): the node keeps saying File.
CrawlMissing(p) ==
  /\ crawls
  /\ IsFile(meta[p])
  /\ Add(p, "Delete")
  /\ UNCHANGED <<meta, crawls, consumer, batch>>

\* The watcher has settled: the handlers get the batch.
Deliver ==
  /\ events # <<>>
  /\ batch' = events
  /\ consumer' = Believed
  /\ Take
  /\ UNCHANGED <<meta, crawls>>

Next == \/ \E p \in Path, new \in NodeMeta, skip_check \in BOOLEAN : Observe(p, new, skip_check)
        \/ \E p \in Path : CrawlMissing(p)
        \/ Deliver

Spec == Init /\ [][Next]_vars

------------------------------------------------------------------------------
Event == [path : Path, ty : EventType]

\* Type correctness of the tree's metadata, the debouncer and the consumer.
TypeOK == /\ meta \in [Path -> NodeMeta]
          /\ table \in [Path -> Nat]
          /\ events \in Seq(Event)
          /\ crawls \in BOOLEAN
          /\ consumer \in SUBSET Path
          /\ batch \in Seq(Event)

\* The table and the vector never drift apart, over any number of batches: a
\* position in the table is inside the vector and holds that path's event, and
\* every event is the one the table finds, so a batch has one event per path
\* (EventDebouncer::add / take index `events` with what `table` says).
TableIndexes ==
  /\ \A p \in Path : table[p] \in 0 .. Len(events)
  /\ \A p \in Path : table[p] > 0 => events[table[p]].path = p
  /\ \A i \in 1 .. Len(events) : table[events[i].path] = i

\* The event held for a path is the net effect between what the consumer was
\* last told and what the tree knows, and a path without an event is one the
\* consumer is right about.
Exact ==
  \A p \in Path :
    IF table[p] = 0
      THEN p \in consumer <=> IsFile(meta[p])
      ELSE events[table[p]].ty = Net(p \in consumer, IsFile(meta[p]))

\* However many observations were merged, the batch is exact, as long as no crawl
\* misses a file (the match in EventDebouncer::add against
\* NodeMeta::change_type; a missed file's node keeps saying File).
NetEffect == ~crawls => Exact

\* A consumer that applies what is pending never believes in a file the tree
\* does not have, crawls included (change_type's Delete is never merged away).
NoGhostFile == Believed \subseteq Files

\* What the abstract specification sees; nothing at all where crawls may miss.
Seen(S) == IF crawls THEN {} ELSE S

NC == INSTANCE NetChange WITH
        exists   <- Seen(Files),
        reported <- Seen(consumer),
        touched  <- Seen({p \in Path : table[p] > 0}),
        batch    <- Seen({batch[i] : i \in 1 .. Len(batch)})

\* Unless crawls may miss files, every batch is a report of NetChange: one event
\* per touched file, each the net effect since the previous batch (EventDebouncer::take in Worker::run).
ImplementsNetChange == NC!Spec
==============================================================================
