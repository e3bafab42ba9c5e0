----------------------- MODULE EventDebouncer_proofs -------------------------
(***************************************************************************)
(* Proofs about EventDebouncer, for any set of paths and stamps:           *)
(*   - the table and the vector stay in step (TableIndexes), which is what *)
(*     makes every look-up in `events` defined;                            *)
(*   - a consumer never believes in a file the tree does not have;         *)
(*   - as long as no crawl misses a known file, every pending event is the *)
(*     net effect of what was observed (NetEffect), and the batches are    *)
(*     those of the abstract specification NetChange.                      *)
(***************************************************************************)
EXTENDS EventDebouncer, TLAPS

\* What a merged event is: always one of the four types.
LEMMA MergeType ==
  ASSUME NEW old \in EventType, NEW new \in EventType
  PROVE  Merge(old, new) \in EventType
BY DEF Merge, EventType

\* An observation of a file that is already known, or of no file, is no event;
\* every other one has the type of the transition.
LEMMA ChangeTypes ==
  ASSUME NEW old \in NodeMeta, NEW new \in NodeMeta, NEW skip \in BOOLEAN
  PROVE  LET ty == ChangeType(old, new, skip) IN
         /\ ty = NoEvent => (IsFile(old) <=> IsFile(new))
         /\ ty # NoEvent =>
              /\ ty \in {"Create", "Delete", "Modified"}
              /\ ty = "Create" <=> (~IsFile(old) /\ IsFile(new))
              /\ ty = "Delete" <=> (IsFile(old) /\ ~IsFile(new))
              /\ ty = "Modified" <=> (IsFile(old) /\ IsFile(new))
<1>1. CASE IsFile(old) /\ IsFile(new)
  <2>1. CASE ~skip /\ old = new
    BY <1>1, <2>1 DEF ChangeType, EventType, NoEvent
  <2>2. CASE ~(~skip /\ old = new)
    BY <1>1, <2>2 DEF ChangeType, EventType, NoEvent
  <2>3. QED BY <2>1, <2>2
<1>2. CASE ~IsFile(old) /\ IsFile(new)
  BY <1>2 DEF ChangeType, EventType, NoEvent
<1>3. CASE IsFile(old) /\ ~IsFile(new)
  BY <1>3 DEF ChangeType, EventType, NoEvent
<1>4. CASE ~IsFile(old) /\ ~IsFile(new)
  BY <1>4 DEF ChangeType, EventType, NoEvent
<1>5. QED BY <1>1, <1>2, <1>3, <1>4

\* What EventDebouncer::add does: it keeps table and vector in step, leaves the
\* events of other paths alone, and leaves one for p, merged with an older one.
LEMMA AddStep ==
  ASSUME TypeOK, TableIndexes,
         NEW p \in Path, NEW ty \in EventType, Add(p, ty)
  PROVE  /\ table' \in [Path -> Nat]
         /\ events' \in Seq(Event)
         /\ TableIndexes'
         /\ \A q \in Path \ {p} :
              /\ table'[q] = table[q]
              /\ table[q] > 0 => events'[table'[q]].ty = events[table[q]].ty
         /\ table'[p] > 0
         /\ events'[table'[p]].ty =
              IF table[p] = 0 THEN ty ELSE Merge(events[table[p]].ty, ty)
<1>0. /\ table \in [Path -> Nat] /\ events \in Seq(Event)
      /\ \A q \in Path : table[q] \in 0 .. Len(events)
      /\ \A q \in Path : table[q] > 0 => events[table[q]].path = q
      /\ \A j \in 1 .. Len(events) : table[events[j].path] = j
  BY DEF TypeOK, TableIndexes
<1>t. \A j \in 1 .. Len(events) : events[j] \in Event /\ events[j].path \in Path
                                                  /\ events[j].ty \in EventType
  <2>1. \A j \in 1 .. Len(events) : events[j] \in Event
    BY <1>0
  <2>2. \A e \in Event : e.path \in Path /\ e.ty \in EventType
    BY DEF Event
  <2>3. QED BY <2>1, <2>2
<1>1. CASE table[p] > 0
  <2> DEFINE i == table[p]
             m == Merge(events[i].ty, ty)
             e == [path |-> p, ty |-> m]
  <2>1. i \in 1 .. Len(events) /\ events[i].path = p /\ table[p] # 0
    BY <1>0, <1>1
  <2>2. m \in EventType
    BY <1>t, <2>1, MergeType
  <2> HIDE DEF m
  <2>3. events' = [events EXCEPT ![i].ty = m] /\ table' = table
    BY <1>0, <2>1 DEF Add, m
  <2>4. e \in Event /\ [events[i] EXCEPT !.ty = m] = e
    BY <1>t, <2>1, <2>2 DEF Event
  <2>5. events' = [events EXCEPT ![i] = e]
    BY <2>3, <2>4
  <2> HIDE DEF i
  <2>6. /\ events' \in Seq(Event)
        /\ Len(events') = Len(events)
        /\ \A j \in 1 .. Len(events) : events'[j] = IF j = i THEN e ELSE events[j]
    BY <1>0, <2>1, <2>4, <2>5
  <2>7. \A j \in 1 .. Len(events) : events'[j].path = events[j].path
    BY <2>1, <2>6
  <2>8. TableIndexes'
    BY <1>0, <2>3, <2>6, <2>7 DEF TableIndexes
  <2>9. ASSUME NEW q \in Path \ {p}, table[q] > 0
        PROVE  events'[table[q]].ty = events[table[q]].ty
    <3>1. table[q] \in 1 .. Len(events) /\ events[table[q]].path # p
      BY <1>0, <2>9
    <3>2. table[q] # i
      BY <2>1, <3>1
    <3>3. QED BY <2>6, <3>1, <3>2
  <2>10. events'[table'[p]].ty = m
    BY <2>1, <2>3, <2>6 DEF i
  <2>11. QED
    BY <1>0, <1>1, <2>3, <2>6, <2>8, <2>9, <2>10 DEF i, m
<1>2. CASE table[p] = 0
  <2> DEFINE n == Len(events) + 1
             e == [path |-> p, ty |-> ty]
  <2>1. events' = Append(events, e) /\ table' = [table EXCEPT ![p] = n]
    BY <1>0, <1>2 DEF Add
  <2>2. e \in Event /\ n \in Nat /\ n > 0
    BY <1>0 DEF Event
  <2>3. /\ events' \in Seq(Event)
        /\ Len(events') = n
        /\ events'[n] = e
        /\ \A j \in 1 .. Len(events) : events'[j] = events[j]
    BY <1>0, <2>1, <2>2
  <2>4. /\ table' \in [Path -> Nat]
        /\ table'[p] = n
        /\ \A q \in Path \ {p} : table'[q] = table[q]
    BY <1>0, <2>1, <2>2
  <2>5. \A j \in 1 .. Len(events) : events[j].path \in Path \ {p}
    BY <1>0, <1>t, <1>2
  <2>6. TableIndexes'
    <3>1. \A q \in Path : table'[q] \in 0 .. n
      BY <1>0, <2>4
    <3>2. \A q \in Path : table'[q] > 0 => events'[table'[q]].path = q
      <4>1. events'[table'[p]].path = p
        BY <2>3, <2>4
      <4>2. ASSUME NEW q \in Path \ {p}, table'[q] > 0
            PROVE  events'[table'[q]].path = q
        BY <1>0, <2>3, <2>4, <4>2
      <4>3. QED BY <4>1, <4>2
    <3>3. \A j \in 1 .. n : table'[events'[j].path] = j
      <4>1. table'[events'[n].path] = n
        BY <2>3, <2>4
      <4>2. ASSUME NEW j \in 1 .. Len(events)
            PROVE  table'[events'[j].path] = j
        BY <1>0, <2>3, <2>4, <2>5
      <4>3. \A j \in 1 .. n : j = n \/ j \in 1 .. Len(events)
        BY <1>0
      <4>4. QED BY <4>1, <4>2, <4>3
    <3>4. QED BY <2>3, <3>1, <3>2, <3>3 DEF TableIndexes
  <2>7. ASSUME NEW q \in Path \ {p}, table[q] > 0
        PROVE  events'[table'[q]].ty = events[table[q]].ty
    BY <1>0, <2>3, <2>4, <2>7
  <2>8. QED
    BY <1>0, <1>2, <2>1, <2>2, <2>3, <2>4, <2>6, <2>7
<1>3. table[p] > 0 \/ table[p] = 0
  BY <1>0
<1>4. QED
  BY <1>1, <1>2, <1>3

------------------------------------------------------------------------------
(* Types and the table *)

\* Holds of every state on its own, no matter what crawls miss.
Indexed == TypeOK /\ TableIndexes

\* Whether crawls may miss files is settled at the start.
LEMMA NextKeepsCrawls ==
  ASSUME [Next]_vars
  PROVE  crawls' = crawls
BY DEF Next, Observe, CrawlMissing, Deliver, vars

LEMMA InitIndexed == Init => Indexed
<1> SUFFICES ASSUME Init PROVE Indexed
  OBVIOUS
<1>1. TypeOK
  <2>1. table \in [Path -> Nat] /\ crawls \in BOOLEAN /\ meta \in [Path -> NodeMeta]
    BY DEF Init
  <2>2. events = <<>> /\ batch = <<>>
    BY DEF Init
  <2>3. events \in Seq(Event) /\ batch \in Seq(Event)
    BY <2>2
  <2>4. consumer \in SUBSET Path
    BY DEF Init, Files
  <2>5. QED BY <2>1, <2>3, <2>4 DEF TypeOK
<1>2. TableIndexes
  BY DEF Init, TableIndexes
<1>3. QED BY <1>1, <1>2 DEF Indexed

LEMMA NextIndexed ==
  ASSUME Indexed, [Next]_vars
  PROVE  Indexed'
<1> USE DEF Indexed
<1>1. ASSUME NEW p \in Path, NEW new \in NodeMeta, NEW skip \in BOOLEAN, Observe(p, new, skip)
      PROVE  Indexed'
  <2> DEFINE ty == ChangeType(meta[p], new, skip)
  <2>1. meta[p] \in NodeMeta /\ meta' \in [Path -> NodeMeta]
    BY <1>1 DEF Observe, TypeOK
  <2>2. consumer' = consumer /\ batch' = batch /\ crawls' = crawls
    BY <1>1 DEF Observe
  <2>3. CASE ty = NoEvent
    BY <1>1, <2>1, <2>2, <2>3 DEF Observe, debouncer, TypeOK, TableIndexes
  <2>4. CASE ty # NoEvent
    <3>1. ty \in EventType
      BY <2>1, <2>4, ChangeTypes DEF EventType
    <3>2. Add(p, ty)
      BY <1>1, <2>4 DEF Observe
    <3>3. QED
      BY <2>1, <2>2, <3>1, <3>2, AddStep DEF TypeOK
  <2>5. QED BY <2>3, <2>4
<1>2. ASSUME NEW p \in Path, CrawlMissing(p)
      PROVE  Indexed'
  <2>1. Add(p, "Delete") /\ "Delete" \in EventType
    BY <1>2 DEF CrawlMissing, EventType
  <2>2. UNCHANGED <<meta, crawls, consumer, batch>>
    BY <1>2 DEF CrawlMissing
  <2>3. QED
    BY <2>1, <2>2, AddStep DEF TypeOK
<1>3. CASE Deliver
  <2>1. /\ meta' = meta /\ consumer' = Believed /\ batch' = events
        /\ table' = [p \in Path |-> 0] /\ events' = <<>> /\ crawls' = crawls
    BY <1>3 DEF Deliver, Take
  <2>2. Believed \in SUBSET Path
    BY DEF Believed
  <2>3. QED
    BY <2>1, <2>2 DEF TypeOK, TableIndexes
<1>4. CASE UNCHANGED vars
  BY <1>4 DEF vars, debouncer, TypeOK, TableIndexes
<1>5. QED
  BY <1>1, <1>2, <1>3, <1>4 DEF Next

\* The table and the vector never drift apart and every variable keeps its type
\* (EventDebouncer::add and take, events.rs).
THEOREM TableIndexed == Spec => [](TypeOK /\ TableIndexes)
<1>1. Init => Indexed
  BY InitIndexed
<1>2. Indexed /\ [Next]_vars => Indexed'
  BY NextIndexed
<1>3. QED
  BY <1>1, <1>2, PTL DEF Spec, Indexed

\* Every variable keeps its type.
THEOREM TypeCorrect == Spec => []TypeOK
BY TableIndexed, PTL

------------------------------------------------------------------------------
(* No ghost files *)

LEMMA AddGhost ==
  ASSUME Indexed, NoGhostFile, consumer' = consumer,
         NEW p \in Path, NEW ty \in EventType, Add(p, ty),
         \A q \in Path \ {p} : meta'[q] = meta[q],
         ty = "Delete" \/ IsFile(meta'[p])
  PROVE  NoGhostFile'
<1>1. /\ \A q \in Path \ {p} :
           /\ table'[q] = table[q]
           /\ table[q] > 0 => events'[table'[q]].ty = events[table[q]].ty
      /\ table'[p] > 0 /\ table[p] \in Nat
      /\ events'[table'[p]].ty = IF table[p] = 0 THEN ty ELSE Merge(events[table[p]].ty, ty)
  BY AddStep DEF Indexed, TypeOK
<1>t. \A q \in Path : table[q] \in Nat
  BY DEF Indexed, TypeOK
<1>2. SUFFICES ASSUME NEW q \in Path, q \in Believed'
               PROVE  IsFile(meta'[q])
  BY DEF NoGhostFile, Files, Believed
<1>3. CASE q = p
  <2>1. Present(events'[table'[p]].ty)
    BY <1>1, <1>2, <1>3 DEF Believed
  <2>2. ty # "Delete"
    BY <1>1, <2>1 DEF Present, Merge
  <2>3. QED BY <1>3, <2>2
<1>4. CASE q # p
  <2>1. q \in Believed
    <3>1. table'[q] = table[q] /\ table[q] \in Nat
      BY <1>1, <1>4, <1>t
    <3>2. CASE table[q] = 0
      BY <1>2, <3>1, <3>2 DEF Believed
    <3>3. CASE table[q] > 0
      <4>1. events'[table'[q]].ty = events[table[q]].ty /\ table[q] # 0
        BY <1>1, <1>4, <3>1, <3>3
      <4>2. Present(events'[table'[q]].ty)
        BY <1>2, <3>1, <4>1 DEF Believed
      <4>3. QED BY <4>1, <4>2 DEF Believed
    <3>4. QED BY <3>1, <3>2, <3>3
  <2>2. IsFile(meta[q])
    BY <2>1 DEF NoGhostFile, Files
  <2>3. QED BY <1>4, <2>2
<1>5. QED BY <1>3, <1>4

\* Whatever was observed or missed, a consumer that applies the pending batch
\* believes in no file that the tree has not (change_type, events.rs' add).
THEOREM NoGhosts == Spec => []NoGhostFile
<1>1. Init => NoGhostFile
  BY DEF Init, NoGhostFile, Believed, Files
<1>2. ASSUME Indexed, NoGhostFile, [Next]_vars
      PROVE  NoGhostFile'
  <2>1. ASSUME NEW p \in Path, NEW new \in NodeMeta, NEW skip \in BOOLEAN, Observe(p, new, skip)
        PROVE  NoGhostFile'
    <3> DEFINE ty == ChangeType(meta[p], new, skip)
    <3>1. /\ meta[p] \in NodeMeta /\ meta'[p] = new /\ consumer' = consumer
          /\ \A q \in Path \ {p} : meta'[q] = meta[q]
      BY <1>2, <2>1 DEF Observe, Indexed, TypeOK
    <3>2. CASE ty = NoEvent
      <4>1. IsFile(meta[p]) <=> IsFile(new)
        BY <3>1, <3>2, ChangeTypes
      <4>2. UNCHANGED <<table, events>>
        BY <2>1, <3>2 DEF Observe, debouncer
      <4>3. QED BY <1>2, <3>1, <4>1, <4>2 DEF NoGhostFile, Believed, Files
    <3>3. CASE ty # NoEvent
      <4>1. ty \in EventType /\ (ty = "Delete" \/ IsFile(new))
        BY <3>1, <3>3, ChangeTypes DEF EventType
      <4>2. Add(p, ty)
        BY <2>1, <3>3 DEF Observe
      <4> HIDE DEF ty
      <4>3. QED BY <1>2, <3>1, <4>1, <4>2, AddGhost
    <3>4. QED BY <3>2, <3>3
  <2>2. ASSUME NEW p \in Path, CrawlMissing(p)
        PROVE  NoGhostFile'
    BY <1>2, <2>2, AddGhost DEF CrawlMissing, EventType
  <2>3. CASE Deliver
    BY <1>2, <2>3 DEF Deliver, Take, NoGhostFile, Believed, Files
  <2>4. CASE UNCHANGED vars
    BY <1>2, <2>4 DEF vars, debouncer, NoGhostFile, Believed, Files
  <2>5. QED BY <1>2, <2>1, <2>2, <2>3, <2>4 DEF Next
<1>3. Spec => []Indexed
  BY TableIndexed DEF Indexed
<1>4. QED
  BY <1>1, <1>2, <1>3, PTL DEF Spec

------------------------------------------------------------------------------
(* The net effect *)

\* Merging keeps the net effect: if the event held leads from `had` to `has`
\* and the new one from `has` to `now`, the merged one leads from `had` to `now`.
LEMMA MergeNet ==
  ASSUME NEW had \in BOOLEAN, NEW has \in BOOLEAN, NEW now \in BOOLEAN,
         NEW ty \in {"Create", "Delete", "Modified"},
         ty = "Create" <=> (~has /\ now),
         ty = "Delete" <=> (has /\ ~now),
         ty = "Modified" <=> (has /\ now)
  PROVE  /\ Merge(Net(had, has), ty) = Net(had, now)
         /\ had = has => ty = Net(had, now)
BY DEF Merge, Net

LEMMA AddNet ==
  ASSUME Indexed, Exact, consumer' = consumer,
         NEW p \in Path, NEW ty \in {"Create", "Delete", "Modified"}, Add(p, ty),
         \A q \in Path \ {p} : meta'[q] = meta[q],
         ty = "Create" <=> (~IsFile(meta[p]) /\ IsFile(meta'[p])),
         ty = "Delete" <=> (IsFile(meta[p]) /\ ~IsFile(meta'[p])),
         ty = "Modified" <=> (IsFile(meta[p]) /\ IsFile(meta'[p]))
  PROVE  Exact'
<1> DEFINE had == p \in consumer
           has == IsFile(meta[p])
           now == IsFile(meta'[p])
<1>1. /\ \A q \in Path \ {p} :
           /\ table'[q] = table[q]
           /\ table[q] > 0 => events'[table'[q]].ty = events[table[q]].ty
      /\ table'[p] > 0 /\ table'[p] # 0
      /\ events'[table'[p]].ty = IF table[p] = 0 THEN ty ELSE Merge(events[table[p]].ty, ty)
  <2>1. ty \in EventType
    BY DEF EventType
  <2>2. \A n \in Nat : n > 0 => n # 0
    OBVIOUS
  <2>3. table' \in [Path -> Nat]
    BY <2>1, AddStep DEF Indexed
  <2>4. QED BY <2>1, <2>2, <2>3, AddStep DEF Indexed
<1>2. \A q \in Path : table[q] = 0 \/ (table[q] > 0 /\ table[q] # 0)
  BY DEF Indexed, TypeOK
<1>3. events'[table'[p]].ty = Net(had, now)
  <2>1. CASE table[p] = 0
    <3>1. had <=> has
      BY <2>1 DEF Exact
    <3>2. ty = Net(had, now)
      <4>1. had \in BOOLEAN /\ has \in BOOLEAN /\ now \in BOOLEAN /\ had = has
        BY <3>1 DEF IsFile
      <4>2. QED BY <4>1, MergeNet
    <3>3. QED BY <1>1, <2>1, <3>2
  <2>2. CASE table[p] # 0
    <3>1. events[table[p]].ty = Net(had, has)
      BY <2>2 DEF Exact
    <3>2. Merge(Net(had, has), ty) = Net(had, now)
      <4>1. had \in BOOLEAN /\ has \in BOOLEAN /\ now \in BOOLEAN
        BY DEF IsFile
      <4>2. QED BY <4>1, MergeNet
    <3>3. QED BY <1>1, <2>2, <3>1, <3>2
  <2>3. QED BY <2>1, <2>2
<1>4. ASSUME NEW q \in Path \ {p}
      PROVE  IF table'[q] = 0
               THEN q \in consumer' <=> IsFile(meta'[q])
               ELSE events'[table'[q]].ty = Net(q \in consumer', IsFile(meta'[q]))
  <2>1. table'[q] = table[q] /\ meta'[q] = meta[q]
    BY <1>1
  <2>2. CASE table[q] = 0
    BY <2>1, <2>2 DEF Exact
  <2>3. CASE table[q] # 0
    <3>1. events'[table'[q]].ty = events[table[q]].ty
      BY <1>1, <1>2, <2>3
    <3>2. QED BY <2>1, <2>3, <3>1 DEF Exact
  <2>4. QED BY <2>2, <2>3
<1>5. QED
  BY <1>1, <1>3, <1>4 DEF Exact

\* One step of the debouncer keeps Exact, as long as crawls miss nothing.
LEMMA NextNet ==
  ASSUME crawls = FALSE, Indexed, Exact, [Next]_vars
  PROVE  Exact'
<1>1. ASSUME NEW p \in Path, NEW new \in NodeMeta, NEW skip \in BOOLEAN, Observe(p, new, skip)
      PROVE  Exact'
  <2> DEFINE ty == ChangeType(meta[p], new, skip)
  <2>1. /\ meta[p] \in NodeMeta /\ meta'[p] = new /\ consumer' = consumer
        /\ \A q \in Path \ {p} : meta'[q] = meta[q]
    BY <1>1 DEF Observe, Indexed, TypeOK
  <2>2. CASE ty = NoEvent
    <3>1. IsFile(meta[p]) <=> IsFile(meta'[p])
      BY <2>1, <2>2, ChangeTypes
    <3>2. UNCHANGED <<table, events>>
      BY <1>1, <2>2 DEF Observe, debouncer
    <3>3. \A q \in Path : IsFile(meta[q]) <=> IsFile(meta'[q])
      BY <2>1, <3>1
    <3>4. \A q \in Path : Net(q \in consumer, IsFile(meta[q]))
                           = Net(q \in consumer, IsFile(meta'[q]))
      BY <3>3 DEF Net
    <3>5. QED BY <2>1, <3>2, <3>3, <3>4 DEF Exact
  <2>3. CASE ty # NoEvent
    <3>1. /\ ty \in {"Create", "Delete", "Modified"}
          /\ ty = "Create" <=> (~IsFile(meta[p]) /\ IsFile(meta'[p]))
          /\ ty = "Delete" <=> (IsFile(meta[p]) /\ ~IsFile(meta'[p]))
          /\ ty = "Modified" <=> (IsFile(meta[p]) /\ IsFile(meta'[p]))
      BY <2>1, <2>3, ChangeTypes
    <3>2. Add(p, ty)
      BY <1>1, <2>3 DEF Observe
    <3> HIDE DEF ty
    <3>3. QED BY <2>1, <3>1, <3>2, AddNet
  <2>4. QED BY <2>2, <2>3
<1>2. ASSUME NEW p \in Path, CrawlMissing(p)
      PROVE  Exact'
  BY <1>2 DEF CrawlMissing
<1>3. CASE Deliver
  <2>1. meta' = meta /\ consumer' = Believed /\ table' = [p \in Path |-> 0]
    BY <1>3 DEF Deliver, Take
  <2>2. ASSUME NEW q \in Path
        PROVE  q \in Believed <=> IsFile(meta[q])
    <3>1. CASE table[q] = 0
      BY <3>1 DEF Exact, Believed
    <3>2. CASE table[q] # 0
      <4>1. events[table[q]].ty = Net(q \in consumer, IsFile(meta[q]))
        BY <3>2 DEF Exact
      <4>2. Present(Net(q \in consumer, IsFile(meta[q]))) <=> IsFile(meta[q])
        BY DEF Present, Net
      <4>3. QED BY <3>2, <4>1, <4>2 DEF Believed
    <3>3. QED BY <3>1, <3>2
  <2>3. QED BY <2>1, <2>2 DEF Exact
<1>4. CASE UNCHANGED vars
  BY <1>4 DEF vars, debouncer, Exact
<1>5. QED BY <1>1, <1>2, <1>3, <1>4 DEF Next

\* The event held for a path is the net effect of everything observed since the
\* last batch (EventDebouncer::add against NodeMeta::change_type).
THEOREM NetEffects == Spec => []NetEffect
<1>1. Init => NetEffect
  BY DEF Init, NetEffect, Exact, Files
<1>2. ASSUME Indexed, NetEffect, [Next]_vars
      PROVE  NetEffect'
  <2>1. crawls' = crawls
    BY <1>2, NextKeepsCrawls
  <2>2. CASE crawls = FALSE
    BY <1>2, <2>1, <2>2, NextNet DEF NetEffect
  <2>3. CASE crawls
    BY <2>1, <2>3 DEF NetEffect
  <2>4. QED
    BY <1>2, <2>2, <2>3 DEF NetEffect, Indexed, TypeOK
<1>3. Spec => []Indexed
  BY TableIndexed DEF Indexed
<1>4. QED
  BY <1>1, <1>2, <1>3, PTL DEF Spec

------------------------------------------------------------------------------
(* Refinement *)

\* A step of a run whose crawls miss nothing is a step of NetChange, or none.
LEMMA RefinementStep ==
  ASSUME crawls = FALSE, crawls' = FALSE, Indexed, Exact, [Next]_vars
  PROVE  [NC!Next]_NC!ncVars
<1> DEFINE Touched == {p \in Path : table[p] > 0}
           Batch == {batch[i] : i \in 1 .. Len(batch)}
<1>s. /\ Seen(Files) = Files /\ Seen(Files)' = Files'
      /\ Seen(consumer) = consumer /\ Seen(consumer)' = consumer'
      /\ Seen(Touched) = Touched /\ Seen(Touched)' = Touched'
      /\ Seen(Batch) = Batch /\ Seen(Batch)' = Batch'
  BY DEF Seen
<1>0. \A q \in Path : table[q] \in Nat
  BY DEF Indexed, TypeOK
<1>1. ASSUME NEW p \in Path, NEW new \in NodeMeta, NEW skip \in BOOLEAN, Observe(p, new, skip)
      PROVE  NC!Change(p) \/ UNCHANGED NC!ncVars
  <2> DEFINE ty == ChangeType(meta[p], new, skip)
  <2>1. /\ meta[p] \in NodeMeta /\ meta'[p] = new
        /\ consumer' = consumer /\ batch' = batch
        /\ \A q \in Path \ {p} : meta'[q] = meta[q]
    BY <1>1 DEF Observe, Indexed, TypeOK
  <2>2. CASE ty = NoEvent
    <3>1. IsFile(meta[p]) <=> IsFile(meta'[p])
      BY <2>1, <2>2, ChangeTypes
    <3>2. table' = table
      BY <1>1, <2>2 DEF Observe, debouncer
    <3>3. Files' = Files
      BY <2>1, <3>1 DEF Files
    <3>4. Touched' = Touched /\ Batch' = Batch /\ consumer' = consumer
      BY <2>1, <3>2
    <3> HIDE DEF Touched, Batch
    <3>5. UNCHANGED <<Seen(Files), Seen(consumer), Seen(Touched), Seen(Batch)>>
      BY <1>s, <3>3, <3>4
    <3>6. QED BY <3>5 DEF NC!ncVars, Touched, Batch
  <2>3. CASE ty # NoEvent
    <3>1. /\ ty \in EventType
          /\ IsFile(meta[p]) \/ IsFile(meta'[p])
      BY <2>1, <2>3, ChangeTypes DEF EventType
    <3>2. Add(p, ty)
      BY <1>1, <2>3 DEF Observe
    <3> HIDE DEF ty
    <3>3. /\ table'[p] > 0
          /\ \A q \in Path \ {p} : table'[q] = table[q]
      BY <3>1, <3>2, AddStep DEF Indexed
    <3>4. Touched' = Touched \cup {p}
      BY <3>3
    <3>5. \/ Files' = Files \cup {p}
          \/ p \in Files /\ Files' = Files \ {p}
      BY <2>1, <3>1 DEF Files
    <3>6. consumer' = consumer /\ Batch' = Batch
      BY <2>1
    <3> HIDE DEF Touched, Batch
    <3>7. /\ \/ Seen(Files)' = Seen(Files) \cup {p}
             \/ p \in Seen(Files) /\ Seen(Files)' = Seen(Files) \ {p}
          /\ Seen(Touched)' = Seen(Touched) \cup {p}
          /\ UNCHANGED <<Seen(consumer), Seen(Batch)>>
      BY <1>s, <3>4, <3>5, <3>6
    <3>8. QED BY <3>7 DEF NC!Change, Touched, Batch
  <2>4. QED BY <2>2, <2>3
<1>2. ASSUME NEW p \in Path, CrawlMissing(p)
      PROVE  FALSE
  BY <1>2 DEF CrawlMissing
<1>3. CASE Deliver
  <2>1. /\ meta' = meta /\ consumer' = Believed /\ batch' = events
        /\ table' = [p \in Path |-> 0] /\ events # <<>>
    BY <1>3 DEF Deliver, Take
  <2>2. /\ events \in Seq(Event)
        /\ \A p \in Path : table[p] \in 0 .. Len(events)
        /\ \A p \in Path : table[p] > 0 => events[table[p]].path = p
        /\ \A i \in 1 .. Len(events) : table[events[i].path] = i
    BY DEF Indexed, TypeOK, TableIndexes
  <2>3. \A i \in 1 .. Len(events) : events[i] \in Event
    BY <2>2
  <2>4. \A e \in Event : e.path \in Path /\ e = [path |-> e.path, ty |-> e.ty]
    BY DEF Event
  <2>5. Touched # {}
    <3>1. 1 \in 1 .. Len(events)
      BY <2>1, <2>2
    <3>2. events[1].path \in Touched
      BY <2>2, <2>3, <2>4, <3>1
    <3>3. QED BY <3>2
  <2>6. ASSUME NEW p \in Touched
        PROVE  /\ table[p] \in 1 .. Len(events)
               /\ events[table[p]] = [path |-> p, ty |-> NC!Net(p \in consumer, p \in Files)]
    <3>1. table[p] \in 1 .. Len(events) /\ table[p] # 0 /\ events[table[p]].path = p
      BY <2>2
    <3>2. events[table[p]].ty = Net(p \in consumer, IsFile(meta[p]))
      BY <3>1 DEF Exact
    <3>3. Net(p \in consumer, IsFile(meta[p])) = NC!Net(p \in consumer, p \in Files)
      BY DEF Net, NC!Net, Files
    <3>4. QED BY <2>3, <2>4, <3>1, <3>2, <3>3
  <2>7. Batch' = {[path |-> p, ty |-> NC!Net(p \in consumer, p \in Files)] : p \in Touched}
    <3>1. Batch' = {events[i] : i \in 1 .. Len(events)}
      BY <2>1
    <3>2. ASSUME NEW i \in 1 .. Len(events)
          PROVE  \E p \in Touched : events[i] =
                    [path |-> p, ty |-> NC!Net(p \in consumer, p \in Files)]
      <4>1. events[i].path \in Touched /\ table[events[i].path] = i
        BY <2>2, <2>3, <2>4
      <4>2. QED BY <2>6, <4>1
    <3>3. ASSUME NEW p \in Touched
          PROVE  [path |-> p, ty |-> NC!Net(p \in consumer, p \in Files)]
                   \in {events[i] : i \in 1 .. Len(events)}
      BY <2>6
    <3> DEFINE E(p) == [path |-> p, ty |-> NC!Net(p \in consumer, p \in Files)]
    <3>4. /\ \A i \in 1 .. Len(events) : \E p \in Touched : events[i] = E(p)
          /\ \A p \in Touched : E(p) \in {events[i] : i \in 1 .. Len(events)}
      BY <3>2, <3>3
    <3> HIDE DEF E, Touched
    <3>5. {events[i] : i \in 1 .. Len(events)} = {E(p) : p \in Touched}
      BY <3>4
    <3>6. QED BY <3>1, <3>5 DEF E
  <2>8. Touched' = {}
    BY <2>1
  <2>9. Believed = Files
    <3>1. ASSUME NEW q \in Path
          PROVE  q \in Believed <=> q \in Files
      <4>1. CASE table[q] = 0
        BY <4>1 DEF Exact, Believed, Files
      <4>2. CASE table[q] # 0
        <5>1. events[table[q]].ty = Net(q \in consumer, IsFile(meta[q]))
          BY <4>2 DEF Exact
        <5>2. Present(Net(q \in consumer, IsFile(meta[q]))) <=> IsFile(meta[q])
          BY DEF Present, Net
        <5>3. QED BY <4>2, <5>1, <5>2 DEF Believed, Files
      <4>3. QED BY <4>1, <4>2
    <3>2. QED BY <3>1 DEF Believed, Files
  <2>10. Files' = Files
    BY <2>1 DEF Files
  <2>11. Seen(Touched) # {} /\ Seen(Touched)' = {}
    BY <1>s, <2>5, <2>8
  <2>12. Seen(Batch)' = {[path |-> p, ty |-> NC!Net(p \in Seen(consumer), p \in Seen(Files))]
                           : p \in Seen(Touched)}
    BY <1>s, <2>7
  <2>13. Seen(consumer)' = Seen(Files) /\ Seen(Files)' = Seen(Files)
    BY <1>s, <2>1, <2>9, <2>10
  <2>14. NC!Report
    BY <2>11, <2>12, <2>13, Zenon DEF NC!Report
  <2>15. QED BY <2>14 DEF NC!Next
<1>4. CASE UNCHANGED vars
  <2>1. Files' = Files /\ consumer' = consumer /\ Touched' = Touched /\ Batch' = Batch
    BY <1>4 DEF vars, debouncer, Files
  <2>2. QED BY <1>s, <2>1 DEF NC!ncVars
<1>5. QED BY <1>1, <1>2, <1>3, <1>4 DEF Next, NC!Next

\* Every batch handed to the handlers is a report of NetChange: one event per
\* touched file, the net effect since the batch before.
THEOREM Refinement == Spec => ImplementsNetChange
<1>1. Init => NC!Init
  BY DEF Init, NC!Init, Files, Seen
<1>2. ASSUME Indexed, NetEffect, [Next]_vars
      PROVE  [NC!Next]_NC!ncVars
  <2>1. crawls' = crawls
    BY <1>2, NextKeepsCrawls
  <2>2. CASE crawls = FALSE
    BY <1>2, <2>1, <2>2, RefinementStep DEF NetEffect
  <2>3. CASE crawls = TRUE
    BY <2>1, <2>3 DEF Seen, NC!ncVars
  <2>4. QED
    BY <1>2, <2>2, <2>3 DEF Indexed, TypeOK
<1>3. Spec => []Indexed /\ []NetEffect
  BY TableIndexed, NetEffects DEF Indexed
<1>4. QED
  BY <1>1, <1>2, <1>3, PTL DEF Spec, ImplementsNetChange, NC!Spec
==============================================================================
