------------------------------ MODULE FileEvents -----------------------------
(***************************************************************************)
(* What a tree node knows of its path (NodeMeta, tree.rs), when a change   *)
(* of that is an event, and how two events of one path merge into one      *)
(* (EventDebouncer::add, events.rs). Operators only. Definitions named     *)
(* X_bug are wrong on purpose: X with a plausible mistake.                 *)
(***************************************************************************)

\* A file is known by its modification time and size, together its stamp.
File(s) == [kind |-> "File", stamp |-> s]
Dir     == [kind |-> "Dir"]
Deleted == [kind |-> "Deleted"]

IsFile(m) == m.kind = "File"
IsDir(m)  == m.kind = "Dir"

EventType == {"Create", "Delete", "Modified", "Tempfile"}
NoEvent == "None"

\* Only what involves a file is an event; skip_check takes a file for modified
\* even when neither its mtime nor its size changed.
ChangeType(old, new, skip_check) ==
  CASE IsFile(old) /\ IsFile(new) ->
         IF ~skip_check /\ old = new THEN NoEvent ELSE "Modified"
    [] ~IsFile(old) /\ IsFile(new) -> "Create"
    [] IsFile(old) /\ ~IsFile(new) -> "Delete"
    [] ~IsFile(old) /\ ~IsFile(new) -> NoEvent

Merge_bug_final(old, new) ==      \* a Tempfile is never created again
  CASE old = "Create"   /\ new = "Delete" -> "Tempfile"
    [] old # "Create"   /\ new = "Delete" -> "Delete"
    [] old = "Delete"   /\ new = "Create" -> "Modified"
    [] OTHER -> old

Merge_bug_first(old, new) ==      \* a Delete does not replace a Modified
  IF old = "Modified" THEN old ELSE Merge_bug_final(old, new)

Merge_bug_cancel(old, new) ==     \* a file created and deleted was never there
  IF old = "Create" /\ new = "Delete" THEN NoEvent ELSE Merge_bug_final(old, new)

Merge_bug_gone(old, new) ==       \* a deleted file stays deleted
  IF old = "Delete" THEN old ELSE Merge_bug_final(old, new)

\* The type of an event already held for a path once another one arrives.
Merge(old, new) ==
  CASE old = "Create"   /\ new = "Delete" -> "Tempfile"
    [] old # "Create"   /\ new = "Delete" -> "Delete"
    [] old = "Delete"   /\ new = "Create" -> "Modified"
    [] old = "Tempfile" /\ new = "Create" -> "Create"
    [] OTHER -> old

\* Is the file there for a consumer that was told `ty`? (A Tempfile is gone.)
Present(ty) == ty \in {"Create", "Modified"}

\* The event that leads a consumer from `had` (it knew the file) to `has`.
Net(had, has) ==
  IF has THEN (IF had THEN "Modified" ELSE "Create")
         ELSE (IF had THEN "Delete" ELSE "Tempfile")
==============================================================================
