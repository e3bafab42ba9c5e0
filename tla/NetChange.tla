------------------------------ MODULE NetChange ------------------------------
(***************************************************************************)
(* What the watcher promises about files, with no tree, no table and no    *)
(* queue: between two reports any number of files may appear, change and   *)
(* disappear; a report then carries exactly one event for every file that  *)
(* was touched, and that event is the net effect of everything that        *)
(* happened to the file since the previous report.                         *)
(***************************************************************************)
EXTENDS FileEvents

CONSTANT Path             \* the file names a consumer may be told about

VARIABLES exists,         \* the files there are
          reported,       \* the files the consumer believes in
          touched,        \* the files something happened to since the last report
          batch           \* the last report: a set of events

ncVars == <<exists, reported, touched, batch>>

Init == /\ exists \in SUBSET Path
        /\ reported = exists
        /\ touched = {}
        /\ batch = {}

\* A file appears, changes, or disappears.
Change(p) == /\ \/ exists' = exists \cup {p}
                \/ p \in exists /\ exists' = exists \ {p}
             /\ touched' = touched \cup {p}
             /\ UNCHANGED <<reported, batch>>

Report == /\ touched # {}
          /\ batch' = {[path |-> p, ty |-> Net(p \in reported, p \in exists)] : p \in touched}
          /\ reported' = exists
          /\ touched' = {}
          /\ UNCHANGED exists

Next == \/ \E p \in Path : Change(p)
        \/ Report

Spec == Init /\ [][Next]_ncVars
==============================================================================
