----------------------------- MODULE MCWorkerLoop ----------------------------
(* WorkerLoop with a few paths and one or two calls of each kind. *)
EXTENDS WorkerLoop, TLC

SceneOf(b, calls, n) == [backend |-> b, calls |-> calls, arrivals |-> n]

\* Every backend, every kind of call.
AllScenes == {SceneOf("inotify", RootCall \cup HandlerCall, 2),
              SceneOf("fsevent", FilterCall \cup HandlerCall \cup ShutdownCall, 3),
              SceneOf("windows", FilterCall \cup ShutdownCall, 2)}

\* Everything that is there, with inotify.
InotifyScenes == {SceneOf("inotify", Call, 2)}

\* Paths are only compared, and so are calls of the same kind.
Symmetry == Permutations(Change) \cup Permutations(RootCall)
==============================================================================
