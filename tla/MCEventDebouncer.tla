-------------------------- MODULE MCEventDebouncer ---------------------------
(* EventDebouncer over three files, with and without crawls that miss one. *)
EXTENDS EventDebouncer, TLC

\* Paths are only compared.
Symmetry == Permutations(Path)
==============================================================================
