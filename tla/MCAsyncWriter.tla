---- MODULE MCAsyncWriter ----
(* Small instances of AsyncWriter. *)
EXTENDS AsyncWriter, TLC

(* Callers and messages are interchangeable. *)
Symmetry == Permutations(Callers) \union Permutations(Messages)
====
