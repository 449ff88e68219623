---- MODULE MCLogger ----
(* Small instances of Logger. *)
EXTENDS Logger, TLC

(* Goroutines, helpers and entries are interchangeable in safety runs. *)
Symmetry == Permutations(Goroutines) \union Permutations(Helpers)
              \union Permutations(Entries)
====
