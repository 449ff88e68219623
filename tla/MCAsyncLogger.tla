---- MODULE MCAsyncLogger ----
(* Small instances of AsyncLogger. *)
EXTENDS AsyncLogger

INFO == 2

(* Goroutines and entries are interchangeable in safety runs. *)
Symmetry == Permutations(Goroutines) \union Permutations(Entries)

(* Two applications, known by the level that they set and keep.  One only  *)
(* logs: nobody calls Sync, Close or Fatal.  In the other one goroutine    *)
(* logs FATAL entries, two at most, while the other calls Sync, once, and  *)
(* the writer is closed behind their backs.                                *)
LogsOnly == /\ \A g \in Goroutines :
                 pc'[g] # "close" /\ lvl'[g] # FATAL /\ api'[g] = "log"
            /\ \A c \in Closers : wpc'[c] = "idle"

Fails == CHOOSE g \in Goroutines : TRUE
ShutsDown == /\ Cardinality(logged') <= 2
             /\ pc'[Fails] # "close" /\ lvl'[Fails] # INFO
             /\ \A g \in Goroutines \ {Fails} :
                  /\ cur'[g] = NoEntry
                  /\ pc[g] = "idle" /\ pc'[g] = "close" => ~closed

Application == /\ minLevel' = minLevel
               /\ IF minLevel = ERROR THEN ShutsDown ELSE LogsOnly

ApplicationSpec == AllInit /\ [][AllNext /\ Application]_allVars /\ AllFairness
====
