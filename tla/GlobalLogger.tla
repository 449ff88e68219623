---- MODULE GlobalLogger ----
(***************************************************************************)
(* The default logger of global.go, which is kept in two places: this      *)
(* package's atomic pointer and the default of log/slog.  Each is replaced *)
(* atomically, the two one after the other.                                *)
(***************************************************************************)
EXTENDS Naturals, FiniteSets

CONSTANTS Goroutines,
          Loggers,   \* the loggers made default, each by one call
          None       \* no logger: a nil pointer, or slog's own default

GlobalAssumption == None \notin Loggers

VARIABLES
  default,   \* defaultLogger
  slogDflt,  \* the logger behind slog.Default()
  pc,        \* "idle", or "slog" between the two
  arg, prev, \* the logger each call installs, and the one it took out
  used,      \* history: loggers installed or about to be
  returned,  \* history: how often each was handed back by ReplaceDefault
  covered    \* history: those SetDefault has overwritten

vars == <<default, slogDflt, pc, arg, prev, used, returned, covered>>

Init == /\ default = None /\ slogDflt = None
        /\ pc = [g \in Goroutines |-> "idle"]
        /\ arg = [g \in Goroutines |-> None] /\ prev = [g \in Goroutines |-> None]
        /\ used = {} /\ returned = [l \in Loggers |-> 0] /\ covered = {}

Install(g, l) ==
  /\ pc[g] = "idle" /\ l \notin used
  /\ used' = used \union {l}
  /\ default' = l
  /\ arg' = [arg EXCEPT ![g] = l]
  /\ pc' = [pc EXCEPT ![g] = "slog"]

(* SetDefault stores and forgets; ReplaceDefault swaps, and returns what it *)
(* took out once slog has been told.                                       *)
SetDefault(g, l) ==
  /\ Install(g, l)
  /\ prev' = [prev EXCEPT ![g] = None]
  /\ covered' = covered \union ({default} \ {None})
  /\ UNCHANGED <<slogDflt, returned>>

Taken_Slog == slogDflt
Taken == default

ReplaceDefault(g, l) ==
  /\ Install(g, l)
  /\ prev' = [prev EXCEPT ![g] = Taken]
  /\ UNCHANGED <<slogDflt, returned, covered>>

SlogSetDefault(g) ==
  /\ pc[g] = "slog"
  /\ slogDflt' = arg[g]
  /\ returned' = IF prev[g] = None THEN returned
                 ELSE [returned EXCEPT ![prev[g]] = @ + 1]
  /\ pc' = [pc EXCEPT ![g] = "idle"]
  /\ UNCHANGED <<default, arg, prev, used, covered>>

Next == \E g \in Goroutines :
          \/ \E l \in Loggers : SetDefault(g, l) \/ ReplaceDefault(g, l)
          \/ SlogSetDefault(g)

Spec == Init /\ [][Next]_vars

----
(* Every logger that has been the default and is no more was handed back   *)
(* by ReplaceDefault to exactly one caller, who may close it, or was       *)
(* overwritten by SetDefault; the one in place was handed to nobody.       *)
HandedBackOnce ==
  \A l \in used :
    LET coming == Cardinality({g \in Goroutines : pc[g] = "slog" /\ prev[g] = l})
    IN returned[l] + coming = IF l = default \/ l \in covered THEN 0 ELSE 1

====
