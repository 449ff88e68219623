---- MODULE Sinks ----
(***************************************************************************)
(* A logger over a FanOutWriter whose writers are FilteredWriters, as the  *)
(* README composes them: writer_fanout.go, writer_filtered.go and the      *)
(* logger's treatment of their errors (logger.go).  The logger's mutex     *)
(* makes writes and syncs take turns, so one at a time is under way here,  *)
(* but each underlying writer is a step of it and may fail.                *)
(*                                                                         *)
(* X_Fault, just before X, is X with a plausible bug in it.                *)
(***************************************************************************)
EXTENDS Integers, Sequences, SequencesExt

CONSTANTS Entries,    \* the encoded entries written, each once
          Level,      \* the level each one was logged at
          Shape,      \* "flat" JSON, JSON with a "nested" level, or "text"
          Nested,     \* the level in the nested map of a "nested" entry
          Sinks,      \* the writers, numbered 1 .. Len(MinLevel)
          MinLevel,   \* the filter of each, TRACE for one without
          CanSync     \* whether each implements Syncer

INFO == 2
TRACE == 0
FATAL == 5

ASSUME SinkAssumption == /\ Level \in [Entries -> TRACE .. FATAL]
                         /\ Shape \in [Entries -> {"flat", "nested", "text"}]
                         /\ Nested \in [Entries -> TRACE .. FATAL]
                         /\ Sinks = 1 .. Len(MinLevel)
                         /\ MinLevel \in Seq(TRACE .. FATAL)
                         /\ CanSync \in [Sinks -> BOOLEAN]

VARIABLES
  op,       \* "idle", "write", "rescue" or "sync"
  cur,      \* the entry being written
  at,       \* the sink whose turn it is
  errs,     \* errors collected by the sync under way
  result,   \* what the last Sync of the logger returned
  sink,     \* what each sink has accepted, in order
  refused,  \* the entries each sink has answered with an error
  fallback, \* what the fallback writer was given
  writeErrors,
  written,  \* entries given to the fan-out, in order
  clean,    \* the sinks synced since the last write
  syncErrs  \* history: all that the sinks answered to the last sync

vars == <<op, cur, at, errs, result, sink, refused, fallback, writeErrors,
          written, clean, syncErrs>>

Init == /\ op = "idle" /\ cur = <<>> /\ at = 1 /\ errs = {} /\ result = "none"
        /\ sink = [s \in Sinks |-> <<>>] /\ refused = [s \in Sinks |-> {}]
        /\ fallback = <<>> /\ writeErrors = 0
        /\ written = <<>> /\ clean = {} /\ syncErrs = {}

----
(* extractLevel takes the first "level":" in the bytes, which is that of a *)
(* nested map when its field sorts before "level"; INFO when there is none.*)
ExtractLevel(e) == IF Shape[e] = "flat" THEN Level[e]
                   ELSE IF Shape[e] = "nested" THEN Nested[e] ELSE INFO

Passes_Above(s, e) == ExtractLevel(e) > MinLevel[s]
Passes(s, e) == ExtractLevel(e) >= MinLevel[s]

Write(e) ==
  /\ op = "idle" /\ e \notin Range(written)
  /\ op' = "write" /\ cur' = <<e>> /\ at' = 1
  /\ written' = Append(written, e)
  /\ clean' = {} /\ result' = "none"
  /\ UNCHANGED <<errs, sink, refused, fallback, writeErrors, syncErrs>>

(* A filter that drops an entry answers with success.                      *)
WriteSkip ==
  /\ op = "write" /\ at \in Sinks
  /\ ~Passes(at, cur[1])
  /\ at' = at + 1
  /\ UNCHANGED <<op, cur, errs, result, sink, refused, fallback, writeErrors,
                 written, clean, syncErrs>>

WriteAccept ==
  /\ op = "write" /\ at \in Sinks
  /\ Passes(at, cur[1])
  /\ sink' = [sink EXCEPT ![at] = Append(@, cur[1])]
  /\ at' = at + 1
  /\ UNCHANGED <<op, cur, errs, result, refused, fallback, writeErrors,
                 written, clean, syncErrs>>

(* The fan-out fails fast: later sinks are not tried.                      *)
AfterRefusal_Ignored == op' = op
AfterRefusal == op' = "rescue"

WriteRefuse ==
  /\ op = "write" /\ at \in Sinks
  /\ Passes(at, cur[1])
  /\ refused' = [refused EXCEPT ![at] = @ \union {cur[1]}]
  /\ AfterRefusal /\ at' = at + 1
  /\ UNCHANGED <<cur, errs, result, sink, fallback, writeErrors, written, clean, syncErrs>>

WriteDone ==
  /\ op = "write" /\ at \notin Sinks
  /\ op' = "idle" /\ cur' = <<>>
  /\ UNCHANGED <<at, errs, result, sink, refused, fallback, writeErrors,
                 written, clean, syncErrs>>

Rescue ==
  /\ op = "rescue"
  /\ writeErrors' = writeErrors + 1
  /\ fallback' = Append(fallback, cur[1])
  /\ op' = "idle" /\ cur' = <<>>
  /\ UNCHANGED <<at, errs, result, sink, refused, written, clean, syncErrs>>

----
Sync ==
  /\ op = "idle"
  /\ op' = "sync" /\ at' = 1 /\ errs' = {} /\ syncErrs' = {}
  /\ UNCHANGED <<cur, result, sink, refused, fallback, writeErrors, written, clean>>

(* Every sink is synced, whatever the ones before it answered.             *)
AfterSyncError_FailFast == Len(MinLevel) + 1
AfterSyncError == at + 1

SyncSink(r) ==
  /\ op = "sync" /\ at \in Sinks
  /\ r = "nil" \/ CanSync[at]
  /\ errs' = errs \union ({r} \ {"nil"})
  /\ syncErrs' = syncErrs \union {r}
  /\ clean' = IF CanSync[at] THEN clean \union {at} ELSE clean
  /\ at' = IF r = "nil" THEN at + 1 ELSE AfterSyncError
  /\ UNCHANGED <<op, cur, result, sink, refused, fallback, writeErrors, written>>

(* The joined error is benign if its text contains a benign one's.         *)
SyncDone ==
  /\ op = "sync" /\ at \notin Sinks
  /\ result' = IF errs = {} \/ "benign" \in errs THEN "nil" ELSE "err"
  /\ op' = "idle" /\ errs' = {}
  /\ UNCHANGED <<cur, at, sink, refused, fallback, writeErrors, written, clean, syncErrs>>

Next == \/ \E e \in Entries : Write(e)
        \/ WriteSkip \/ WriteAccept \/ WriteRefuse \/ WriteDone \/ Rescue
        \/ Sync
        \/ \E r \in {"nil", "benign", "real"} : SyncSink(r)
        \/ SyncDone

Spec == Init /\ [][Next]_vars

----
TypeOK ==
  /\ op \in {"idle", "write", "rescue", "sync"}
  /\ cur \in IF op \in {"idle", "sync"} THEN {<<>>} ELSE {<<e>> : e \in Entries}
  /\ at \in 1 .. Len(MinLevel) + 1
  /\ errs \subseteq {"benign", "real"} /\ syncErrs \subseteq {"nil", "benign", "real"}
  /\ result \in {"none", "nil", "err"}
  /\ sink \in [Sinks -> Seq(Entries)] /\ refused \in [Sinks -> SUBSET Entries]
  /\ fallback \in Seq(Entries) /\ written \in Seq(Entries)
  /\ writeErrors \in Nat
  /\ clean \subseteq Sinks

Finished(e) == e \in Range(written) /\ cur # <<e>>

(* A sink should have what was logged at its level or above, and a sink    *)
(* without a filter everything.  What a filter makes of text and of nested *)
(* levels is TextPassedThrough's and OnlyAtOrAbove's business.             *)
Wanted(s, e) == Level[e] >= MinLevel[s] /\ (Shape[e] = "flat" \/ MinLevel[s] = TRACE)

(* No sink that should have an entry lacks it unless the fallback has it,  *)
(* although a failing sink hides the entry from every sink behind it.      *)
NoSilentLoss ==
  \A e \in Entries, s \in Sinks :
    Finished(e) /\ Wanted(s, e) => e \in Range(sink[s]) \union Range(fallback)

(* The fallback gets exactly the entries some sink refused, and each is    *)
(* counted once.                                                           *)
RescuedOnce ==
  /\ writeErrors = Len(fallback)
  /\ Range(fallback) \union (IF op = "rescue" THEN {cur[1]} ELSE {})
       = UNION {refused[s] : s \in Sinks}
  /\ \A s, t \in Sinks : s # t => refused[s] \intersect refused[t] = {}

(* When Sync returns, every sink that can be synced has been since the     *)
(* last write, even if others failed to.                                   *)
AllSynced == result # "none" => {s \in Sinks : CanSync[s]} \subseteq clean

----
(* "Errors from all writers are collected and joined", and "known harmless *)
(* errors" alone are hidden: a Sync that met a real error says so.         *)
RealErrorsReported == result = "nil" => "real" \notin syncErrs

(* "only passes through log entries whose level is at or above the         *)
(* configured minimum".                                                    *)
OnlyAtOrAbove == \A s \in Sinks : \A e \in Range(sink[s]) :
                   Shape[e] # "text" => Level[e] >= MinLevel[s]

(* "Non-JSON or unparseable entries are passed through unchanged."         *)
TextPassedThrough ==
  \A e \in Entries, s \in Sinks :
    Finished(e) /\ Shape[e] = "text" => e \in Range(sink[s]) \union Range(fallback)

(* The three sentences above are the docs' about writers made of writers.  *)
(* That at least one of them holds at every moment is less than they say;  *)
(* a state that refutes it shows that the code keeps none.                 *)
SinksAsDocumented == RealErrorsReported \/ OnlyAtOrAbove \/ TextPassedThrough
====
