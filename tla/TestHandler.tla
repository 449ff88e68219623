---- MODULE TestHandler ----
(***************************************************************************)
(* The TestHandler of logtest/logtest.go: loggers write records to it from *)
(* many goroutines while a test takes snapshots of them and resets it      *)
(* between its phases.  Slices are what matters: Reset keeps the array the *)
(* records are in, so the next Write overwrites it in place.               *)
(*                                                                         *)
(* Each operation holds the handler's mutex throughout and is one step; an *)
(* assertion searches its snapshot after it has let go of the mutex.       *)
(***************************************************************************)
EXTENDS Naturals, Sequences, SequencesExt

CONSTANTS Lines,     \* the lines written, each once
          Parsed,    \* those that are JSON entries
          Levels,    \* of the entries that assertions look for
          LevelOf,   \* the level of each parsed line
          Snapshots, \* the snapshots the test takes
          MaxLen     \* bound on the length of an array

HandlerAssumption == MaxLen \in Nat

VARIABLES
  arrays,   \* the arrays made so far; each is a sequence of its slots
  home,     \* the array h.records is in
  len,      \* its length
  snap,     \* per snapshot, the array and length Records returned, or <<>>
  verdict,  \* per snapshot, the latest search in it, or <<>>
  (* history *)
  written,  \* what has been written, in order
  since,    \* Len(written) at the last Reset
  seen      \* per snapshot, what it read when it was taken

vars == <<arrays, home, len, snap, verdict, written, since, seen>>

Init == /\ arrays = <<(<<>>)>> /\ home = 1 /\ len = 0
        /\ snap = [s \in Snapshots |-> <<>>]
        /\ verdict = [s \in Snapshots |-> <<>>]
        /\ written = <<>> /\ since = 0
        /\ seen = [s \in Snapshots |-> <<>>]

Slice(a, n) == SubSeq(arrays[a], 1, n)

(* A line that is no JSON is kept as a record without a level.             *)
Record(p) == [line |-> p, level |-> IF p \in Parsed THEN LevelOf[p] ELSE ""]

(* append writes in place while there is a slot left, and moves to a new   *)
(* array, of any larger size, when there is none.                          *)
Write(p) ==
  /\ Record(p) \notin Range(written)
  /\ written' = Append(written, Record(p))
  /\ len' = len + 1
  /\ IF len < Len(arrays[home])
     THEN /\ arrays' = [arrays EXCEPT ![home][len + 1] = Record(p)]
          /\ UNCHANGED home
     ELSE \E spare \in 0 .. MaxLen - len - 1 :
            /\ arrays' = Append(arrays, Slice(home, len) \o [i \in 1 .. spare + 1 |-> Record(p)])
            /\ home' = Len(arrays) + 1
  /\ UNCHANGED <<snap, verdict, since, seen>>

(* Records copies into an array of its own. *)
Copied_Shared(s) == /\ snap' = [snap EXCEPT ![s] = <<home, len>>]
                    /\ UNCHANGED arrays
Copied(s) == /\ snap' = [snap EXCEPT ![s] = <<Len(arrays) + 1, len>>]
             /\ arrays' = Append(arrays, Slice(home, len))

TakeRecords(s) ==
  /\ snap[s] = <<>>
  /\ Copied(s)
  /\ seen' = [seen EXCEPT ![s] = Slice(home, len)]
  /\ UNCHANGED <<home, len, verdict, written, since>>

(* AssertLogged and AssertNotLogged look for a level in their snapshot;    *)
(* one fails where the other passes.                                       *)
AssertLogged(s, level) ==
  /\ snap[s] # <<>> /\ verdict[s] = <<>>
  /\ verdict' = [verdict EXCEPT ![s] =
       [level |-> level, found |-> \E i \in 1 .. snap[s][2] :
                                     arrays[snap[s][1]][i].level = level]]
  /\ UNCHANGED <<arrays, home, len, snap, written, since, seen>>

Emptied_Nothing == UNCHANGED len
Emptied == len' = 0

Reset ==
  /\ Emptied
  /\ since' = Len(written)
  /\ UNCHANGED <<arrays, home, snap, verdict, written, seen>>

Next == \/ \E p \in Lines : Write(p)
        \/ \E s \in Snapshots : TakeRecords(s) \/ \E level \in Levels : AssertLogged(s, level)
        \/ Reset

Spec == Init /\ [][Next]_vars

----
(* The handler holds what was written since the last Reset, in order: a    *)
(* test phase sees no record of an earlier one.                            *)
PhaseOnly == Slice(home, len) = SubSeq(written, since + 1, Len(written))

(* A snapshot keeps reading as it did when it was taken, whatever is       *)
(* written or reset after it; so an assertion is about what was there at   *)
(* one moment.                                                             *)
SnapshotStable ==
  \A s \in Snapshots :
    /\ snap[s] # <<>> => Slice(snap[s][1], snap[s][2]) = seen[s]
    /\ verdict[s] # <<>> =>
         verdict[s].found = \E r \in Range(seen[s]) : r.level = verdict[s].level
====
