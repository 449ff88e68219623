---- MODULE Samplers ----
(***************************************************************************)
(* The two samplers of sampler.go, at one level: each level has a counter, *)
(* or a bucket, of its own.  A logger has one sampler, so each behaviour   *)
(* is of one kind, asked by many goroutines at once.                       *)
(*                                                                         *)
(* X_Fault, just before X, is X with a plausible bug in it.                *)
(***************************************************************************)
EXTENDS Integers, Sequences, FiniteSets

CONSTANTS Goroutines,
          N,         \* n of the EveryNSampler, after the <= 0 default
          MaxCalls,  \* bound on the calls of EveryNSampler.Sample
          PerSecond, \* perSecond of the RateSampler, after the <= 0 default
          Second,    \* clock ticks in a second
          MaxCount,  \* bound on the calls in one window
          MaxTime    \* bound on the clock

(* What the constants have to be.                                          *)
SamplerAssumption == {N, PerSecond, Second} \subseteq Nat \ {0} /\ MaxTime \in Nat

VARIABLES
  kind,      \* which sampler the logger has
  counts,    \* counts[level]
  mine,      \* what Add has returned to each goroutine in Sample, else 0
  passed,    \* history: the calls answered true, by what Add returned to them
  now,
  count,     \* count and resetAt of the bucket
  resetAt,
  allowed    \* history: the times at which entries passed, in order

everyVars == <<counts, mine, passed>>
rateVars == <<now, count, resetAt, allowed>>
vars == <<kind, everyVars, rateVars>>

(* resetAt starts as the zero time, long before the clock. *)
Init == /\ kind \in {"everyN", "rate"}
        /\ counts = 0 /\ mine = [g \in Goroutines |-> 0] /\ passed = {}
        /\ now = 1 /\ count = 0 /\ resetAt = 0
        /\ allowed = <<>>

----
(* EveryNSampler.Sample adds one and decides on the sum it got, not on the *)
(* counter, which others may have moved on by then.                        *)
Add(g) == /\ mine[g] = 0 /\ counts < MaxCalls
          /\ counts' = counts + 1
          /\ mine' = [mine EXCEPT ![g] = counts + 1]
          /\ UNCHANGED passed

Picked_Reread(g) == (counts - 1) % N = 0
Picked(g) == (mine[g] - 1) % N = 0

Verdict(g) == /\ mine[g] # 0
              /\ mine' = [mine EXCEPT ![g] = 0]
              /\ passed' = IF Picked(g) THEN passed \union {mine[g]} ELSE passed
              /\ UNCHANGED counts

----
(* RateSampler.Sample holds the mutex of the bucket from the reading of    *)
(* the clock to the verdict, and is one step.                              *)
After(t) == now > t

WindowEnd == now + Second

InBudget_Off(n) == n <= PerSecond + 1
InBudget(n) == n <= PerSecond

Sample ==
  LET used == IF After(resetAt) THEN 1 ELSE count + 1 IN
    /\ used <= MaxCount
    /\ count' = used
    /\ resetAt' = IF After(resetAt) THEN WindowEnd ELSE resetAt
    /\ allowed' = IF InBudget(used) THEN Append(allowed, now) ELSE allowed
    /\ UNCHANGED now

Tick == now < MaxTime /\ now' = now + 1 /\ UNCHANGED <<count, resetAt, allowed>>

----
Next == \/ /\ kind = "everyN"
           /\ \E g \in Goroutines : Add(g) \/ Verdict(g)
           /\ UNCHANGED <<kind, rateVars>>
        \/ /\ kind = "rate"
           /\ Sample \/ Tick
           /\ UNCHANGED <<kind, everyVars>>

Spec == Init /\ [][Next]_vars

----
TypeOK == /\ kind \in {"everyN", "rate"}
          /\ counts \in 0 .. MaxCalls /\ mine \in [Goroutines -> 0 .. counts]
          /\ passed \subseteq 1 .. counts
          /\ now \in 1 .. MaxTime /\ count \in 0 .. MaxCount
          /\ resetAt \in 0 .. now + Second
          /\ allowed \in Seq(1 .. now)

(* Of every N calls in the order of the counter exactly one passes, the    *)
(* first of them, whatever the interleaving: with nobody in Sample, the    *)
(* calls let through are one in N, rounded up; and always, any two of them *)
(* are at least N apart.                                                   *)
OneInN == /\ (\A g \in Goroutines : mine[g] = 0) =>
               Cardinality(passed) = (counts + N - 1) \div N
          /\ \A i, j \in passed : i < j => j - i >= N

Passed(from, to) == Cardinality({i \in DOMAIN allowed : allowed[i] \in from .. to})

(* A window lets through its budget and turns away only what exceeds it.   *)
WindowExact ==
  count > 0 => Passed(resetAt - Second, now) = IF count < PerSecond THEN count ELSE PerSecond
====
