---- MODULE EntriesProofs ----
(***************************************************************************)
(* What holds of field maps for any goroutines, maps, nesting and options: *)
(* logging and deriving leave the maps they are given as they were, but    *)
(* for redaction; an entry is made of the layers its call was given; and   *)
(* what is redacted stays so until it is encoded, whoever logs the same    *)
(* nested maps meanwhile.  At the end, the parts that MCEntries joins.     *)
(***************************************************************************)
EXTENDS MCEntries, SequenceTheorems, WellFoundedInduction, TLAPS

(* heap, pc, call and entry are functions, and logger is a sequence.       *)
ShapeInv == /\ heap = [a \in Addrs |-> heap[a]]
            /\ pc \in [Goroutines -> {"idle", "middleware", "format"}]
            /\ call = [g \in Goroutines |-> call[g]]
            /\ entry = [g \in Goroutines |-> entry[g]]
            /\ \E S : logger \in Seq(S)

(* Where there is no error to enrich, enrichErrors returns its argument.   *)
LEMMA NothingToEnrich ==
  ASSUME NEW m, m = [k \in DOMAIN m |-> m[k]], Errors(m) = {}, NEW e \in Enrichments(m)
  PROVE  e = m
<1>1. Wrappers(m) = {}
  BY DEF Wrappers
<1> DEFINE enriched == Errors(m) \union {x \o Key("_type") : x \in Errors(m)}
                         \union {x \o Key("_chain") : x \in Wrappers(m)}
           writers == [k \in enriched |->
             {Text("message", m[x]) : x \in {x \in Errors(m) : x = k}}
               \union {Text("type", m[x]) : x \in {x \in Errors(m) : x \o Key("_type") = k}}
               \union {Text("chain", m[x]) : x \in {x \in Wrappers(m) : x \o Key("_chain") = k}}]
<1>2. DOMAIN writers = {}
  BY <1>1
<1>3. PICK w \in AnyWriter(writers) : e = Overlay(m, w)
  BY Zenon DEF Enrichments
<1>4. DOMAIN w = {}
  <2> HIDE DEF writers
  <2> QED
    BY <1>2 DEF AnyWriter
<1>5. Overlay(m, w) = [k \in DOMAIN m |-> m[k]]
  BY <1>4 DEF Overlay
<1> QED
  BY <1>3, <1>5

(* An assembly writes to no map that outlives the call: where it does not  *)
(* copy, there is nothing to resolve or to enrich.                         *)
LEMMA AssemblyKeepsMaps ==
  ASSUME ShapeInv, NEW g \in Goroutines, NEW lev, NEW r, Assemble(g, lev, r)
  PROVE  heap' = heap /\ \E e : entry' = [entry EXCEPT ![g] = e]
<1> DEFINE whole == Content(r)
           resolved == [k \in DOMAIN whole |-> Resolved(whole[k])]
           target == IF resolved # whole \/ Errors(resolved) # {} THEN Copied(r) ELSE r
<1>1. PICK m \in Enrichments(resolved) :
        /\ heap' = IF target.at = Own THEN heap ELSE [heap EXCEPT ![target.at] = m]
        /\ \E placed \in Placements(m) :
             entry' = [entry EXCEPT ![g] =
                         Overlay([k \in CoreKeys(lev) |-> Core(k)], placed)]
  BY Zenon DEF Assemble
<1>2. CASE target.at = Own
  BY <1>1, <1>2, Zenon
<1>3. CASE target.at # Own
  <2>1. Copied(r).at = Own
    BY DEF Copied, Private
  <2>2. resolved = whole /\ Errors(resolved) = {} /\ target = r
    BY <1>3, <2>1
  <2>3. whole = [k \in DOMAIN whole |-> whole[k]]
    BY <2>2
  <2>4. m = whole
    BY <1>1, <2>2, <2>3, NothingToEnrich
  <2>5. whole = heap[r.at]
    BY <1>3, <2>2 DEF Content
  <2>6. heap' = [heap EXCEPT ![r.at] = heap[r.at]]
    BY <1>1, <1>3, <2>2, <2>4, <2>5
  <2>7. heap' = heap
    BY <2>6 DEF ShapeInv
  <2> QED
    BY <1>1, <2>7, Zenon
<1> QED
  BY <1>2, <1>3

(* Which maps redaction gets to depends on nothing but what each of them   *)
(* has nested under keys that are not listed; and redacting changes none   *)
(* of that.                                                                *)
LEMMA OpenOfRedacted == ASSUME NEW m PROVE Open(Redact(m)) = Open(m)
BY DEF Open, Nested, Redact

LEMMA ReachKept ==
  ASSUME \A a \in Groups : Open(heap'[a]) = Open(heap[a]),
         NEW CONSTANT m, NEW CONSTANT n, Open(m) = Open(n)
  PROVE  Reach(n)' = Reach(m)
<1>1. Reach(n)' = {a \in Groups : \A S \in SUBSET Groups :
                     (Open(n) \subseteq S /\ \A b \in S : Open(heap'[b]) \subseteq S) => a \in S}
  BY DEF Reach, Open, Nested
<1>2. ASSUME NEW S \in SUBSET Groups
      PROVE  (\A b \in S : Open(heap'[b]) \subseteq S) <=> \A b \in S : Open(heap[b]) \subseteq S
  OBVIOUS
<1> QED
  BY <1>1, <1>2 DEF Reach

(* Redaction leaves what it gets to redacted, and no step redacts less.    *)
Clean(m) == \A k \in Listed \intersect DOMAIN m : m[k] = Replacement

LEMMA RedactedIsClean == ASSUME NEW m PROVE Clean(Redact(m))
BY DEF Clean, Redact

(* Every step is one of these: a log call or what surrounds one, deriving  *)
(* a logger, redaction, or the callers' own changes.                       *)
Quiet == /\ UNCHANGED <<heap, logger>>
         /\ \E g \in Goroutines :
              /\ \E e : entry' = [entry EXCEPT ![g] = e]
              /\ \E c : call' = [call EXCEPT ![g] = c]
              /\ pc' = [pc EXCEPT ![g] = IF pc[g] = "idle" THEN "middleware" ELSE "idle"]
              /\ pc[g] # "middleware"
Deriving == /\ \E x : logger' = Append(logger, x)
            /\ \/ heap' = heap
               \/ /\ Len(logger) + 1 <= MaxLoggers
                  /\ \E m : heap' = [heap EXCEPT ![Len(logger) + 1] = m]
            /\ UNCHANGED <<pc, call, entry>>
Changing == /\ \A g \in Goroutines : pc[g] = "idle"
            /\ \E a, m : heap' = [heap EXCEPT ![a] = m]
            /\ UNCHANGED <<logger, pc, call, entry>>

LEMMA LogCallIsQuiet ==
  ASSUME ShapeInv, NEW g \in Goroutines, NEW l, NEW lev, NEW xs, NEW panics, NEW r,
         LogCall(g, l, lev, xs, panics, r)
  PROVE  Quiet
<1>1. Assemble(g, lev, Precedence(Shared(logger[l].fields), Extracted(xs, panics), r))
  BY Zenon DEF LogCall
<1>2. heap' = heap /\ \E e : entry' = [entry EXCEPT ![g] = e]
  BY <1>1, AssemblyKeepsMaps
<1>3. \E c : call' = [call EXCEPT ![g] = c]
  BY Zenon DEF LogCall
<1>4. logger' = logger /\ pc' = [pc EXCEPT ![g] = "middleware"] /\ pc[g] = "idle"
  BY Zenon DEF LogCall
<1> QED
  BY <1>2, <1>3, <1>4 DEF Quiet

LEMMA LogIsQuiet ==
  ASSUME ShapeInv, NEW g \in Goroutines, Log(g) \/ LogContext(g)
  PROVE  Quiet
BY LogCallIsQuiet, Zenon DEF Log, LogContext

LEMMA WriteIsQuiet == ASSUME NEW g \in Goroutines, Write(g) PROVE Quiet
BY DEF Write, Quiet

LEMMA Steps ==
  ASSUME ShapeInv, Next
  PROVE  Quiet \/ Deriving \/ Changing \/ \E g \in Goroutines : RunMiddleware(g)
<1>1. ASSUME NEW p, NEW a, NEW x, Derive(p, a, x) PROVE Deriving
  BY <1>1, Zenon DEF Derive, Deriving
<1>2. ASSUME NEW a, CallerChange(a) PROVE Changing
  BY <1>2, Zenon DEF CallerChange, Changing
<1> QED
  BY <1>1, <1>2, LogIsQuiet, WriteIsQuiet, Zenon DEF Next, With, WithContextExtractor

LEMMA ShapeInit == Init => ShapeInv
<1> SUFFICES ASSUME Init PROVE ShapeInv
  OBVIOUS
<1> DEFINE root == [fields |-> Nil, extractors |-> <<>>, given |-> <<>>]
<1>1. <<root>> \in Seq({root})
  OBVIOUS
<1>2. \E S : logger \in Seq(S)
  BY <1>1 DEF Init
<1> QED
  BY <1>2 DEF Init, ShapeInv

LEMMA ShapeStep == ShapeInv /\ [Next]_vars => ShapeInv'
<1> SUFFICES ASSUME ShapeInv, [Next]_vars PROVE ShapeInv'
  OBVIOUS
<1>1. CASE Quiet
  BY <1>1 DEF Quiet, ShapeInv
<1>2. CASE Deriving
  <2>1. PICK S, x : logger \in Seq(S) /\ logger' = Append(logger, x)
    BY <1>2 DEF Deriving, ShapeInv
  <2>2. logger' \in Seq(S \union {x})
    BY <2>1
  <2>3. heap' = [a \in Addrs |-> heap'[a]]
    BY <1>2 DEF Deriving, ShapeInv
  <2> QED
    BY <1>2, <2>2, <2>3 DEF Deriving, ShapeInv
<1>3. CASE Changing
  BY <1>3 DEF Changing, ShapeInv
<1>4. ASSUME NEW g \in Goroutines, RunMiddleware(g) PROVE ShapeInv'
  BY <1>4 DEF RunMiddleware, ShapeInv
<1>5. CASE UNCHANGED vars
  BY <1>5 DEF vars, ShapeInv
<1> QED
  BY <1>1, <1>2, <1>3, <1>4, <1>5, Steps

(* Log calls and With change no map they are given: only redaction does,   *)
(* in the maps nested in the entry it redacts (Logger.With, mergeFields,   *)
(* resolveLogValuers, enrichErrors, redactMap).                            *)
THEOREM GivenMapsKept == Spec => MapsKept
<1>1. ASSUME ShapeInv, Next, <<pc, logger>>' # <<pc, logger>>, NEW a \in Addrs
      PROVE  \/ heap'[a] = heap[a]
             \/ a = Len(logger') /\ logger' # logger
             \/ /\ \E g \in Goroutines : pc[g] = "middleware" /\ a \in Reach(entry[g])
                /\ heap'[a] = Redact(heap[a])
  <2>1. CASE Deriving
    <3>1. PICK S, x : logger \in Seq(S) /\ logger' = Append(logger, x)
      BY <1>1, <2>1 DEF Deriving, ShapeInv
    <3>2. Len(logger') = Len(logger) + 1 /\ logger' # logger
      <4>1. Len(logger') = Len(logger) + 1 /\ Len(logger) \in Nat
        BY <3>1
      <4> QED
        BY <4>1
    <3>3. a # Len(logger) + 1 => heap'[a] = heap[a]
      BY <1>1, <2>1 DEF Deriving, ShapeInv
    <3> QED
      BY <3>2, <3>3
  <2>2. ASSUME NEW g \in Goroutines, RunMiddleware(g)
        PROVE  heap'[a] = heap[a]
               \/ (pc[g] = "middleware" /\ a \in Reach(entry[g]) /\ heap'[a] = Redact(heap[a]))
    BY <1>1, <2>2 DEF RunMiddleware, RedactReach
  <2> QED
    BY <1>1, <2>1, <2>2, Steps DEF Quiet, Changing
<1>2. ShapeInv /\ [Next]_vars =>
        [<<pc, logger>>' # <<pc, logger>> =>
           \A a \in Addrs :
             \/ heap'[a] = heap[a]
             \/ a = Len(logger') /\ logger' # logger
             \/ /\ \E g \in Goroutines : pc[g] = "middleware" /\ a \in Reach(entry[g])
                /\ heap'[a] = Redact(heap[a])]_vars
  BY <1>1
<1> QED
  BY <1>2, ShapeInit, ShapeStep, PTL DEF Spec, MapsKept

----
(* The maps nested in entries change only while they are redacted: those   *)
(* that loggers make are others, and callers wait for their calls.         *)
GroupsKept == \A a \in Groups : heap'[a] = heap[a] \/ heap'[a] = Redact(heap[a])

LEMMA CleanStays ==
  ASSUME GroupsKept, NEW CONSTANT m, Clean(m), \A a \in Reach(m) : Clean(heap[a])
  PROVE  \A a \in Reach(m)' : Clean(heap'[a])
<1>1. \A a \in Groups : Open(heap'[a]) = Open(heap[a])
  BY OpenOfRedacted DEF GroupsKept
<1>2. Reach(m)' = Reach(m)
  BY <1>1, ReachKept
<1>3. Reach(m) \subseteq Groups
  BY DEF Reach
<1> QED
  BY <1>2, <1>3, RedactedIsClean DEF GroupsKept

CleanInv == \A g \in Goroutines : pc[g] = "format" =>
              Clean(entry[g]) /\ \A a \in Reach(entry[g]) : Clean(heap[a])

LEMMA CleanStep == ShapeInv /\ CleanInv /\ [Next]_vars => CleanInv'
<1> SUFFICES ASSUME ShapeInv, CleanInv, [Next]_vars, NEW g \in Goroutines, pc'[g] = "format"
             PROVE  Clean(entry[g])' /\ \A a \in Reach(entry[g])' : Clean(heap'[a])
  BY DEF CleanInv
<1>1. ASSUME NEW CONSTANT m, m = entry[g], entry'[g] = m, pc[g] = "format", GroupsKept
      PROVE  Clean(entry[g])' /\ \A a \in Reach(entry[g])' : Clean(heap'[a])
  <2>1. Clean(m) /\ \A a \in Reach(m) : Clean(heap[a])
    BY <1>1 DEF CleanInv
  <2>2. \A a \in Reach(m)' : Clean(heap'[a])
    BY <1>1, <2>1, CleanStays
  <2>3. Reach(entry[g])' = Reach(m)' /\ Clean(entry[g])' = Clean(m)
    BY <1>1 DEF Reach, Clean
  <2> QED
    BY <2>1, <2>2, <2>3
<1>2. CASE Quiet
  <2>1. pc[g] = "format" /\ entry'[g] = entry[g] /\ GroupsKept
    BY <1>2 DEF Quiet, ShapeInv, GroupsKept
  <2> QED
    BY <1>1, <2>1
<1>3. CASE Deriving
  <2>1. GroupsKept
    <3>1. PICK S : logger \in Seq(S)
      BY DEF ShapeInv
    <3>2. Len(logger) + 1 <= MaxLoggers => Len(logger) + 1 \notin Groups
      <4>1. Len(logger) \in Nat
        BY <3>1
      <4> QED
        BY <4>1, MapsAssumption
    <3> QED
      BY <1>3, <3>2 DEF Deriving, ShapeInv, GroupsKept, Addrs, Maps
  <2> QED
    BY <1>1, <1>3, <2>1 DEF Deriving
<1>4. CASE Changing
  BY <1>4 DEF Changing
<1>5. ASSUME NEW h \in Goroutines, RunMiddleware(h)
      PROVE  Clean(entry[g])' /\ \A a \in Reach(entry[g])' : Clean(heap'[a])
  <2>1. GroupsKept
    BY <1>5 DEF RunMiddleware, GroupsKept, Addrs, Maps
  <2>2. CASE h # g
    BY <1>1, <1>5, <2>1, <2>2 DEF RunMiddleware, ShapeInv
  <2>3. CASE h = g
    <3>1. PICK m : m = entry[g]
      OBVIOUS
    <3>2. entry'[g] = Redact(m)
      BY <1>5, <2>3, <3>1 DEF RunMiddleware, ShapeInv
    <3>3. Reach(Redact(m))' = Reach(m)
      <4>1. \A a \in Groups : Open(heap'[a]) = Open(heap[a])
        BY <2>1, OpenOfRedacted DEF GroupsKept
      <4> QED
        BY <4>1, OpenOfRedacted, ReachKept
    <3>4. Reach(entry[g])' = Reach(Redact(m))' /\ Clean(entry[g])' = Clean(Redact(m))
      BY <3>2 DEF Reach, Clean
    <3>5. \A a \in Reach(m) : heap'[a] = Redact(heap[a])
      BY <1>5, <2>3, <3>1 DEF RunMiddleware, RedactReach, Reach, Addrs, Maps
    <3> QED
      BY <3>3, <3>4, <3>5, RedactedIsClean
  <2> QED
    BY <2>2, <2>3
<1>6. CASE UNCHANGED vars
  <2>1. pc[g] = "format" /\ entry'[g] = entry[g] /\ GroupsKept
    BY <1>6 DEF vars, GroupsKept
  <2> QED
    BY <1>1, <2>1
<1> QED
  BY <1>2, <1>3, <1>4, <1>5, <1>6, Steps

(* No listed key is encoded with its value, at any depth, whoever logs or  *)
(* redacts the same nested maps at that time (redactMap).                  *)
THEOREM RedactionHolds == Spec => []ListedGone
<1>1. Init => CleanInv
  BY DEF Init, CleanInv
<1>2. CleanInv => ListedGone
  BY DEF CleanInv, Clean, ListedGone
<1> QED
  BY <1>1, <1>2, ShapeInit, ShapeStep, CleanStep, PTL DEF Spec

----
(* Induction over the naturals, in the form that has no operator for a     *)
(* parameter: what does not hold of all fails for a least one.             *)
LEMMA Least ==
  ASSUME NEW T, T \subseteq Nat, T # {}
  PROVE  \E x \in T : \A y \in T : x <= y
<1> DEFINE R == OpToRel(<, Nat)
<1>1. IsWellFoundedOn(R, Nat)
  BY NatLessThanWellFounded
<1>2. R = {ss \in Nat \X Nat : ss[1] < ss[2]}
  BY DEF OpToRel
<1> HIDE DEF R
<1>3. PICK x \in T : \A y \in T : ~ (<<y, x>> \in R)
  BY <1>1, WFMin
<1>4. ASSUME NEW y \in T PROVE x <= y
  <2>1. ~(y < x)
    BY <1>2, <1>3
  <2> QED
    BY <2>1
<1> QED
  BY <1>4

LEMMA MaxIs ==
  ASSUME NEW S, S \subseteq Nat, NEW m \in S, \A x \in S : x <= m
  PROVE  Max(S) = m
<1>1. \A x \in S : (\A y \in S : x >= y) => x = m
  OBVIOUS
<1>2. \A y \in S : m >= y
  OBVIOUS
<1> QED
  BY <1>1, <1>2 DEF Max

(* A set of naturals below a bound has a greatest.                         *)
LEMMA Greatest ==
  ASSUME NEW n \in Nat, NEW S, S \subseteq 1 .. n, S # {}
  PROVE  Max(S) \in S /\ \A x \in S : x <= Max(S)
<1> DEFINE T == {n - x : x \in S}
<1>1. PICK d \in T : \A e \in T : d <= e
  <2>1. T \subseteq Nat /\ T # {}
    OBVIOUS
  <2> HIDE DEF T
  <2> QED
    BY <2>1, Least
<1>2. PICK m \in S : d = n - m
  BY <1>1
<1>3. ASSUME NEW x \in S PROVE x <= m
  <2>1. d <= n - x
    BY <1>1
  <2> QED
    BY <1>2, <2>1
<1>4. S \subseteq Nat
  OBVIOUS
<1> QED
  BY <1>3, <1>4, MaxIs

----
(* Layers of maps put one above the other: m has under each key the value  *)
(* of the highest of the first n layers that has the key.                  *)
Top(layers, n, k, i) == /\ i \in 1 .. n /\ k \in DOMAIN layers[i]
                        /\ \A j \in 1 .. n : i < j => k \notin DOMAIN layers[j]

Stack(layers, n, m) == /\ DOMAIN m = UNION {DOMAIN layers[i] : i \in 1 .. n}
                       /\ \A i, k : Top(layers, n, k, i) => m[k] = layers[i][k]

(* L is n layers of A below p layers of B; c is a with b above it.         *)
Joined(L, A, n, B, p) == /\ \A i \in 1 .. n : L[i] = A[i]
                         /\ \A i \in 1 .. p : L[n + i] = B[i]
Covered(c, a, b) == /\ DOMAIN c = DOMAIN a \union DOMAIN b
                    /\ \A k \in DOMAIN c : c[k] = IF k \in DOMAIN b THEN b[k] ELSE a[k]

LEMMA StackedOn ==
  ASSUME NEW A, NEW n \in Nat, NEW a, Stack(A, n, a),
         NEW B, NEW p \in Nat, NEW b, Stack(B, p, b),
         NEW L, Joined(L, A, n, B, p), NEW c, Covered(c, a, b), NEW q, q = n + p
  PROVE  Stack(L, q, c)
<1> USE DEF Joined, Covered
<1>1. \A i \in 1 .. n + p : \/ i \in 1 .. n
                            \/ i - n \in 1 .. p /\ i = n + (i - n)
  OBVIOUS
<1>2. \A i \in 1 .. n : i \in 1 .. n + p /\ \A j \in 1 .. p : n + j \in 1 .. n + p /\ i < n + j
  OBVIOUS
<1>3. \A j \in 1 .. p : n + j \in 1 .. n + p
  OBVIOUS
<1>4. DOMAIN c = UNION {DOMAIN L[i] : i \in 1 .. n + p}
  <2>1. ASSUME NEW k \in DOMAIN c PROVE \E i \in 1 .. n + p : k \in DOMAIN L[i]
    <3>1. CASE k \in DOMAIN a
      BY <1>2, <3>1 DEF Stack
    <3>2. CASE k \in DOMAIN b
      BY <1>3, <3>2 DEF Stack
    <3> QED
      BY <3>1, <3>2
  <2>2. ASSUME NEW i \in 1 .. n + p, NEW k \in DOMAIN L[i] PROVE k \in DOMAIN c
    <3>1. CASE i \in 1 .. n
      BY <2>2, <3>1 DEF Stack
    <3>2. CASE i - n \in 1 .. p /\ i = n + (i - n)
      <4>1. PICK j \in 1 .. p : i = n + j
        BY <3>2
      <4>2. k \in DOMAIN B[j]
        BY <2>2, <4>1
      <4> QED
        BY <4>2 DEF Stack
    <3> QED
      BY <1>1, <3>1, <3>2
  <2> QED
    BY <2>1, <2>2
<1>5. ASSUME NEW i, NEW k, Top(L, n + p, k, i) PROVE c[k] = L[i][k]
  <2>1. i \in 1 .. n + p /\ k \in DOMAIN L[i] /\ k \in DOMAIN c
        /\ \A j \in 1 .. n + p : i < j => k \notin DOMAIN L[j]
    BY <1>4, <1>5 DEF Top
  <2>2. CASE i \in 1 .. n
    <3>1. \A j \in 1 .. p : k \notin DOMAIN B[j]
      BY <1>2, <2>1, <2>2
    <3>2. k \notin DOMAIN b
      BY <3>1 DEF Stack
    <3>3. Top(A, n, k, i)
      BY <1>2, <2>1, <2>2 DEF Top
    <3> QED
      BY <2>1, <2>2, <3>2, <3>3 DEF Stack
  <2>3. CASE i \notin 1 .. n
    <3>1. PICK j \in 1 .. p : i = n + j
      BY <1>1, <2>1, <2>3
    <3>2. \A x \in 1 .. p : j < x => n + x \in 1 .. n + p /\ i < n + x
      BY <3>1
    <3>3. Top(B, p, k, j)
      BY <2>1, <3>1, <3>2 DEF Top
    <3>4. k \in DOMAIN b /\ b[k] = B[j][k]
      BY <3>3 DEF Stack, Top
    <3> QED
      BY <2>1, <3>1, <3>4
  <2> QED
    BY <2>2, <2>3
<1> HIDE DEF Joined, Covered
<1>6. Stack(L, n + p, c)
  BY <1>4, <1>5 DEF Stack
<1> QED
  BY <1>6

LEMMA StackOfOne ==
  ASSUME NEW L, NEW m, L[1] = m
  PROVE  Stack(L, 1, m)
BY DEF Stack, Top

LEMMA StackOfNone ==
  ASSUME NEW L, NEW m, DOMAIN m = {}
  PROVE  Stack(L, 0, m)
BY DEF Stack, Top

(* The value on top is that of the highest layer.                          *)
LEMMA StackTop ==
  ASSUME NEW L, NEW n \in Nat, NEW m, Stack(L, n, m), NEW k \in DOMAIN m
  PROVE  m[k] = L[Max({i \in 1 .. n : k \in DOMAIN L[i]})][k]
<1> DEFINE S == {i \in 1 .. n : k \in DOMAIN L[i]}
<1>1. S \subseteq 1 .. n /\ S # {}
  BY DEF Stack
<1>2. PICK i : i = Max(S) /\ i \in S /\ \A x \in S : x <= i
  <2> HIDE DEF S
  <2> QED
    BY <1>1, Greatest
<1>3. ASSUME NEW j \in 1 .. n, i < j, k \in DOMAIN L[j] PROVE FALSE
  <2>1. j <= i
    BY <1>2, <1>3
  <2> QED
    BY <1>2, <1>3, <2>1
<1>4. Top(L, n, k, i)
  BY <1>2, <1>3 DEF Top
<1> QED
  BY <1>2, <1>4 DEF Stack

(* mergeFields puts one map above another, although it gives back one of   *)
(* them when the other is empty.                                           *)
LEMMA Merging ==
  ASSUME NEW base, NEW over, NEW A, NEW n \in Nat, NEW B, NEW p \in Nat,
         Stack(A, n, Content(base)), Stack(B, p, Content(over)),
         NEW L, Joined(L, A, n, B, p), NEW q, q = n + p
  PROVE  Stack(L, q, Content(MergeFields(base, over)))
<1>1. PICK a, b, c :
        a = Content(base) /\ b = Content(over) /\ c = Content(MergeFields(base, over))
  OBVIOUS
<1>2. Covered(c, a, b)
  <2>1. CASE DOMAIN a = {}
    BY <1>1, <2>1 DEF MergeFields, Covered
  <2>2. CASE DOMAIN a # {} /\ DOMAIN b = {}
    BY <1>1, <2>2 DEF MergeFields, Covered
  <2>3. CASE DOMAIN a # {} /\ DOMAIN b # {}
    <3>1. MergeFields(base, over) = Private(Overlay(a, b))
      BY <1>1, <2>3 DEF MergeFields
    <3>2. c = Overlay(a, b)
      BY <1>1, <3>1 DEF Content, Private
    <3> QED
      BY <3>2 DEF Overlay, Covered
  <2> QED
    BY <2>1, <2>2, <2>3
<1>3. Stack(L, q, c)
  <2>1. Stack(A, n, a) /\ Stack(B, p, b)
    BY <1>1
  <2> QED
    BY <1>2, <2>1, StackedOn
<1> QED
  BY <1>1, <1>3

----
(* What the loop over the extractors has merged, one after the other.      *)
Iter(f, xs, panics, n) ==
  f = [s \in SUBSET (1 .. n) |->
         IF s = {} THEN Shared(Nil) ELSE Gather(f[s \ {Max(s)}], xs[Max(s)], panics)]

LEMMA IterExists == \A xs, panics : \A n \in Nat : \E f : Iter(f, xs, panics, n)
<1> SUFFICES ASSUME NEW xs, NEW panics PROVE \A n \in Nat : \E f : Iter(f, xs, panics, n)
  OBVIOUS
<1> DEFINE step(f, s) == Gather(f, xs[s], panics)
           T == {n \in Nat : ~ \E f : Iter(f, xs, panics, n)}
<1> SUFFICES ASSUME T # {} PROVE FALSE
  OBVIOUS
<1>1. PICK n \in T : \A m \in T : n <= m
  <2> HIDE DEF T
  <2>1. T \subseteq Nat
    BY DEF T
  <2> QED
    BY <2>1, Least
<1>2. n # 0
  <2>1. SUBSET (1 .. 0) = {{}}
    OBVIOUS
  <2>2. Iter([s \in {{}} |-> Shared(Nil)], xs, panics, 0)
    BY <2>1 DEF Iter
  <2> QED
    BY <2>2
<1>3. PICK f : Iter(f, xs, panics, n - 1)
  <2>1. n - 1 \in Nat /\ ~(n <= n - 1)
    BY <1>2
  <2> QED
    BY <1>1, <2>1
<1> HIDE DEF step
<1> DEFINE g == [s \in SUBSET (1 .. n) |-> IF n \in s THEN step(f[s \ {n}], n) ELSE f[s]]
<1>4. ASSUME NEW s \in SUBSET (1 .. n)
      PROVE  g[s] = IF s = {} THEN Shared(Nil) ELSE step(g[s \ {Max(s)}], Max(s))
  <2>1. \A t \in SUBSET (1 .. n - 1) :
          f[t] = IF t = {} THEN Shared(Nil) ELSE step(f[t \ {Max(t)}], Max(t))
    BY <1>3 DEF Iter, step
  <2>2. CASE n \in s
    <3>1. Max(s) = n
      <4>1. s \subseteq Nat /\ n \in s /\ \A x \in s : x <= n
        BY <2>2
      <4> QED
        BY <4>1, MaxIs
    <3>2. g[s \ {n}] = f[s \ {n}]
      OBVIOUS
    <3> QED
      BY <2>2, <3>1, <3>2
  <2>3. CASE n \notin s
    <3>1. s \in SUBSET (1 .. n - 1)
      BY <2>3
    <3>2. g[s] = f[s] /\ g[s \ {Max(s)}] = f[s \ {Max(s)}]
      BY <2>3
    <3> HIDE DEF g
    <3> QED
      BY <2>1, <3>1, <3>2
  <2> QED
    BY <2>2, <2>3
<1>5. g = [s \in SUBSET (1 .. n) |->
             IF s = {} THEN Shared(Nil) ELSE step(g[s \ {Max(s)}], Max(s))]
  BY <1>4
<1>6. Iter(g, xs, panics, n)
  <2> HIDE DEF g
  <2> QED
    BY <1>5, Zenon DEF Iter, step
<1> QED
  BY <1>6

LEMMA Loop ==
  ASSUME NEW xs \in Seq(Extractors), NEW panics
  PROVE  \E c : /\ Extracted(xs, panics) = c[Len(xs)]
                /\ c[0] = Shared(Nil)
                /\ \A n \in 1 .. Len(xs) : c[n] = Gather(c[n - 1], xs[n], panics)
<1> DEFINE N == Len(xs)
           f == CHOOSE f : Iter(f, xs, panics, N)
           c == [n \in 0 .. N |-> f[1 .. n]]
<1>1. N \in Nat /\ DOMAIN xs = 1 .. N
  OBVIOUS
<1>2. Iter(f, xs, panics, N)
  BY <1>1, IterExists
<1>3. Extracted(xs, panics) = f[1 .. N]
  BY <1>1, Zenon DEF Extracted, Iter, FoldLeft, MapThenFoldSet
<1> HIDE DEF f
<1>4. f[{}] = Shared(Nil)
  BY <1>1, <1>2 DEF Iter
<1>5. ASSUME NEW n \in 1 .. N
      PROVE  f[1 .. n] = Gather(f[1 .. (n - 1)], xs[n], panics)
  <2>1. 1 .. n \in SUBSET (1 .. N) /\ 1 .. n # {} /\ (1 .. n) \ {n} = 1 .. (n - 1)
    <3>1. n \in Nat /\ N \in Nat /\ 1 <= n /\ n <= N
      BY <1>1
    <3> HIDE DEF N
    <3>2. 1 .. n \in SUBSET (1 .. N) /\ 1 .. n # {}
      BY <3>1
    <3>3. (1 .. n) \ {n} = 1 .. (n - 1)
      BY <3>1
    <3> QED
      BY <3>2, <3>3
  <2>2. Max(1 .. n) = n
    <3>1. 1 .. n \subseteq Nat /\ n \in 1 .. n /\ \A x \in 1 .. n : x <= n
      BY <1>1
    <3> QED
      BY <3>1, MaxIs
  <2>3. f[1 .. n] = Gather(f[(1 .. n) \ {Max(1 .. n)}], xs[Max(1 .. n)], panics)
    BY <1>2, <2>1 DEF Iter
  <2> QED
    BY <2>1, <2>2, <2>3
<1>6. c[0] = Shared(Nil)
  BY <1>1, <1>4
<1>7. \A n \in 1 .. N : c[n] = f[1 .. n] /\ c[n - 1] = f[1 .. (n - 1)]
  BY <1>1
<1>8. c[N] = f[1 .. N]
  BY <1>1
<1> HIDE DEF c
<1>9. /\ Extracted(xs, panics) = c[N]
      /\ c[0] = Shared(Nil)
      /\ \A n \in 1 .. N : c[n] = Gather(c[n - 1], xs[n], panics)
  BY <1>3, <1>5, <1>6, <1>7, <1>8
<1> QED
  BY <1>9, Zenon

(* So the context's fields are the maps of those that ran, the later above *)
(* the earlier.                                                            *)
LEMMA ExtractedStack ==
  ASSUME NEW xs \in Seq(Extractors), NEW panics, DOMAIN heap[Nil] = {}
  PROVE  Stack(Adds(xs, panics), Len(xs), Content(Extracted(xs, panics)))
<1> DEFINE N == Len(xs)
           L == Adds(xs, panics)
<1>1. N \in Nat /\ DOMAIN xs = 1 .. N
  OBVIOUS
<1>2. PICK c : /\ Extracted(xs, panics) = c[N]
               /\ c[0] = Shared(Nil)
               /\ \A n \in 1 .. N : c[n] = Gather(c[n - 1], xs[n], panics)
  BY Loop, Zenon
<1> DEFINE Good(n) == Stack(L, n, Content(c[n]))
           T == {n \in 0 .. N : ~Good(n)}
<1>3. Good(0)
  <2>1. Content(c[0]) = heap[Nil]
    BY <1>2, MapsAssumption DEF Shared, Content
  <2> HIDE DEF L
  <2> QED
    BY <2>1, StackOfNone
<1>4. ASSUME NEW n \in 1 .. N, Good(n - 1) PROVE Good(n)
  <2>1. c[n] = Gather(c[n - 1], xs[n], panics) /\ n - 1 \in Nat /\ n = n - 1 + 1 /\ n \in Nat
    BY <1>1, <1>2
  <2>2. PICK x : x = xs[n] /\ x \in Extractors
    BY <1>1
  <2>3. CASE x \in panics
    <3>1. c[n] = c[n - 1] /\ L[n] = <<>>
      BY <1>1, <2>1, <2>2, <2>3 DEF Gather, Adds
    <3>2. PICK m : m = Content(c[n])
      OBVIOUS
    <3>3. Stack(L, n - 1, m) /\ DOMAIN L[n] = {}
      BY <1>4, <3>1, <3>2
    <3>4. \A i \in 1 .. n : i \in 1 .. (n - 1) \/ i = n
      BY <2>1
    <3>5. \A i \in 1 .. (n - 1) : i \in 1 .. n
      BY <2>1
    <3> HIDE DEF L
    <3>6. Stack(L, n, m)
      BY <3>3, <3>4, <3>5 DEF Stack, Top
    <3> QED
      BY <3>2, <3>6
  <2>4. CASE x \notin panics
    <3>1. c[n] = MergeFields(c[n - 1], Shared(Returns[x])) /\ L[n] = heap[Returns[x]]
      BY <1>1, <2>1, <2>2, <2>4 DEF Gather, Adds
    <3>2. Content(Shared(Returns[x])) = heap[Returns[x]]
      BY <2>2, MapsAssumption, KeysAssumption DEF Content, Shared
    <3>3. PICK B : B = [i \in 1 .. 1 |-> L[n]]
      OBVIOUS
    <3>4. Stack(B, 1, Content(Shared(Returns[x])))
      <4>1. B[1] = Content(Shared(Returns[x]))
        BY <3>1, <3>2, <3>3
      <4> QED
        BY <4>1, StackOfOne
    <3> HIDE DEF L
    <3>5. Joined(L, L, n - 1, B, 1)
      BY <2>1, <3>3 DEF Joined
    <3>6. Stack(L, n, Content(MergeFields(c[n - 1], Shared(Returns[x]))))
      BY <1>4, <2>1, <3>4, <3>5, Merging
    <3> QED
      BY <3>1, <3>6
  <2> QED
    BY <2>3, <2>4
<1>5. Good(N)
  <2> SUFFICES ASSUME T # {} PROVE FALSE
    BY <1>1
  <2>1. T \subseteq Nat
    BY <1>1
  <2> HIDE DEF T
  <2>2. PICK n \in T : \A m \in T : n <= m
    BY <2>1, Least
  <2> USE DEF T
  <2> HIDE DEF Good
  <2>3. n \in 1 .. N
    BY <1>1, <1>3
  <2>4. Good(n - 1)
    BY <1>1, <2>2, <2>3
  <2> QED
    BY <1>4, <2>3, <2>4
<1> QED
  BY <1>2, <1>5

----
(* Keys are sequences: what is appended to one can be told from it.        *)
LEMMA KeySeq ==
  ASSUME NEW k, IsKey(k)
  PROVE  \E S : k \in Seq(S)
BY DEF IsKey

LEMMA Suffix ==
  ASSUME NEW T, NEW k \in Seq(T), NEW q \in T
  PROVE  /\ Len(k \o Key(q)) = Len(k) + 1 /\ Len(k) \in Nat
         /\ \A i \in 1 .. Len(k) : (k \o Key(q))[i] = k[i]
         /\ (k \o Key(q))[Len(k) + 1] = q
<1>1. PICK s : s = Key(q)
  OBVIOUS
<1>2. s \in Seq(T) /\ Len(s) = 1 /\ s[1] = q
  BY <1>1 DEF Key
<1>3. /\ Len(k \o s) = Len(k) + Len(s)
      /\ \A i \in 1 .. Len(k) + Len(s) :
           (k \o s)[i] = IF i <= Len(k) THEN k[i] ELSE s[i - Len(k)]
  BY <1>2, ConcatProperties
<1>4. Len(k) \in Nat /\ Len(k) + 1 \in 1 .. Len(k) + 1 /\ ~(Len(k) + 1 <= Len(k))
      /\ Len(k) + 1 - Len(k) = 1
  OBVIOUS
<1>5. (k \o s)[Len(k) + 1] = q
  BY <1>2, <1>3, <1>4
<1>6. \A i \in 1 .. Len(k) : (k \o s)[i] = k[i]
  BY <1>2, <1>3, <1>4
<1> QED
  BY <1>1, <1>2, <1>3, <1>4, <1>5, <1>6

LEMMA Suffixed ==
  ASSUME NEW j, NEW k, IsKey(j), IsKey(k), NEW p, NEW q, j \o Key(p) = k \o Key(q)
  PROVE  j = k /\ p = q
<1>1. PICK R, S : j \in Seq(R) /\ k \in Seq(S)
  BY KeySeq
<1>2. PICK T : T = R \union S \union {p, q}
  OBVIOUS
<1>3. j \in Seq(T) /\ k \in Seq(T) /\ p \in T /\ q \in T
  BY <1>1, <1>2
<1>4. /\ Len(j \o Key(p)) = Len(j) + 1 /\ Len(k \o Key(q)) = Len(k) + 1
      /\ Len(j) \in Nat /\ Len(k) \in Nat
      /\ \A i \in 1 .. Len(j) : (j \o Key(p))[i] = j[i]
      /\ \A i \in 1 .. Len(k) : (k \o Key(q))[i] = k[i]
      /\ (j \o Key(p))[Len(j) + 1] = p /\ (k \o Key(q))[Len(k) + 1] = q
  BY <1>3, Suffix
<1>5. Len(j) = Len(k) /\ p = q
  BY <1>4
<1>6. j = k
  BY <1>3, <1>4, <1>5, SeqEqual
<1> QED
  BY <1>5, <1>6

(* No reserved key is one that was derived or moved.                       *)
LEMMA ReservedAreShort ==
  /\ \A k : \A q : IsKey(k) /\ q \in {"_type", "_chain"} => k \o Key(q) \notin ReservedKeys
  /\ \A k \in ReservedKeys : Key("fields.") \o k \notin ReservedKeys
<1> DEFINE names == {"time", "level", "message", "file", "service",
                     "version", "env", "host", "event_id", "stacktrace"}
<1>1. \A k \in ReservedKeys : \E n \in names : k = <<n>> /\ Len(k) = 1 /\ k[1] = n
  BY DEF ReservedKeys, Key
<1>2. ASSUME NEW k, NEW q, IsKey(k), q \in {"_type", "_chain"}, k \o Key(q) \in ReservedKeys
      PROVE  FALSE
  <2>1. PICK S : k \in Seq(S)
    BY <1>2, KeySeq
  <2>2. /\ Len(k \o Key(q)) = Len(k) + 1 /\ Len(k) \in Nat /\ (k \o Key(q))[Len(k) + 1] = q
    <3>1. PICK T : T = S \union {q}
      OBVIOUS
    <3>2. k \in Seq(T) /\ q \in T
      BY <2>1, <3>1
    <3> QED
      BY <3>2, Suffix
  <2>3. PICK n \in names : Len(k \o Key(q)) = 1 /\ (k \o Key(q))[1] = n
    BY <1>1, <1>2
  <2>4. q \in names
    BY <2>2, <2>3
  <2> QED
    BY <1>2, <2>4
<1>3. ASSUME NEW k \in ReservedKeys PROVE Key("fields.") \o k \notin ReservedKeys
  <2>1. PICK n \in names : k = <<n>>
    BY <1>1
  <2>2. PICK moved : moved = Key("fields.") \o k
    OBVIOUS
  <2>3. Len(moved) = 2
    BY <2>1, <2>2 DEF Key
  <2>4. moved \notin ReservedKeys
    BY <1>1, <2>3
  <2> QED
    BY <2>2, <2>4
<1> QED
  BY <1>2, <1>3

(* Of the writers of a key, one is the last.                               *)
LEMMA LastWriter ==
  ASSUME NEW writers, NEW w \in AnyWriter(writers), \A k \in DOMAIN writers : writers[k] # {}
  PROVE  DOMAIN w = DOMAIN writers /\ \A k \in DOMAIN writers : w[k] \in writers[k]
<1> DEFINE met == {k \in DOMAIN writers : Cardinality(writers[k]) > 1}
<1>1. PICK c : /\ \A k \in met : c[k] \in writers[k]
               /\ w = [k \in DOMAIN writers |->
                         IF k \in met THEN c[k] ELSE CHOOSE v \in writers[k] : TRUE]
  BY Zenon DEF AnyWriter
<1> HIDE DEF met
<1> QED
  BY <1>1

----
(* What enrichErrors makes of resolved fields: a derived key may be that   *)
(* of another field, so each is as it must be where only one writes it.    *)
Derived(r) == {k \o Key("_type") : k \in Errors(r)} \union {k \o Key("_chain") : k \in Wrappers(r)}

Enriched(r, m) ==
  /\ DOMAIN m = DOMAIN r \union Derived(r)
  /\ \A k \in DOMAIN r \ Derived(r) :
       m[k] = IF k \in Errors(r) THEN Text("message", r[k]) ELSE r[k]
  /\ \A k \in Errors(r) : k \o Key("_type") \notin Errors(r) =>
       m[k \o Key("_type")] = Text("type", r[k])
  /\ \A k \in Wrappers(r) : k \o Key("_chain") \notin Errors(r) =>
       m[k \o Key("_chain")] = Text("chain", r[k])

LEMMA Enriching ==
  ASSUME NEW r, \A k \in DOMAIN r : IsKey(k), NEW m \in Enrichments(r)
  PROVE  Enriched(r, m)
<1> DEFINE enriched == Errors(r) \union {e \o Key("_type") : e \in Errors(r)}
                         \union {e \o Key("_chain") : e \in Wrappers(r)}
           W(k) == {Text("message", r[e]) : e \in {e \in Errors(r) : e = k}}
             \union {Text("type", r[e]) : e \in {e \in Errors(r) : e \o Key("_type") = k}}
             \union {Text("chain", r[e]) : e \in {e \in Wrappers(r) : e \o Key("_chain") = k}}
           writers == [k \in enriched |-> W(k)]
<1>1. PICK w \in AnyWriter(writers) : m = Overlay(r, w)
  BY Zenon DEF Enrichments
<1>2. Wrappers(r) \subseteq Errors(r) /\ Errors(r) \subseteq DOMAIN r
  BY DEF Errors, Wrappers
<1>3. \A k \in enriched : writers[k] = W(k) /\ W(k) # {}
  <2>1. ASSUME NEW k \in enriched PROVE W(k) # {}
    <3>1. CASE k \in Errors(r)
      <4>1. Text("message", r[k]) \in W(k)
        BY <3>1
      <4> QED
        BY <4>1
    <3>2. ASSUME NEW e \in Errors(r), k = e \o Key("_type") PROVE W(k) # {}
      <4>1. Text("type", r[e]) \in W(k)
        BY <3>2
      <4> QED
        BY <4>1
    <3>3. ASSUME NEW e \in Wrappers(r), k = e \o Key("_chain") PROVE W(k) # {}
      <4>1. Text("chain", r[e]) \in W(k)
        BY <3>3
      <4> QED
        BY <4>1
    <3> QED
      BY <3>1, <3>2, <3>3
  <2>2. \A k \in enriched : writers[k] = W(k)
    <3> HIDE DEF W, enriched
    <3> QED
      OBVIOUS
  <2> QED
    BY <2>1, <2>2
<1>4. DOMAIN w = enriched /\ \A k \in enriched : w[k] \in W(k)
  <2>1. DOMAIN writers = enriched
    OBVIOUS
  <2> HIDE DEF writers, W, enriched
  <2> QED
    BY <1>3, <2>1, LastWriter
<1>5. enriched = Errors(r) \union Derived(r)
  BY DEF Derived
<1>6. \A k \in Errors(r) : IsKey(k)
  BY <1>2
<1>7. ASSUME NEW k, NEW v \in W(k)
      PROVE  \/ k \in Errors(r) /\ v = Text("message", r[k])
             \/ \E e \in Errors(r) : e \o Key("_type") = k /\ v = Text("type", r[e])
             \/ \E e \in Wrappers(r) : e \o Key("_chain") = k /\ v = Text("chain", r[e])
  OBVIOUS
<1> HIDE DEF W, writers, enriched
<1>8. /\ DOMAIN m = DOMAIN r \union Derived(r)
      /\ \A k \in DOMAIN m : m[k] = IF k \in enriched THEN w[k] ELSE r[k]
  BY <1>1, <1>2, <1>4, <1>5 DEF Overlay
<1>9. ASSUME NEW k \in DOMAIN r \ Derived(r)
      PROVE  m[k] = IF k \in Errors(r) THEN Text("message", r[k]) ELSE r[k]
  <2>1. CASE k \in Errors(r)
    <3>1. w[k] \in W(k) /\ m[k] = w[k]
      BY <1>4, <1>5, <1>8, <2>1
    <3> QED
      BY <1>7, <2>1, <3>1 DEF Derived
  <2>2. CASE k \notin Errors(r)
    BY <1>5, <1>8, <2>2
  <2> QED
    BY <2>1, <2>2
<1>10. ASSUME NEW k \in Errors(r), k \o Key("_type") \notin Errors(r)
       PROVE  m[k \o Key("_type")] = Text("type", r[k])
  <2>1. PICK t : t = k \o Key("_type")
    OBVIOUS
  <2>2. t \in Derived(r) /\ t \in enriched /\ m[t] = w[t] /\ w[t] \in W(t)
    BY <1>4, <1>5, <1>8, <2>1 DEF Derived
  <2>3. \A e \in Errors(r) : e \o Key("_type") = t => e = k
    BY <1>6, <2>1, Suffixed
  <2>4. \A e \in Wrappers(r) : e \o Key("_chain") # t
    <3>1. "_chain" # "_type"
      OBVIOUS
    <3> QED
      BY <1>2, <1>6, <2>1, <3>1, Suffixed
  <2>5. w[t] = Text("type", r[k])
    BY <1>7, <1>10, <2>1, <2>2, <2>3, <2>4
  <2> QED
    BY <2>1, <2>2, <2>5
<1>11. ASSUME NEW k \in Wrappers(r), k \o Key("_chain") \notin Errors(r)
       PROVE  m[k \o Key("_chain")] = Text("chain", r[k])
  <2>1. PICK t : t = k \o Key("_chain")
    OBVIOUS
  <2>2. t \in Derived(r) /\ t \in enriched /\ m[t] = w[t] /\ w[t] \in W(t)
    BY <1>4, <1>5, <1>8, <2>1 DEF Derived
  <2>3. \A e \in Wrappers(r) : e \o Key("_chain") = t => e = k
    BY <1>2, <1>6, <2>1, Suffixed
  <2>4. \A e \in Errors(r) : e \o Key("_type") # t
    <3>1. "_chain" # "_type"
      OBVIOUS
    <3> QED
      BY <1>2, <1>6, <2>1, <3>1, Suffixed
  <2>5. w[t] = Text("chain", r[k])
    BY <1>7, <1>11, <2>1, <2>2, <2>3, <2>4
  <2> QED
    BY <2>1, <2>2, <2>5
<1> QED
  BY <1>8, <1>9, <1>10, <1>11 DEF Enriched

(* What the entry has of the enriched fields: reserved keys moved, and the *)
(* others as they were where none of those landed on them.                 *)
Moved(m) == {Key("fields.") \o k : k \in DOMAIN m \intersect ReservedKeys}

LEMMA Placing ==
  ASSUME NEW m, NEW placed \in Placements(m)
  PROVE  /\ DOMAIN placed = Moved(m) \union (DOMAIN m \ ReservedKeys)
         /\ \A k \in DOMAIN m \ (ReservedKeys \union Moved(m)) : placed[k] = m[k]
<1> DEFINE W(q) == {m[k] : k \in {k \in DOMAIN m : Place(k) = q}}
           writers == [q \in {Place(k) : k \in DOMAIN m} |-> W(q)]
<1>1. placed \in AnyWriter(writers)
  BY Zenon DEF Placements
<1>2. \A q \in {Place(k) : k \in DOMAIN m} : writers[q] = W(q) /\ W(q) # {}
  OBVIOUS
<1>3. DOMAIN writers = {Place(k) : k \in DOMAIN m}
  OBVIOUS
<1>4. DOMAIN placed = {Place(k) : k \in DOMAIN m} /\ \A q \in DOMAIN placed : placed[q] \in W(q)
  <2> HIDE DEF W, writers
  <2> QED
    BY <1>1, <1>2, <1>3, LastWriter
<1>5. {Place(k) : k \in DOMAIN m} = Moved(m) \union (DOMAIN m \ ReservedKeys)
  BY DEF Place, Moved
<1>6. ASSUME NEW k \in DOMAIN m \ (ReservedKeys \union Moved(m)) PROVE placed[k] = m[k]
  <2>1. placed[k] \in W(k)
    BY <1>4, <1>5
  <2>2. PICK j \in DOMAIN m : Place(j) = k /\ placed[k] = m[j]
    BY <2>1
  <2>3. j = k
    BY <1>6, <2>2 DEF Place, Moved
  <2> QED
    BY <2>2, <2>3
<1> QED
  BY <1>4, <1>5, <1>6

LEMMA CoreIsReserved == \A lev : CoreKeys(lev) \subseteq ReservedKeys
BY DEF CoreKeys, ReservedKeys

(* An entry made of the layers it was given is right.                      *)
LEMMA Assembled ==
  ASSUME NEW n \in Nat, NEW layers, DOMAIN layers = 1 .. n,
         NEW whole, Stack(layers, n, whole), \A k \in DOMAIN whole : IsKey(k),
         NEW r, r = [k \in DOMAIN whole |-> Resolved(whole[k])],
         NEW m \in Enrichments(r), NEW placed \in Placements(m), NEW lev,
         NEW e, e = Overlay([k \in CoreKeys(lev) |-> Core(k)], placed)
  PROVE  Right(e, layers, lev)
<1> DEFINE user == UNION {DOMAIN layers[i] : i \in DOMAIN layers}
           last(k) == Resolved(layers[Max({i \in DOMAIN layers : k \in DOMAIN layers[i]})][k])
           failed == {k \in user : last(k).kind = "error"}
           derived == {k \o Key("_type") : k \in failed}
                        \union {k \o Key("_chain") : k \in {k \in failed : last(k).wraps}}
           moved == {Key("fields.") \o k : k \in (user \union derived) \intersect ReservedKeys}
<1>1. user = DOMAIN r /\ DOMAIN r = DOMAIN whole
  BY DEF Stack
<1>2. \A k \in DOMAIN r : r[k] = last(k)
  <2>1. ASSUME NEW k \in DOMAIN whole PROVE r[k] = last(k)
    <3>1. whole[k] = layers[Max({i \in 1 .. n : k \in DOMAIN layers[i]})][k]
      BY StackTop
    <3>2. last(k) = Resolved(layers[Max({i \in 1 .. n : k \in DOMAIN layers[i]})][k])
      OBVIOUS
    <3> HIDE DEF last
    <3> QED
      BY <3>1, <3>2
  <2> HIDE DEF last
  <2> QED
    BY <1>1, <2>1
<1> HIDE DEF user, last
<1>3. failed = Errors(r) /\ {k \in failed : last(k).wraps} = Wrappers(r)
  BY <1>1, <1>2 DEF Errors, Wrappers
<1>4. derived = Derived(r)
  BY <1>3 DEF Derived
<1>5. Enriched(r, m)
  BY <1>1, Enriching
<1>6. DOMAIN m = user \union derived
  BY <1>1, <1>4, <1>5 DEF Enriched
<1>7. moved = Moved(m)
  BY <1>6 DEF Moved
<1> HIDE DEF failed, derived, moved
<1>8. /\ DOMAIN placed = moved \union (DOMAIN m \ ReservedKeys)
      /\ \A k \in DOMAIN m \ (ReservedKeys \union moved) : placed[k] = m[k]
  BY <1>7, Placing
<1>9. \A k \in CoreKeys(lev) : k \in ReservedKeys /\ k \notin DOMAIN placed
  BY <1>7, <1>8, CoreIsReserved, ReservedAreShort DEF Moved
<1>10. /\ DOMAIN e = CoreKeys(lev) \union DOMAIN placed
       /\ \A k \in CoreKeys(lev) : e[k] = Core(k)
       /\ \A k \in DOMAIN placed : e[k] = placed[k]
  BY <1>9 DEF Overlay
<1>11. ASSUME NEW k \in user \ (ReservedKeys \union derived \union moved)
       PROVE  e[k] = IF k \in failed THEN Text("message", last(k)) ELSE last(k)
  <2>1. e[k] = m[k]
    BY <1>6, <1>8, <1>10
  <2> QED
    BY <1>1, <1>2, <1>3, <1>4, <1>5, <2>1 DEF Enriched
<1>12. \A k \in failed : k \in DOMAIN r /\ IsKey(k)
  BY <1>1, <1>3 DEF Errors
<1>13. ASSUME NEW k \in failed, k \o Key("_type") \notin failed \union moved
       PROVE  e[k \o Key("_type")] = Text("type", last(k))
  <2>1. PICK t : t = k \o Key("_type")
    OBVIOUS
  <2>2. t \in derived /\ t \notin ReservedKeys
    BY <1>3, <1>4, <1>12, <2>1, ReservedAreShort DEF Derived
  <2>3. e[t] = m[t]
    BY <1>6, <1>8, <1>10, <1>13, <2>1, <2>2
  <2>4. m[t] = Text("type", r[k])
    BY <1>3, <1>5, <1>13, <2>1 DEF Enriched
  <2> QED
    BY <1>2, <1>12, <2>1, <2>3, <2>4
<1>14. ASSUME NEW k \in failed, last(k).wraps, k \o Key("_chain") \notin failed \union moved
       PROVE  e[k \o Key("_chain")] = Text("chain", last(k))
  <2>1. PICK t : t = k \o Key("_chain")
    OBVIOUS
  <2>2. k \in Wrappers(r)
    BY <1>3, <1>14
  <2>3. t \in derived /\ t \notin ReservedKeys
    BY <1>4, <1>12, <2>1, <2>2, ReservedAreShort DEF Derived
  <2>4. e[t] = m[t]
    BY <1>6, <1>8, <1>10, <1>14, <2>1, <2>3
  <2>5. m[t] = Text("chain", r[k])
    BY <1>3, <1>5, <1>14, <2>1, <2>2 DEF Enriched
  <2> QED
    BY <1>2, <1>12, <2>1, <2>4, <2>5
<1>15. DOMAIN e = CoreKeys(lev) \union moved \union ((user \union derived) \ ReservedKeys)
  BY <1>6, <1>8, <1>10
<1> QED
  BY <1>10, <1>11, <1>13, <1>14, <1>15 DEF Right, user, last, failed, derived, moved

----
(* What each logger was given adds up to the map it has, which nobody      *)
(* changes but, when it is a caller's own, the caller.                     *)
IsSequence(s) == \E S : s \in Seq(S)

LoggerOK(l) ==
  /\ logger[l].fields \in Callers \union {Nil} \union (1 .. MaxLoggers \intersect 1 .. Len(logger))
  /\ logger[l].extractors \in Seq(Extractors)
  /\ IsSequence(logger[l].given)
  /\ logger[l].fields \notin Callers =>
       Stack(logger[l].given, Len(logger[l].given), heap[logger[l].fields])

Keyed(m) == \A k \in DOMAIN m : IsKey(k)

PersistInv == /\ DOMAIN heap[Nil] = {}
              /\ \A a \in Addrs : Keyed(heap[a])
              /\ \A l \in DOMAIN logger : LoggerOK(l)

LEMMA MergingKeyed ==
  ASSUME NEW base, NEW over, Keyed(Content(base)), Keyed(Content(over))
  PROVE  Keyed(Content(MergeFields(base, over)))
<1>1. Content(Private(Overlay(Content(base), Content(over))))
        = Overlay(Content(base), Content(over))
  BY DEF Content, Private
<1>2. DOMAIN Overlay(Content(base), Content(over))
        = DOMAIN Content(base) \union DOMAIN Content(over)
  BY DEF Overlay
<1>3. Keyed(Content(Private(Overlay(Content(base), Content(over)))))
  BY <1>1, <1>2 DEF Keyed
<1> QED
  BY <1>3 DEF MergeFields

LEMMA SharedIs ==
  ASSUME NEW a \in Addrs
  PROVE  Content(Shared(a)) = heap[a]
BY MapsAssumption DEF Content, Shared, Addrs, Maps

LEMMA PersistentStack ==
  ASSUME NEW l, LoggerOK(l)
  PROVE  /\ IsSequence(Persistent(l))
         /\ Stack(Persistent(l), Len(Persistent(l)), heap[logger[l].fields])
         /\ logger[l].fields \in Addrs
<1>1. PICK f, m : f = logger[l].fields /\ m = heap[f]
  OBVIOUS
<1>2. CASE f \in Callers
  <2>1. Persistent(l) = <<m>>
    BY <1>1, <1>2 DEF Persistent
  <2>2. PICK s : s = <<m>>
    OBVIOUS
  <2>3. s \in Seq({m}) /\ Len(s) = 1 /\ s[1] = m
    BY <2>2
  <2>4. Stack(s, 1, m)
    BY <2>3, StackOfOne
  <2> QED
    BY <1>1, <1>2, <2>1, <2>2, <2>3, <2>4 DEF IsSequence, Addrs, Maps
<1>3. CASE f \notin Callers
  BY <1>1, <1>3 DEF Persistent, LoggerOK, Addrs
<1> QED
  BY <1>2, <1>3

(* One more layer on a sequence of them.                                   *)
LEMMA OneMore ==
  ASSUME NEW P, IsSequence(P), NEW x
  PROVE  /\ IsSequence(Append(P, x)) /\ Len(P) \in Nat
         /\ Len(Append(P, x)) = Len(P) + 1
         /\ Joined(Append(P, x), P, Len(P), [i \in 1 .. 1 |-> x], 1)
<1>1. PICK S : P \in Seq(S)
  BY DEF IsSequence
<1>2. PICK T : T = S \union {x}
  OBVIOUS
<1>3. P \in Seq(T) /\ x \in T
  BY <1>1, <1>2
<1>4. Append(P, x) \in Seq(T) /\ Len(P) \in Nat /\ Len(Append(P, x)) = Len(P) + 1
      /\ \A i \in 1 .. Len(P) : Append(P, x)[i] = P[i]
      /\ Append(P, x)[Len(P) + 1] = x
  BY <1>3
<1>5. Joined(Append(P, x), P, Len(P), [i \in 1 .. 1 |-> x], 1)
  BY <1>4 DEF Joined
<1> QED
  BY <1>4, <1>5 DEF IsSequence

LEMMA DerivedStack ==
  ASSUME ShapeInv, PersistInv, NEW p \in DOMAIN logger, NEW a \in Callers \union {Nil}
  PROVE  LET whole == Append(Persistent(p), heap[a])
         IN /\ IsSequence(whole)
            /\ Stack(whole, Len(whole),
                     Content(MergeFields(Shared(logger[p].fields), Shared(a))))
            /\ Keyed(Content(MergeFields(Shared(logger[p].fields), Shared(a))))
<1>1. PICK P, f : P = Persistent(p) /\ f = logger[p].fields
  OBVIOUS
<1>2. IsSequence(P) /\ Stack(P, Len(P), heap[f]) /\ f \in Addrs /\ a \in Addrs
  BY <1>1, PersistentStack DEF PersistInv, Addrs, Maps
<1>3. Content(Shared(f)) = heap[f] /\ Content(Shared(a)) = heap[a]
  BY <1>2, SharedIs
<1>4. PICK G, B, x : x = heap[a] /\ G = Append(P, x) /\ B = [i \in 1 .. 1 |-> x]
  OBVIOUS
<1>5. IsSequence(G) /\ Len(P) \in Nat /\ Len(G) = Len(P) + 1 /\ Joined(G, P, Len(P), B, 1)
  BY <1>2, <1>4, OneMore
<1>6. Stack(B, 1, Content(Shared(a)))
  BY <1>3, <1>4, StackOfOne
<1>7. Stack(G, Len(G), Content(MergeFields(Shared(f), Shared(a))))
  BY <1>2, <1>3, <1>5, <1>6, Merging
<1>8. Keyed(Content(MergeFields(Shared(f), Shared(a))))
  BY <1>2, <1>3, MergingKeyed DEF PersistInv
<1> QED
  BY <1>1, <1>4, <1>5, <1>7, <1>8

LEMMA PersistDerive ==
  ASSUME ShapeInv, PersistInv, NEW p \in DOMAIN logger, NEW a \in Callers \union {Nil},
         NEW xs \in Seq(Extractors), Derive(p, a, xs)
  PROVE  PersistInv'
<1>1. PICK l, merged, home, whole, f :
        /\ l = Len(logger) + 1 /\ f = logger[p].fields
        /\ merged = MergeFields(Shared(f), Shared(a))
        /\ home = IF merged.at = Own THEN l ELSE merged.at
        /\ whole = Append(Persistent(p), heap[a])
  OBVIOUS
<1>2. PICK x : x = [fields |-> home, extractors |-> xs, given |-> whole]
  OBVIOUS
<1>3. /\ l <= MaxLoggers /\ logger' = Append(logger, x)
      /\ heap' = IF merged.at = Own THEN [heap EXCEPT ![home] = merged.map] ELSE heap
  BY <1>1, <1>2, Zenon DEF Derive
<1>4. /\ Len(logger) \in Nat /\ Len(logger') = l /\ DOMAIN logger = 1 .. Len(logger)
      /\ DOMAIN logger' = 1 .. l /\ logger'[l] = x
      /\ \A i \in 1 .. Len(logger) : logger'[i] = logger[i]
  <2>1. PICK S : logger \in Seq(S)
    BY DEF ShapeInv
  <2>2. logger \in Seq(S \union {x})
    BY <2>1
  <2> QED
    BY <1>1, <1>3, <2>2
<1>5. l \in 1 .. MaxLoggers /\ l \in Addrs /\ l \notin Callers /\ l # Nil
  BY <1>1, <1>3, <1>4, MapsAssumption DEF Addrs
<1>6. /\ IsSequence(whole) /\ Stack(whole, Len(whole), Content(merged)) /\ Keyed(Content(merged))
  BY <1>1, DerivedStack
<1>7. f \in Callers \union {Nil} \union (1 .. MaxLoggers \intersect 1 .. Len(logger))
  BY <1>1 DEF PersistInv, LoggerOK
<1>8. /\ heap'[home] = Content(merged)
      /\ home \in Callers \union {Nil} \union (1 .. MaxLoggers \intersect 1 .. l)
      /\ \A b \in Addrs : b # l => heap'[b] = heap[b]
  <2>1. CASE merged.at = Own
    BY <1>1, <1>3, <1>4, <1>5, <2>1 DEF ShapeInv, Content
  <2>2. CASE merged.at # Own
    <3>1. merged = Shared(f) \/ merged = Shared(a)
      BY <1>1, <2>2 DEF MergeFields, Private
    <3>2. home = f \/ home = a
      BY <1>1, <2>2, <3>1 DEF Shared
    <3> QED
      BY <1>1, <1>3, <1>4, <1>7, <2>2, <3>2 DEF Content
  <2> QED
    BY <2>1, <2>2
<1>9. \A b \in Addrs : Keyed(heap'[b])
  <2>1. ASSUME NEW b \in Addrs, b = l PROVE Keyed(heap'[b])
    <3>1. CASE merged.at = Own
      BY <1>1, <1>6, <1>8, <2>1, <3>1
    <3>2. CASE merged.at # Own
      BY <1>3, <3>2 DEF PersistInv
    <3> QED
      BY <3>1, <3>2
  <2> QED
    BY <1>8, <2>1 DEF PersistInv
<1>10. ASSUME NEW i \in 1 .. l PROVE LoggerOK(i)'
  <2>1. CASE i = l
    <3>1. logger'[i].fields = home /\ logger'[i].extractors = xs /\ logger'[i].given = whole
      BY <1>2, <1>4, <2>1
    <3> QED
      BY <1>4, <1>6, <1>8, <3>1 DEF LoggerOK
  <2>2. CASE i # l
    <3>1. i \in DOMAIN logger /\ logger'[i] = logger[i]
      BY <1>1, <1>4, <2>2
    <3>2. LoggerOK(i)
      BY <3>1 DEF PersistInv
    <3>3. logger[i].fields \in Addrs /\ logger[i].fields # l
      BY <1>1, <1>4, <1>5, <3>2 DEF LoggerOK, Addrs, Maps
    <3>4. heap'[logger[i].fields] = heap[logger[i].fields]
      BY <1>8, <3>3
    <3>5. logger[i].fields \in Callers \union {Nil} \union (1 .. MaxLoggers \intersect 1 .. l)
      BY <1>1, <1>4, <3>2 DEF LoggerOK
    <3> QED
      BY <1>4, <3>1, <3>2, <3>4, <3>5 DEF LoggerOK
  <2> QED
    BY <2>1, <2>2
<1>11. DOMAIN heap'[Nil] = {}
  BY <1>5, <1>8 DEF PersistInv, Addrs
<1> QED
  BY <1>4, <1>9, <1>10, <1>11 DEF PersistInv

(* A step that makes no logger, and in the maps loggers may have changes   *)
(* those of callers only.                                                  *)
LEMMA PersistOthers ==
  ASSUME PersistInv, logger' = logger,
         \A a \in Addrs : Keyed(heap'[a]),
         \A a \in {Nil} \union 1 .. MaxLoggers : heap'[a] = heap[a]
  PROVE  PersistInv'
<1>1. ASSUME NEW l \in DOMAIN logger PROVE LoggerOK(l)'
  <2>1. LoggerOK(l)
    BY DEF PersistInv
  <2>2. logger[l].fields \notin Callers => heap'[logger[l].fields] = heap[logger[l].fields]
    BY <2>1 DEF LoggerOK
  <2> QED
    BY <2>1, <2>2 DEF LoggerOK
<1> QED
  BY <1>1 DEF PersistInv

LEMMA PersistInit == Init => PersistInv
<1> SUFFICES ASSUME Init PROVE PersistInv
  OBVIOUS
<1>1. heap = [a \in Addrs |-> IF a \in Maps THEN Given[a][1] ELSE <<>>]
      /\ logger = <<[fields |-> Nil, extractors |-> <<>>, given |-> <<>>]>>
  BY DEF Init
<1>2. Nil \notin Maps /\ Nil \in Addrs
  BY MapsAssumption DEF Maps, Addrs
<1>3. DOMAIN heap[Nil] = {}
  BY <1>1, <1>2
<1>4. \A a \in Addrs : Keyed(heap[a])
  BY <1>1, KeysAssumption DEF Keyed
<1>5. DOMAIN logger = {1} /\ logger[1].fields = Nil /\ logger[1].extractors = <<>>
      /\ logger[1].given = <<>>
  BY <1>1
<1>6. <<>> \in Seq(Extractors) /\ IsSequence(<<>>) /\ Len(<<>>) = 0
  BY DEF IsSequence
<1>7. Stack(<<>>, 0, heap[Nil])
  BY <1>3, StackOfNone
<1>8. LoggerOK(1)
  BY <1>5, <1>6, <1>7 DEF LoggerOK
<1> QED
  BY <1>3, <1>4, <1>5, <1>8 DEF PersistInv

LEMMA PersistStep == ShapeInv /\ PersistInv /\ [Next]_vars => PersistInv'
<1> SUFFICES ASSUME ShapeInv, PersistInv, [Next]_vars PROVE PersistInv'
  OBVIOUS
<1>1. ASSUME NEW p \in DOMAIN logger, NEW a \in Callers \union {Nil}, With(p, a)
      PROVE  PersistInv'
  <2>1. logger[p].extractors \in Seq(Extractors)
    BY DEF PersistInv, LoggerOK
  <2> QED
    BY <1>1, <2>1, PersistDerive DEF With
<1>2. ASSUME NEW p \in DOMAIN logger, NEW x \in Extractors, WithContextExtractor(p, x)
      PROVE  PersistInv'
  <2>1. PICK xs : xs = Append(logger[p].extractors, x)
    OBVIOUS
  <2>2. logger[p].extractors \in Seq(Extractors)
    BY DEF PersistInv, LoggerOK
  <2>3. xs \in Seq(Extractors)
    BY <2>1, <2>2
  <2>4. Derive(p, Nil, xs)
    BY <1>2, <2>1 DEF WithContextExtractor
  <2> QED
    BY <2>3, <2>4, PersistDerive
<1>3. CASE UNCHANGED <<heap, logger>>
  BY <1>3, PersistOthers DEF PersistInv
<1>4. ASSUME NEW g \in Goroutines, Log(g) \/ LogContext(g) \/ Write(g) PROVE PersistInv'
  BY <1>3, <1>4, LogIsQuiet, WriteIsQuiet DEF Quiet
<1>5. ASSUME NEW g \in Goroutines, RunMiddleware(g) PROVE PersistInv'
  <2>1. PICK R : R = RedactReach(entry[g]) /\ R \subseteq Groups
    BY DEF RedactReach, Reach
  <2>2. logger' = logger
        /\ \A a \in Addrs : heap'[a] = IF a \in R THEN Redact(heap[a]) ELSE heap[a]
    BY <1>5, <2>1 DEF RunMiddleware
  <2>3. \A m : DOMAIN Redact(m) = DOMAIN m
    BY DEF Redact
  <2>4. \A a \in Addrs : Keyed(heap'[a])
    BY <2>2, <2>3 DEF PersistInv, Keyed
  <2>5. \A a \in {Nil} \union 1 .. MaxLoggers : a \in Addrs /\ a \notin R
    BY <2>1, MapsAssumption DEF Addrs
  <2> QED
    BY <2>2, <2>4, <2>5, PersistOthers
<1>6. ASSUME NEW a \in Maps, CallerChange(a) PROVE PersistInv'
  <2>1. PICK i \in DOMAIN Given[a] : heap' = [heap EXCEPT ![a] = Given[a][i]]
    BY <1>6, Zenon DEF CallerChange
  <2>2. logger' = logger
    BY <1>6, Zenon DEF CallerChange
  <2>3. a \notin {Nil} \union 1 .. MaxLoggers /\ {Nil} \union 1 .. MaxLoggers \subseteq Addrs
    BY MapsAssumption DEF Maps, Addrs
  <2>4. \A b \in Addrs : heap'[b] = IF b = a THEN Given[a][i] ELSE heap[b]
    BY <2>1 DEF ShapeInv
  <2>5. \A b \in Addrs : Keyed(heap'[b])
    BY <2>4, KeysAssumption DEF PersistInv, Keyed
  <2> QED
    BY <2>2, <2>3, <2>4, <2>5, PersistOthers
<1>7. CASE UNCHANGED vars
  BY <1>3, <1>7 DEF vars
<1> QED
  BY <1>1, <1>2, <1>4, <1>5, <1>6, <1>7, Zenon DEF Next

----
(* What a call works on is the layers it was given, put one above another. *)
LEMMA CallStack ==
  ASSUME ShapeInv, PersistInv, NEW l \in DOMAIN logger, NEW xs \in Seq(Extractors), NEW panics,
         NEW r, Keyed(Content(r))
  PROVE  LET layers == Persistent(l) \o Adds(xs, panics) \o <<Content(r)>>
             whole == Content(Precedence(Shared(logger[l].fields), Extracted(xs, panics), r))
         IN Keyed(whole) /\ \E n \in Nat : DOMAIN layers = 1 .. n /\ Stack(layers, n, whole)
<1>1. PICK P, A, x, f, ctx :
        /\ P = Persistent(l) /\ A = Adds(xs, panics) /\ x = Content(r)
        /\ f = logger[l].fields /\ ctx = Extracted(xs, panics)
  OBVIOUS
<1>2. IsSequence(P) /\ Stack(P, Len(P), heap[f]) /\ f \in Addrs
  BY <1>1, PersistentStack DEF PersistInv
<1>3. Content(Shared(f)) = heap[f]
  BY <1>2, SharedIs
<1>4. DOMAIN A = 1 .. Len(xs) /\ Len(xs) \in Nat /\ IsSequence(A) /\ Len(A) = Len(xs)
  <2>1. DOMAIN A = 1 .. Len(xs) /\ Len(xs) \in Nat /\ A = [i \in 1 .. Len(xs) |-> A[i]]
    BY <1>1 DEF Adds
  <2>2. PICK S : S = {A[i] : i \in 1 .. Len(xs)}
    OBVIOUS
  <2>3. A \in Seq(S) /\ Len(A) = Len(xs)
    BY <2>1, <2>2
  <2> QED
    BY <2>1, <2>3 DEF IsSequence
<1>5. Stack(A, Len(A), Content(ctx))
  BY <1>1, <1>4, ExtractedStack DEF PersistInv
<1>6. Keyed(Content(ctx))
  <2>1. \A i \in 1 .. Len(A) : Keyed(A[i])
    <3>1. ASSUME NEW i \in 1 .. Len(A) PROVE Keyed(A[i])
      <4>1. xs[i] \in Extractors /\ Returns[xs[i]] \in Addrs
        BY <1>4, KeysAssumption DEF Addrs, Maps
      <4>2. A[i] = IF xs[i] \in panics THEN <<>> ELSE heap[Returns[xs[i]]]
        BY <1>1, <1>4 DEF Adds
      <4>3. Keyed(heap[Returns[xs[i]]])
        BY <4>1 DEF PersistInv
      <4>4. Keyed(<<>>)
        BY DEF Keyed
      <4> QED
        BY <4>2, <4>3, <4>4
    <3> QED
      BY <3>1
  <2> QED
    BY <1>5, <2>1 DEF Keyed, Stack
<1>7. PICK B, C, L : /\ B = [i \in 1 .. 1 |-> x]
                     /\ C = A \o <<x>> /\ L = P \o A \o <<x>>
  OBVIOUS
<1>8. /\ Len(P) \in Nat /\ Len(A) \in Nat /\ Len(L) \in Nat /\ DOMAIN L = 1 .. Len(L)
      /\ Len(C) = Len(A) + 1 /\ Joined(C, A, Len(A), B, 1)
      /\ Len(L) = Len(P) + Len(C) /\ Joined(L, P, Len(P), C, Len(C))
  <2>1. PICK S, T : P \in Seq(S) /\ A \in Seq(T)
    BY <1>2, <1>4 DEF IsSequence
  <2>2. PICK U : U = S \union T \union {x}
    OBVIOUS
  <2>3. PICK one : one = <<x>>
    OBVIOUS
  <2>4. P \in Seq(U) /\ A \in Seq(U) /\ one \in Seq(U) /\ Len(one) = 1 /\ one[1] = x
    BY <2>1, <2>2, <2>3
  <2>5. PICK PA : PA = P \o A
    OBVIOUS
  <2>6. /\ PA \in Seq(U) /\ Len(PA) = Len(P) + Len(A)
        /\ \A i \in 1 .. Len(P) + Len(A) : PA[i] = IF i <= Len(P) THEN P[i] ELSE A[i - Len(P)]
    BY <2>4, <2>5, ConcatProperties
  <2>7. /\ C \in Seq(U) /\ Len(C) = Len(A) + 1
        /\ \A i \in 1 .. Len(A) + 1 : C[i] = IF i <= Len(A) THEN A[i] ELSE one[i - Len(A)]
    BY <1>7, <2>3, <2>4, ConcatProperties
  <2>8. /\ L \in Seq(U) /\ Len(L) = Len(PA) + 1
        /\ \A i \in 1 .. Len(PA) + 1 : L[i] = IF i <= Len(PA) THEN PA[i] ELSE one[i - Len(PA)]
    BY <1>7, <2>3, <2>4, <2>5, <2>6, ConcatProperties
  <2>9. Len(P) \in Nat /\ Len(A) \in Nat /\ Len(L) \in Nat /\ DOMAIN L = 1 .. Len(L)
    BY <2>4, <2>8
  <2>10. Len(L) = Len(P) + Len(C)
    BY <2>6, <2>7, <2>8, <2>9
  <2>11. Joined(C, A, Len(A), B, 1)
    BY <1>7, <2>4, <2>7, <2>9 DEF Joined
  <2>12. \A i \in 1 .. Len(P) : L[i] = P[i]
    BY <2>6, <2>8, <2>9
  <2>13. ASSUME NEW i \in 1 .. Len(C) PROVE L[Len(P) + i] = C[i]
    <3>1. CASE i \in 1 .. Len(A)
      <4>1. L[Len(P) + i] = PA[Len(P) + i]
        BY <2>6, <2>8, <2>9, <3>1
      <4>2. PA[Len(P) + i] = A[i]
        BY <2>6, <2>9, <3>1
      <4>3. C[i] = A[i]
        BY <2>7, <2>9, <3>1
      <4> QED
        BY <4>1, <4>2, <4>3
    <3>2. CASE i = Len(A) + 1
      <4>1. L[Len(P) + i] = one[1]
        BY <2>6, <2>8, <2>9, <3>2
      <4>2. C[i] = one[1]
        BY <2>7, <2>9, <3>2
      <4> QED
        BY <4>1, <4>2
    <3> QED
      BY <2>7, <2>9, <3>1, <3>2
  <2>14. Joined(L, P, Len(P), C, Len(C))
    BY <2>12, <2>13 DEF Joined
  <2> QED
    BY <2>7, <2>9, <2>10, <2>11, <2>14
<1>9. Stack(B, 1, Content(r))
  BY <1>1, <1>7, StackOfOne
<1>10. Stack(C, Len(C), Content(MergeFields(ctx, r)))
  BY <1>5, <1>8, <1>9, Merging
<1>11. Stack(L, Len(L), Content(MergeFields(Shared(f), MergeFields(ctx, r))))
  BY <1>2, <1>3, <1>8, <1>10, Merging
<1>12. Keyed(Content(MergeFields(Shared(f), MergeFields(ctx, r))))
  <2>1. Keyed(Content(Shared(f)))
    BY <1>2, <1>3 DEF PersistInv
  <2> QED
    BY <1>6, <2>1, MergingKeyed
<1> QED
  BY <1>1, <1>7, <1>8, <1>11, <1>12 DEF Precedence

LEMMA ArgumentsKeyed ==
  ASSUME PersistInv, NEW r \in Arguments
  PROVE  Keyed(Content(r))
<1>1. ASSUME NEW a \in Callers \union {Nil} PROVE Keyed(Content(Shared(a)))
  <2>1. a \in Addrs
    BY DEF Addrs, Maps
  <2> QED
    BY <2>1, SharedIs DEF PersistInv
<1>2. \A m : Content(Private(m)) = m
  BY DEF Content, Private
<1>3. ASSUME NEW s \in Typed PROVE Keyed(Content(FieldsToMap(s)))
  <2>1. CASE s = <<>>
    BY <1>1, <2>1 DEF FieldsToMap
  <2>2. CASE s # <<>>
    <3>1. PICK m : m = [k \in {s[i][1] : i \in DOMAIN s} |->
                          s[Max({i \in DOMAIN s : s[i][1] = k})][2]]
      OBVIOUS
    <3>2. FieldsToMap(s) = Private(m)
      BY <2>2, <3>1 DEF FieldsToMap
    <3>3. Keyed(m)
      BY <3>1, KeysAssumption DEF Keyed
    <3> QED
      BY <1>2, <3>2, <3>3
  <2> QED
    BY <2>1, <2>2
<1>4. Keyed(Content(TimedFields))
  <2>1. PICK k : k = Key("duration_ms")
    OBVIOUS
  <2>2. k \in Seq(Range(k))
    BY <2>1 DEF Key, Range
  <2> QED
    BY <1>2, <2>1, <2>2 DEF TimedFields, Keyed, IsKey
<1> QED
  BY <1>1, <1>3, <1>4 DEF Arguments

LEMMA CallIsRight ==
  ASSUME ShapeInv, PersistInv, NEW g \in Goroutines, NEW l \in DOMAIN logger, NEW lev,
         NEW xs \in Seq(Extractors), NEW panics, NEW r \in Arguments,
         LogCall(g, l, lev, xs, panics, r)
  PROVE  Right(entry'[g], call'[g].layers, call'[g].level)
<1>1. PICK layers, whole, P :
        /\ layers = Persistent(l) \o Adds(xs, panics) \o <<Content(r)>>
        /\ P = Precedence(Shared(logger[l].fields), Extracted(xs, panics), r)
        /\ whole = Content(P)
  OBVIOUS
<1>2. Keyed(whole) /\ \E n \in Nat : DOMAIN layers = 1 .. n /\ Stack(layers, n, whole)
  BY <1>1, ArgumentsKeyed, CallStack
<1>3. /\ Assemble(g, lev, P)
      /\ call' = [call EXCEPT ![g] = [level |-> lev, layers |-> layers]]
  BY <1>1, Zenon DEF LogCall
<1>4. PICK R : R = [k \in DOMAIN whole |-> Resolved(whole[k])]
  OBVIOUS
<1>5. PICK m \in Enrichments(R) : \E placed \in Placements(m) :
        entry' = [entry EXCEPT ![g] = Overlay([k \in CoreKeys(lev) |-> Core(k)], placed)]
  <2>1. \E m \in Enrichments([k \in DOMAIN Content(P) |-> Resolved(Content(P)[k])]) :
          \E placed \in Placements(m) :
            entry' = [entry EXCEPT ![g] = Overlay([k \in CoreKeys(lev) |-> Core(k)], placed)]
    BY <1>3, Zenon DEF Assemble
  <2>2. R = [k \in DOMAIN Content(P) |-> Resolved(Content(P)[k])]
    BY <1>1, <1>4
  <2> QED
    BY <2>1, <2>2, Zenon
<1>6. PICK placed \in Placements(m) :
        entry' = [entry EXCEPT ![g] = Overlay([k \in CoreKeys(lev) |-> Core(k)], placed)]
  BY <1>5, Zenon
<1>7. PICK e : e = Overlay([k \in CoreKeys(lev) |-> Core(k)], placed)
  OBVIOUS
<1>8. Right(e, layers, lev)
  BY <1>2, <1>4, <1>7, Assembled DEF Keyed
<1>9. entry'[g] = e /\ call'[g].layers = layers /\ call'[g].level = lev
  BY <1>3, <1>6, <1>7 DEF ShapeInv
<1> QED
  BY <1>8, <1>9

LEMMA RightStep == ShapeInv /\ PersistInv /\ EntryRight /\ [Next]_vars => EntryRight'
<1> SUFFICES ASSUME ShapeInv, PersistInv, EntryRight, [Next]_vars,
                    NEW g \in Goroutines, pc'[g] = "middleware"
             PROVE  Right(entry'[g], call'[g].layers, call'[g].level)
  BY DEF EntryRight
<1>1. CASE pc[g] = "middleware" /\ entry'[g] = entry[g] /\ call'[g] = call[g]
  BY <1>1 DEF EntryRight
<1>2. ASSUME NEW h \in Goroutines, NEW l \in DOMAIN logger, NEW lev, NEW xs \in Seq(Extractors),
             NEW panics, NEW r \in Arguments, LogCall(h, l, lev, xs, panics, r)
      PROVE  Right(entry'[g], call'[g].layers, call'[g].level)
  <2>1. CASE h = g
    BY <1>2, <2>1, CallIsRight
  <2>2. CASE h # g
    <3>1. \E e : entry' = [entry EXCEPT ![h] = e]
      BY <1>2, LogCallIsQuiet, AssemblyKeepsMaps, Zenon DEF LogCall
    <3>2. \E c : call' = [call EXCEPT ![h] = c]
      BY <1>2, Zenon DEF LogCall
    <3>3. pc' = [pc EXCEPT ![h] = "middleware"]
      BY <1>2, Zenon DEF LogCall
    <3> QED
      BY <1>1, <2>2, <3>1, <3>2, <3>3 DEF ShapeInv
  <2> QED
    BY <2>1, <2>2
<1>3. ASSUME NEW h \in Goroutines, Log(h)
      PROVE  Right(entry'[g], call'[g].layers, call'[g].level)
  <2>1. <<>> \in Seq(Extractors)
    OBVIOUS
  <2> QED
    BY <1>2, <1>3, <2>1, Zenon DEF Log
<1>4. ASSUME NEW h \in Goroutines, LogContext(h)
      PROVE  Right(entry'[g], call'[g].layers, call'[g].level)
  <2>1. \A l \in DOMAIN logger : logger[l].extractors \in Seq(Extractors)
    BY DEF PersistInv, LoggerOK
  <2> QED
    BY <1>2, <1>4, <2>1, Zenon DEF LogContext
<1>5. ASSUME NEW h \in Goroutines, RunMiddleware(h) \/ Write(h)
      PROVE  Right(entry'[g], call'[g].layers, call'[g].level)
  BY <1>1, <1>5 DEF RunMiddleware, Write, ShapeInv
<1>6. CASE UNCHANGED <<pc, call, entry>>
  BY <1>1, <1>6
<1>7. ASSUME NEW p, NEW a, NEW xs, Derive(p, a, xs)
      PROVE  Right(entry'[g], call'[g].layers, call'[g].level)
  <2>1. UNCHANGED <<pc, call, fields, entry>>
    BY <1>7, Zenon DEF Derive
  <2> QED
    BY <1>6, <2>1
<1>8. ASSUME NEW a, CallerChange(a)
      PROVE  Right(entry'[g], call'[g].layers, call'[g].level)
  BY <1>6, <1>8 DEF CallerChange
<1>9. CASE UNCHANGED vars
  BY <1>6, <1>9 DEF vars
<1> QED
  BY <1>3, <1>4, <1>5, <1>7, <1>8, <1>9, Zenon DEF Next, With, WithContextExtractor

(* An entry has the fields of its call above those of the context and      *)
(* those given to With, whatever maps they share, its errors enriched, its *)
(* core keys the logger's own (With, mergeFields, writeEntry,              *)
(* enrichErrors).                                                          *)
THEOREM EntriesRight == Spec => []EntryRight
<1>1. Init => EntryRight
  BY DEF Init, EntryRight
<1> QED
  BY <1>1, ShapeInit, ShapeStep, PersistInit, PersistStep, RightStep, PTL DEF Spec

----
(* The other parts of an entry share no state with the fields, and have    *)
(* theorems of their own.  A behaviour of MCSpec is one of the part that   *)
(* it began with; the definitions of a part are the same in its proofs.    *)
SlogP == INSTANCE SlogHandlerProofs
NewP == INSTANCE OptionsProofs WITH logger <- config

mcvars == <<part, vars, slogVars, newVars, lineVars>>

(* A record has what its own handler was given, none of what another one   *)
(* was, under the keys and the level that Handle gives them, in any        *)
(* behaviour of MCSpec (SlogHandler.Handle).                               *)
THEOREM RecordsHandled == MCSpec => []Handled
<1>1. MCInit => SlogP!Init
  BY Zenon DEF MCInit, Slog!Init, SlogP!Init
<1>2. Slog!Next => SlogP!Next
  BY Zenon DEF Slog!Next, SlogP!Next, Slog!WithAttrs, SlogP!WithAttrs,
    Slog!WithGroup, SlogP!WithGroup, Slog!Handle, SlogP!Handle, Slog!StdLogger,
    SlogP!StdLogger, Slog!Level, SlogP!Level, Slog!SlogLevelToLevel,
    SlogP!SlogLevelToLevel, Slog!LevelToSlogLevel, SlogP!LevelToSlogLevel,
    Slog!Held, SlogP!Held, Slog!NewAttrs, SlogP!NewAttrs, Slog!Merged,
    SlogP!Merged, Slog!Collected, SlogP!Collected, Slog!Set, SlogP!Set,
    Slog!PrefixKey, SlogP!PrefixKey, Slog!FoldLeft, SlogP!FoldLeft,
    Slog!MapThenFoldSet, SlogP!MapThenFoldSet, Slog!Max, SlogP!Max, Slog!Range,
    SlogP!Range
<1>3. SlogP!Handled => Slog!Handled
  BY Zenon DEF Slog!Handled, SlogP!Handled, Slog!Level, SlogP!Level,
    Slog!LevelToSlogLevel, SlogP!LevelToSlogLevel, Slog!Max, SlogP!Max,
    Slog!Range, SlogP!Range
<1>4. part = "slog" /\ [MCNext]_mcvars => [SlogP!Next]_SlogP!vars /\ (part = "slog")'
  BY <1>2 DEF MCNext, mcvars, slogVars, SlogP!vars
<1>5. ~(part = "slog") /\ [MCNext]_mcvars => ~(part = "slog")'
  BY DEF MCNext, mcvars
<1>6. SlogP!Handled => Handled
  BY <1>3 DEF Handled
<1>7. ~(part = "slog") => Handled
  BY DEF Handled
<1>8. SlogP!Spec => []SlogP!Handled
  <2>1. SlogP!SlogAssumption
    BY EntriesAssumption DEF Slog!SlogAssumption, SlogP!SlogAssumption
  <2> QED
    BY <2>1, SlogP!RecordsHandled
<1> QED
  BY <1>1, <1>4, <1>5, <1>6, <1>7, <1>8, PTL DEF MCSpec, SlogP!Spec, mcvars

(* A logger is what its options, its environment and its writer say, in    *)
(* any order and however many, in any behaviour of MCSpec (New).           *)
THEOREM LoggerConfigured == MCSpec => []Configured
<1>1. MCInit /\ part = "new" => NewP!Init
  BY Zenon DEF MCInit, New!Init, NewP!Init, New!FATAL, NewP!FATAL
<1>2. New!Next => NewP!Next
  BY Zenon DEF New!Next, NewP!Next, New!Apply, NewP!Apply, New!WithHooks,
    NewP!WithHooks, New!Registered, NewP!Registered, New!WithMiddleware,
    NewP!WithMiddleware, New!WithRedactFields, NewP!WithRedactFields,
    New!WithFormatter, NewP!WithFormatter, New!FileIsTerminal,
    NewP!FileIsTerminal, New!Cardinality, NewP!Cardinality, New!WithAutoFormat,
    NewP!WithAutoFormat, New!WithEnvConfig, NewP!WithEnvConfig, New!Recognized,
    NewP!Recognized, New!ParseLevel, NewP!ParseLevel, New!LevelNames,
    NewP!LevelNames, New!INFO, NewP!INFO, New!FATAL, NewP!FATAL, New!WithCaller,
    NewP!WithCaller, New!WithFullCallerPath, NewP!WithFullCallerPath, New!Plain,
    NewP!Plain, New!WithOption, NewP!WithOption, New!Range, NewP!Range
<1>3. NewP!Configured => New!Configured
  BY Zenon DEF New!Configured, NewP!Configured, New!MiddlewareRight,
    NewP!MiddlewareRight, New!HooksRight, NewP!HooksRight, New!LevelRight,
    NewP!LevelRight, New!FormatterRight, NewP!FormatterRight, New!Among,
    NewP!Among, New!LastOf, NewP!LastOf, New!Chose, NewP!Chose, New!FlattenSeq,
    NewP!FlattenSeq, New!Max, NewP!Max, New!Range, NewP!Range, New!String,
    NewP!String, New!LevelNames, NewP!LevelNames, New!FATAL, NewP!FATAL, New!INFO,
    NewP!INFO, New!ParseLevel, NewP!ParseLevel, New!Recognized, NewP!Recognized,
    New!FileIsTerminal, NewP!FileIsTerminal, New!Cardinality, NewP!Cardinality
<1>4. part = "new" /\ [MCNext]_mcvars => [NewP!Next]_NewP!vars /\ (part = "new")'
  BY <1>2 DEF MCNext, mcvars, newVars, NewP!vars
<1>5. ~(part = "new") /\ [MCNext]_mcvars => ~(part = "new")'
  BY DEF MCNext, mcvars
<1>6. NewP!Configured => Configured
  BY <1>3 DEF Configured
<1>7. ~(part = "new") => Configured
  BY DEF Configured
<1>8. NewP!Spec => []NewP!Configured
  <2>1. NewP!OptionsAssumption
    BY EntriesAssumption DEF New!OptionsAssumption, NewP!OptionsAssumption
  <2> QED
    BY <2>1, NewP!LoggerConfigured
<1> QED
  BY <1>1, <1>4, <1>5, <1>6, <1>7, <1>8, PTL DEF MCSpec, NewP!Spec, mcvars

----
(* The formatters, likewise: each definition means the same in the proofs. *)
LinesP == INSTANCE FormattingProofs WITH entry <- values

LEMMA SameFlattenSeq == ASSUME NEW ss PROVE LinesP!FlattenSeq(ss) = Lines!FlattenSeq(ss)
BY Zenon DEF
    Lines!FlattenSeq, LinesP!FlattenSeq

LEMMA SameJoined == ASSUME NEW ss, NEW sep PROVE LinesP!Joined(ss, sep) = Lines!Joined(ss, sep)
BY Zenon DEF
    Lines!FlattenSeq, LinesP!FlattenSeq, Lines!Joined, LinesP!Joined

LEMMA SameSorted == ASSUME NEW keys PROVE LinesP!Sorted(keys) = Lines!Sorted(keys)
BY Zenon DEF
    Lines!Sorted, LinesP!Sorted, Lines!Cardinality, LinesP!Cardinality

LEMMA SameRuneSize ==
  ASSUME NEW s, NEW i PROVE LinesP!RuneSize(s, i) = Lines!RuneSize(s, i)
BY Zenon DEF
    Lines!RuneSize, LinesP!RuneSize, Lines!Rune, LinesP!Rune

LEMMA SameChar == LinesP!Char = Lines!Char
BY Zenon DEF LinesP!Char, Lines!Char

LEMMA SameEscape ==
  ASSUME NEW s, NEW i
  PROVE  LinesP!Escape(s, i) = Lines!Escape(s, i) /\ LinesP!After(s, i) = Lines!After(s, i)
<1>1. LinesP!RuneSize(s, i) = Lines!RuneSize(s, i)
  BY SameRuneSize
<1>2. LinesP!After(s, i) = Lines!After(s, i)
  BY <1>1, Zenon DEF LinesP!After, Lines!After
<1>3. LinesP!Escape(s, i) = Lines!Escape(s, i)
  BY <1>1, Zenon DEF
    Lines!Escape, LinesP!Escape, Lines!Short, LinesP!Short,
    Lines!HexDigit, LinesP!HexDigit, Lines!Char, LinesP!Char
<1> QED
  BY <1>2, <1>3

LEMMA SameJSONString == ASSUME NEW s PROVE LinesP!JSONString(s) = Lines!JSONString(s)
<1> DEFINE new(i) == LinesP!Escape(s, i)
           old(i) == Lines!Escape(s, i)
           newOn(i) == LinesP!After(s, i)
           oldOn(i) == Lines!After(s, i)
           F(g) == [i \in Nat \ {0} |-> IF i > Len(s) THEN <<>> ELSE new(i) \o g[newOn(i)]]
           G(g) == [i \in Nat \ {0} |-> IF i > Len(s) THEN <<>> ELSE old(i) \o g[oldOn(i)]]
           newWalk == (CHOOSE g : g = F(g))[1]
           oldWalk == (CHOOSE g : g = G(g))[1]
           quote == <<Lines!Char.quote>>
<1>1. LinesP!JSONString(s) = quote \o newWalk \o quote
  BY SameChar, Zenon DEF LinesP!JSONString, LinesP!Walk
<1>2. Lines!JSONString(s) = quote \o oldWalk \o quote
  BY Zenon DEF Lines!JSONString, Lines!Walk
<1>3. \A i : new(i) = old(i) /\ newOn(i) = oldOn(i)
  BY SameEscape
<1> HIDE DEF new, old, newOn, oldOn
<1>4. ASSUME NEW g PROVE F(g) = G(g)
  BY <1>3
<1> HIDE DEF F, G
<1>5. newWalk = oldWalk
  BY <1>4, Zenon
<1> HIDE DEF newWalk, oldWalk, quote
<1> QED
  BY <1>1, <1>2, <1>5, Zenon

LEMMA SameValid == ASSUME NEW s PROVE LinesP!Valid(s) = Lines!Valid(s)
<1> DEFINE old(i) == \/ s[i] < 128
                     \/ \E j \in 1 .. i : Lines!RuneSize(s, j) > 1 /\ i < j + Lines!RuneSize(s, j)
           new(i) == \/ s[i] < 128
                     \/ \E j \in 1 .. i : LinesP!RuneSize(s, j) > 1 /\ i < j + LinesP!RuneSize(s, j)
           kept(i) == <<s[i]>>
           lost == <<239, 191, 189>>
           parts == [i \in DOMAIN s |-> IF old(i) THEN kept(i) ELSE lost]
<1>1. ASSUME NEW i PROVE new(i) <=> old(i)
  <2>1. \A j : LinesP!RuneSize(s, j) = Lines!RuneSize(s, j)
    BY SameRuneSize
  <2> QED
    BY <2>1
<1>2. [i \in DOMAIN s |-> IF new(i) THEN kept(i) ELSE lost] = parts
  <2> HIDE DEF new, old, kept, lost
  <2> QED
    BY <1>1
<1>3. /\ Lines!Valid(s) = Lines!FlattenSeq(parts)
      /\ LinesP!Valid(s) = LinesP!FlattenSeq([i \in DOMAIN s |-> IF new(i) THEN kept(i) ELSE lost])
  BY Zenon DEF Lines!Valid, LinesP!Valid
<1> HIDE DEF new, old, kept, lost, parts
<1>4. LinesP!FlattenSeq(parts) = Lines!FlattenSeq(parts)
  BY SameFlattenSeq
<1> QED
  BY <1>2, <1>3, <1>4

LEMMA SameReadJSON == ASSUME NEW line PROVE LinesP!ReadJSON(line) = Lines!ReadJSON(line)
BY ZenonT(30) DEF
    Lines!ReadJSON, LinesP!ReadJSON, Lines!JSONStep, LinesP!JSONStep,
    Lines!Outside, LinesP!Outside, Lines!InString, LinesP!InString, Lines!Meant,
    LinesP!Meant, Lines!Digit, LinesP!Digit, Lines!AntiFunction,
    LinesP!AntiFunction, Lines!Inverse, LinesP!Inverse, Lines!Range,
    LinesP!Range, Lines!FoldLeft, LinesP!FoldLeft, Lines!MapThenFoldSet,
    LinesP!MapThenFoldSet, Lines!Max, LinesP!Max, Lines!Short, LinesP!Short,
    Lines!Char, LinesP!Char

LEMMA SameOrder == ASSUME NEW m PROVE LinesP!Order(m) = Lines!Order(m)
BY Zenon DEF
    Lines!Order, LinesP!Order, Lines!FlattenSeq, LinesP!FlattenSeq,
    Lines!Sorted, LinesP!Sorted, Lines!Range, LinesP!Range,
    Lines!Cardinality, LinesP!Cardinality

LEMMA SameLogfmtPair == ASSUME NEW k, NEW v PROVE LinesP!LogfmtPair(k, v) = Lines!LogfmtPair(k, v)
BY Zenon DEF
    Lines!LogfmtPair, LinesP!LogfmtPair, Lines!NeedsQuoting,
    LinesP!NeedsQuoting, Lines!Replaced, LinesP!Replaced, Lines!Range,
    LinesP!Range, Lines!Char, LinesP!Char, Lines!FlattenSeq,
    LinesP!FlattenSeq

LEMMA SameReadLogfmt == ASSUME NEW line PROVE LinesP!ReadLogfmt(line) = Lines!ReadLogfmt(line)
BY Zenon DEF
    Lines!ReadLogfmt, LinesP!ReadLogfmt, Lines!Reading, LinesP!Reading,
    Lines!PairEnd, LinesP!PairEnd, Lines!LogfmtStep, LinesP!LogfmtStep,
    Lines!Char, LinesP!Char, Lines!FoldLeft, LinesP!FoldLeft,
    Lines!MapThenFoldSet, LinesP!MapThenFoldSet, Lines!Max, LinesP!Max

LEMMA SameStripANSI == ASSUME NEW s PROVE LinesP!StripANSI(s) = Lines!StripANSI(s)
BY Zenon DEF
    Lines!StripANSI, LinesP!StripANSI, Lines!Walk, LinesP!Walk, Lines!Shown,
    LinesP!Shown, Lines!Past, LinesP!Past, Lines!Opens, LinesP!Opens,
    Lines!Ends, LinesP!Ends, Lines!Min, LinesP!Min, Lines!Char, LinesP!Char

LEMMA SameReplaced ==
  ASSUME NEW s, NEW b, NEW by PROVE LinesP!Replaced(s, b, by) = Lines!Replaced(s, b, by)
BY Zenon DEF
    Lines!Replaced, LinesP!Replaced, Lines!FlattenSeq, LinesP!FlattenSeq

LEMMA SameSanitizeText == ASSUME NEW s PROVE LinesP!SanitizeText(s) = Lines!SanitizeText(s)
<1> DEFINE strip == Lines!StripANSI(s)
           nl == <<Lines!Char.backslash, Lines!Char.n>>
           cr == <<Lines!Char.backslash, Lines!Char.r>>
           first == Lines!Replaced(strip, Lines!Char.nl, nl)
<1>1. Lines!SanitizeText(s) = Lines!Replaced(first, Lines!Char.cr, cr)
  BY Zenon DEF Lines!SanitizeText
<1>2. LinesP!SanitizeText(s) =
        LinesP!Replaced(LinesP!Replaced(strip, Lines!Char.nl, nl), Lines!Char.cr, cr)
  BY SameStripANSI, SameChar, Zenon DEF LinesP!SanitizeText
<1>3. LinesP!Replaced(strip, Lines!Char.nl, nl) = first
  BY SameReplaced
<1> HIDE DEF first, nl, cr, strip
<1>4. LinesP!Replaced(first, Lines!Char.cr, cr) = Lines!Replaced(first, Lines!Char.cr, cr)
  BY SameReplaced
<1> QED
  BY <1>1, <1>2, <1>3, <1>4

LEMMA SamePlain == ASSUME NEW s PROVE LinesP!Plain(s) = Lines!Plain(s)
BY Zenon DEF
    Lines!Plain, LinesP!Plain, Lines!Opens, LinesP!Opens, Lines!Ends,
    LinesP!Ends, Lines!FlattenSeq, LinesP!FlattenSeq, Lines!Char,
    LinesP!Char

LEMMA SameNestedEscape == ASSUME NEW s PROVE LinesP!NestedEscape(s) <=> Lines!NestedEscape(s)
BY Zenon DEF
    Lines!NestedEscape, LinesP!NestedEscape, Lines!Opens, LinesP!Opens,
    Lines!Ends, LinesP!Ends, Lines!Char, LinesP!Char

LEMMA SameJSONLine == ASSUME NEW m PROVE LinesP!JSONLine(m) = Lines!JSONLine(m)
<1> DEFINE keys == Lines!Sorted(DOMAIN m)
           new(i) == LinesP!JSONPair(keys[i], m[keys[i]])
           old(i) == Lines!JSONPair(keys[i], m[keys[i]])
           pairs == [i \in DOMAIN keys |-> old(i)]
<1>1. LinesP!Sorted(DOMAIN m) = keys
  BY SameSorted
<1>2. ASSUME NEW k, NEW v PROVE LinesP!JSONPair(k, v) = Lines!JSONPair(k, v)
  <2>1. LinesP!JSONString(<<k>>) = Lines!JSONString(<<k>>) /\ LinesP!JSONString(v) = Lines!JSONString(v)
    BY SameJSONString
  <2> QED
    BY <2>1, Zenon DEF LinesP!JSONPair, Lines!JSONPair, LinesP!Char, Lines!Char
<1>3. \A i : new(i) = old(i)
  BY <1>2
<1> HIDE DEF keys
<1>4. [i \in DOMAIN keys |-> new(i)] = pairs
  <2> HIDE DEF new, old
  <2> QED
    BY <1>3
<1>5. LinesP!JSONLine(m) = <<123>> \o LinesP!Joined([i \in DOMAIN keys |-> new(i)], <<44>>) \o <<125>>
  BY <1>1, Zenon, LinesP!CharIs DEF LinesP!JSONLine
<1>6. Lines!JSONLine(m) = <<123>> \o Lines!Joined(pairs, <<44>>) \o <<125>>
  BY Zenon, LinesP!CharIs DEF Lines!JSONLine, keys, Lines!Char, LinesP!Char
<1> HIDE DEF new, old, pairs
<1>7. LinesP!Joined(pairs, <<44>>) = Lines!Joined(pairs, <<44>>)
  BY SameJoined
<1> QED
  BY <1>4, <1>5, <1>6, <1>7, Zenon

LEMMA SameJSONRight == ASSUME NEW m, LinesP!JSONRight(m) PROVE Lines!JSONRight(m)
<1> DEFINE keys == Lines!Sorted(DOMAIN m)
           line == Lines!JSONLine(m)
           new(i) == <<LinesP!Valid(<<keys[i]>>), LinesP!Valid(m[keys[i]])>>
           old(i) == <<Lines!Valid(<<keys[i]>>), Lines!Valid(m[keys[i]])>>
           texts == [i \in DOMAIN keys |-> old(i)]
           colons == [i \in DOMAIN keys |-> <<Lines!Char.colon>>]
<1>1. LinesP!Sorted(DOMAIN m) = keys /\ LinesP!JSONLine(m) = line
  BY SameSorted, SameJSONLine
<1>2. LinesP!ReadJSON(line) = Lines!ReadJSON(line)
  BY SameReadJSON
<1>3. \A i : new(i) = old(i)
  BY SameValid
<1>4. [i \in DOMAIN keys |-> new(i)] = texts
  <2> HIDE DEF new, old, keys
  <2> QED
    BY <1>3
<1>5. LinesP!FlattenSeq(texts) = Lines!FlattenSeq(texts)
  BY SameFlattenSeq
<1>6. LinesP!Joined(colons, <<Lines!Char.comma>>) = Lines!Joined(colons, <<Lines!Char.comma>>)
  BY SameJoined
<1>7. LinesP!Char = Lines!Char
  BY Zenon DEF LinesP!Char, Lines!Char
<1>8. /\ \A b \in LinesP!Range(line) : b >= 32
      /\ LinesP!ReadJSON(line).rest = <<LinesP!Char.brace>>
           \o LinesP!Joined([i \in DOMAIN keys |-> <<LinesP!Char.colon>>], <<LinesP!Char.comma>>)
           \o <<LinesP!Char.unbrace>>
      /\ LinesP!ReadJSON(line).strings = LinesP!FlattenSeq([i \in DOMAIN keys |-> new(i)])
  <2> HIDE DEF keys, line
  <2> QED
    BY <1>1, Zenon DEF LinesP!JSONRight
<1>9. /\ \A b \in Lines!Range(line) : b >= 32
      /\ Lines!ReadJSON(line).rest = <<Lines!Char.brace>> \o Lines!Joined(colons, <<Lines!Char.comma>>)
                                       \o <<Lines!Char.unbrace>>
      /\ Lines!ReadJSON(line).strings = Lines!FlattenSeq(texts)
  <2>1. LinesP!Range(line) = Lines!Range(line)
    BY Zenon DEF LinesP!Range, Lines!Range
  <2> QED
    BY <1>2, <1>4, <1>5, <1>6, <1>7, <1>8, <2>1, Zenon
<1> QED
  BY <1>9, Zenon DEF Lines!JSONRight

LEMMA SameLogfmtRight == ASSUME NEW m, LinesP!LogfmtRight(m) PROVE Lines!LogfmtRight(m)
<1> DEFINE ord == Lines!Order(m)
           new(i) == LinesP!LogfmtPair(ord[i], m[ord[i]])
           old(i) == Lines!LogfmtPair(ord[i], m[ord[i]])
           pairs == [i \in DOMAIN ord |-> old(i)]
           line == Lines!LogfmtLine(m)
<1>1. LinesP!Order(m) = ord
  BY SameOrder
<1>2. \A i : new(i) = old(i)
  BY SameLogfmtPair
<1>3. LinesP!Char = Lines!Char
  BY Zenon DEF LinesP!Char, Lines!Char
<1>4. LinesP!LogfmtLine(m) = line
  <2>1. [i \in DOMAIN ord |-> new(i)] = pairs
    <3> HIDE DEF new, old, ord
    <3> QED
      BY <1>2
  <2>2. LinesP!Joined(pairs, <<Lines!Char.space>>) = Lines!Joined(pairs, <<Lines!Char.space>>)
    BY SameJoined
  <2>3. LinesP!LogfmtLine(m) = LinesP!Joined([i \in DOMAIN ord |-> new(i)], <<LinesP!Char.space>>)
    <3> HIDE DEF ord
    <3> QED
      BY <1>1, Zenon DEF LinesP!LogfmtLine
  <2>4. line = Lines!Joined(pairs, <<Lines!Char.space>>)
    BY Zenon DEF Lines!LogfmtLine
  <2> QED
    BY <1>3, <2>1, <2>2, <2>3, <2>4, Zenon
<1>5. LinesP!ReadLogfmt(line) = Lines!ReadLogfmt(line)
  BY SameReadLogfmt
<1> DEFINE plainNew == \A k \in DOMAIN m : /\ k \notin {LinesP!Char.space, LinesP!Char.equals}
                                           /\ LinesP!Char.backslash \notin LinesP!Range(m[k])
           plainOld == \A k \in DOMAIN m : /\ k \notin {Lines!Char.space, Lines!Char.equals}
                                           /\ Lines!Char.backslash \notin Lines!Range(m[k])
<1>6. plainOld => plainNew
  BY <1>3, Zenon DEF Lines!Range, LinesP!Range
<1> HIDE DEF line, ord
<1>7. plainNew => LinesP!ReadLogfmt(line) = [i \in DOMAIN ord |-> <<<<ord[i]>>, m[ord[i]]>>]
  BY <1>1, <1>4, Zenon DEF LinesP!LogfmtRight
<1>8. plainOld => Lines!ReadLogfmt(line) = [i \in DOMAIN ord |-> <<<<ord[i]>>, m[ord[i]]>>]
  BY <1>5, <1>6, <1>7, Zenon
<1> QED
  BY <1>8, Zenon DEF Lines!LogfmtRight, line, ord

LEMMA SameRunes == ASSUME NEW s PROVE LinesP!Runes(s) = Lines!Runes(s)
<1>1. {i \in DOMAIN s : \A j \in 1 .. i - 1 : i >= j + LinesP!RuneSize(s, j)}
        = {i \in DOMAIN s : \A j \in 1 .. i - 1 : i >= j + Lines!RuneSize(s, j)}
  BY SameRuneSize
<1> QED
  BY <1>1, Zenon DEF LinesP!Runes, Lines!Runes, LinesP!Cardinality, Lines!Cardinality

LEMMA SameTextRight == ASSUME NEW m, LinesP!TextRight(m) PROVE Lines!TextRight(m)
<1> DEFINE value(k) == IF k \in DOMAIN m THEN m[k] ELSE <<>>
           level == value(Lines!Level) \o [i \in 1 .. 7 - Lines!Runes(value(Lines!Level)) |-> Lines!Char.space]
           place == <<Lines!Char.bracket>> \o value(Lines!File) \o <<Lines!Char.closing>>
           core(message) == <<value(Lines!Time), level, place, message>>
           others == DOMAIN m \ Lines!Range(CoreOrder)
           extras == Lines!Sorted(others)
           new(i) == LinesP!TextField(extras[i], m[extras[i]])
           old(i) == Lines!TextField(extras[i], m[extras[i]])
           more == [i \in DOMAIN extras |-> old(i)]
           message == Lines!SanitizeText(value(Lines!Message))
           gap == <<Lines!Char.space>>
           line == Lines!TextLine(m)
<1>1. LinesP!Sorted(others) = extras
  BY SameSorted
<1>2. LinesP!Char = Lines!Char
  BY Zenon DEF LinesP!Char, Lines!Char
<1>3. \A i : new(i) = old(i)
  <2> SUFFICES ASSUME NEW k, NEW v PROVE LinesP!TextField(k, v) = Lines!TextField(k, v)
    OBVIOUS
  <2>1. LinesP!SanitizeText(v) = Lines!SanitizeText(v)
    BY SameSanitizeText
  <2> QED
    BY <1>2, <2>1, Zenon DEF LinesP!TextField, Lines!TextField
<1>4. [i \in DOMAIN extras |-> new(i)] = more
  <2> HIDE DEF new, old, extras
  <2> QED
    BY <1>3
<1>5. LinesP!SanitizeText(value(Lines!Message)) = message
  BY SameSanitizeText
<1>6. /\ LinesP!Joined(core(message), gap) = Lines!Joined(core(message), gap)
      /\ LinesP!Joined(more, <<>>) = Lines!Joined(more, <<>>)
  BY SameJoined
<1> DEFINE padded == value(Lines!Level)
                       \o [i \in 1 .. 7 - LinesP!Runes(value(Lines!Level)) |-> Lines!Char.space]
           extra == LinesP!Joined([i \in DOMAIN LinesP!Sorted(others) |->
                      LinesP!TextField(LinesP!Sorted(others)[i], m[LinesP!Sorted(others)[i]])], <<>>)
           sanitized == LinesP!SanitizeText(value(Lines!Message))
<1>7. padded = level
  BY SameRunes
<1>8. LinesP!TextLine(m) = LinesP!Joined(<<value(Lines!Time), padded, place, sanitized>>, gap) \o extra
  BY Zenon DEF LinesP!TextLine, LinesP!Char, Lines!Char, LinesP!Range, Lines!Range,
    LinesP!Time, Lines!Time, LinesP!Level, Lines!Level, LinesP!File, Lines!File,
    LinesP!Message, Lines!Message
<1>9. line = Lines!Joined(core(message), gap) \o Lines!Joined(more, <<>>)
  BY Zenon DEF Lines!TextLine
<1> HIDE DEF core, gap, value, others, extras
<1>10. LinesP!TextLine(m) = line
  <2>1. LinesP!TextLine(m) = LinesP!Joined(core(message), gap)
                               \o LinesP!Joined([i \in DOMAIN extras |-> new(i)], <<>>)
    BY <1>1, <1>5, <1>7, <1>8, Zenon DEF core
  <2> HIDE DEF new, more, line, message
  <2> QED
    BY <1>4, <1>6, <1>9, <2>1, Zenon
<1>11. Lines!Range(line) \intersect {Lines!Char.nl, Lines!Char.cr} \subseteq Lines!Raw(m)
  <2>1. LinesP!Raw(m) = Lines!Raw(m)
    BY Zenon DEF LinesP!Raw, Lines!Raw, LinesP!Range, Lines!Range,
      LinesP!Time, Lines!Time, LinesP!Level, Lines!Level, LinesP!File, Lines!File
  <2> HIDE DEF line
  <2>2. LinesP!Range(line) \intersect {LinesP!Char.nl, LinesP!Char.cr} \subseteq LinesP!Raw(m)
    BY <1>10, Zenon DEF LinesP!TextRight
  <2>3. LinesP!Range(line) = Lines!Range(line)
    BY Zenon DEF LinesP!Range, Lines!Range
  <2> QED
    BY <1>2, <2>1, <2>2, <2>3, Zenon
<1>12. ASSUME NEW k \in DOMAIN m, ~Lines!NestedEscape(m[k])
       PROVE  Lines!StripANSI(m[k]) = Lines!Plain(m[k])
  <2>1. ~LinesP!NestedEscape(m[k])
    BY <1>12, SameNestedEscape, Zenon
  <2>2. LinesP!StripANSI(m[k]) = LinesP!Plain(m[k])
    BY <2>1, Zenon DEF LinesP!TextRight
  <2>3. LinesP!StripANSI(m[k]) = Lines!StripANSI(m[k]) /\ LinesP!Plain(m[k]) = Lines!Plain(m[k])
    BY SameStripANSI, SamePlain
  <2> QED
    BY <2>2, <2>3
<1>13. ASSUME NEW k \in DOMAIN m,
              \A i \in DOMAIN m[k] : m[k][i] = Lines!Char.esc => Lines!Opens(m[k], i)
       PROVE  Lines!Char.esc \notin Lines!Range(Lines!StripANSI(m[k]))
  <2>1. \A i \in DOMAIN m[k] : LinesP!Opens(m[k], i) <=> Lines!Opens(m[k], i)
    BY <1>2, Zenon DEF LinesP!Opens, Lines!Opens
  <2>2. \A i \in DOMAIN m[k] : m[k][i] = LinesP!Char.esc => LinesP!Opens(m[k], i)
    BY <1>2, <1>13, <2>1, Zenon
  <2>3. LinesP!Char.esc \notin LinesP!Range(LinesP!StripANSI(m[k]))
    BY <2>2, Zenon DEF LinesP!TextRight
  <2>4. LinesP!StripANSI(m[k]) = Lines!StripANSI(m[k])
    BY SameStripANSI
  <2> QED
    BY <1>2, <2>3, <2>4, Zenon DEF LinesP!Range, Lines!Range
<1> QED
  BY <1>11, <1>12, <1>13, Zenon DEF Lines!TextRight

LEMMA SameEncoded == ASSUME LinesP!Encoded PROVE Lines!Encoded
<1>1. LinesP!Remapped = Lines!Remapped
  BY Zenon DEF
      Lines!Remapped, LinesP!Remapped, Lines!Renamed, LinesP!Renamed,
      Lines!Holders, LinesP!Holders, Lines!Cardinality, LinesP!Cardinality
<1>2. ASSUME NEW m \in Lines!Remapped, NEW k \in DOMAIN values, Lines!Holders(Lines!Renamed(k)) = {k}
      PROVE  m[Lines!Renamed(k)] = values[k]
  <2>1. /\ LinesP!Renamed(k) = Lines!Renamed(k)
        /\ LinesP!Holders(LinesP!Renamed(k)) = Lines!Holders(Lines!Renamed(k))
    BY Zenon DEF LinesP!Renamed, Lines!Renamed, LinesP!Holders, Lines!Holders
  <2> QED
    BY <1>1, <1>2, <2>1, Zenon DEF LinesP!Encoded
<1>3. ASSUME NEW m \in Lines!Remapped
      PROVE  Lines!JSONRight(m) /\ Lines!LogfmtRight(m) /\ Lines!TextRight(m)
  <2>1. LinesP!JSONRight(m) /\ LinesP!LogfmtRight(m) /\ LinesP!TextRight(m)
    BY <1>1, Zenon DEF LinesP!Encoded
  <2> QED
    BY <2>1, SameJSONRight, SameLogfmtRight, SameTextRight
<1> QED
  BY <1>2, <1>3, Zenon DEF Lines!Encoded

(* A line reads back as its entry in any behaviour of MCSpec, whatever the *)
(* bytes and however many (Formatter.Format).                              *)
THEOREM EntriesEncoded == MCSpec => []Encoded
<1>1. MCInit /\ part = "lines" => LinesP!Init
  BY Zenon DEF MCInit, Lines!Init, LinesP!Init, Lines!Grown, LinesP!Grown,
    Lines!Message, LinesP!Message, Lines!Range, LinesP!Range
<1>2. Lines!Next => LinesP!Next
  BY Zenon DEF Lines!Next, LinesP!Next, Lines!Grow, LinesP!Grow, Lines!Size,
    LinesP!Size, Lines!Grown, LinesP!Grown, Lines!Message, LinesP!Message,
    Lines!SumFunction, LinesP!SumFunction, Lines!SumFunctionOnSet,
    LinesP!SumFunctionOnSet, Lines!FoldFunctionOnSet,
    LinesP!FoldFunctionOnSet, Lines!MapThenFoldSet, LinesP!MapThenFoldSet
<1>3. LinesP!Encoded => Lines!Encoded
  BY SameEncoded
<1>4. part = "lines" /\ [MCNext]_mcvars => [LinesP!Next]_LinesP!vars /\ (part = "lines")'
  BY <1>2 DEF MCNext, mcvars, lineVars, LinesP!vars
<1>5. ~(part = "lines") /\ [MCNext]_mcvars => ~(part = "lines")'
  BY DEF MCNext, mcvars
<1>6. LinesP!Encoded => Encoded
  BY <1>3 DEF Encoded
<1>7. ~(part = "lines") => Encoded
  BY DEF Encoded
<1>8. LinesP!Spec => []LinesP!Encoded
  <2>1. LinesP!FormattingAssumption
    BY EntriesAssumption, Zenon DEF EntriesAssumption,
      Lines!FormattingAssumption, LinesP!FormattingAssumption, Lines!Keys,
      LinesP!Keys, Lines!Char, LinesP!Char, Lines!Message, LinesP!Message,
      Lines!Time, LinesP!Time, Lines!Level, LinesP!Level, Lines!File,
      LinesP!File, Lines!Range, LinesP!Range
  <2> QED
    BY <2>1, LinesP!AllEncoded
<1> QED
  BY <1>1, <1>4, <1>5, <1>6, <1>7, <1>8, PTL DEF MCSpec, LinesP!Spec, mcvars
====
