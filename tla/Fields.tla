---- MODULE Fields ----
(***************************************************************************)
(* What becomes of the fields of a log call before the entry is encoded:   *)
(* With and the merging of field maps (logger.go), typed fields (field.go), *)
(* LogValuers, errors (errors.go), reserved keys and redaction (redact.go). *)
(*                                                                         *)
(* Maps are Go maps: shared, and changed in place.  heap holds those that  *)
(* outlive a call: maps of callers, with the maps nested in them, and maps *)
(* that loggers made.  Several goroutines log through the same loggers,    *)
(* and none of this happens under the logger's mutex.                      *)
(*                                                                         *)
(* A key is the sequence of the parts it was put together from, so that    *)
(* <<"err", "_type">> is the key err_type, whoever wrote it.               *)
(*                                                                         *)
(* X_Fault, just before X, is X with a plausible bug in it.                *)
(***************************************************************************)
EXTENDS Naturals, Sequences, FiniteSets, SequencesExt

CONSTANTS
  Goroutines,
  Callers,    \* field maps that belong to callers and extractors
  Groups,     \* maps nested in those, or made by Group
  Given,      \* the contents each of them may have; the first is the initial
  Typed,      \* sequences of typed fields, as <<key, value>>
  Nil, Own,   \* the nil map; a map that only one call can see
  Extractors, \* context extractors
  Returns,    \* the map each of them returns
  Listed,     \* the keys named to WithRedactFields
  Levels,     \* of the calls, of "INFO" and "ERROR"
  Options,    \* of "caller", "identity", "eventID" and "stackTrace"
  MaxLoggers  \* bound on the loggers made, the root included

(* Maps of different origin are different maps.                            *)
ASSUME MapsAssumption ==
  /\ MaxLoggers \in Nat
  /\ Groups \intersect (Callers \union {Nil, Own} \union 1 .. MaxLoggers) = {}
  /\ (Callers \union {Nil}) \intersect 1 .. MaxLoggers = {} /\ Nil \notin Callers
  /\ Own \notin Callers \union {Nil} \union 1 .. MaxLoggers

VARIABLES
  heap,    \* heap[a] is the content of the map at a
  logger,  \* the loggers, the root first
  pc,      \* "idle", "middleware" or "format"
  call,    \* history: level of the call of each goroutine, and what it was given
  fields,  \* the fields of its entry: a map of the heap or one of its own
  entry    \* the entry, a map of its own

vars == <<heap, logger, pc, call, fields, entry>>

Maps == Callers \union Groups
Addrs == Maps \union {Nil} \union 1 .. MaxLoggers

----
(* Values.  A LogValuer gives its value up after depth calls of LogValue.  *)
Plain(x)      == [kind |-> "plain", is |-> x]
Failure(x)    == [kind |-> "error", is |-> x, wraps |-> FALSE]
Wrapping(x)   == [kind |-> "error", is |-> x, wraps |-> TRUE]
Valuer(d, v)  == [kind |-> "valuer", depth |-> d, to |-> v]
Map(a)        == [kind |-> "map", at |-> a]
Text(part, v) == [kind |-> part, of |-> v.is]  \* "message", "type" or "chain"
Core(k)       == [kind |-> "core", is |-> k]
Replacement   == [kind |-> "replacement"]

Key(k) == <<k>>
ReservedKeys == {Key(k) : k \in {"time", "level", "message", "file", "service",
                   "version", "env", "host", "event_id", "stacktrace"}}

(* A field map a call works on: at Own its content is its own business.    *)
Shared(a)  == [at |-> a, map |-> <<>>]
Private(m) == [at |-> Own, map |-> m]
Content(r) == IF r.at = Own THEN r.map ELSE heap[r.at]

(* Maps have keys for their domain, and are what extractors return.        *)
IsKey(k) == k \in Seq(Range(k))
ASSUME KeysAssumption ==
  /\ \A a \in Maps : 1 \in DOMAIN Given[a]
                     /\ \A i \in DOMAIN Given[a] : \A k \in DOMAIN Given[a][i] : IsKey(k)
  /\ \A s \in Typed : \A i \in DOMAIN s : IsKey(s[i][1])
  /\ Returns \in [Extractors -> Callers \union {Nil}]

Overlay(base, over) == [k \in DOMAIN base \union DOMAIN over |->
                          IF k \in DOMAIN over THEN over[k] ELSE base[k]]

(* mergeFields gives back one of its arguments when the other is empty.    *)
MergeFields(base, over) ==
  IF DOMAIN Content(base) = {} THEN over
  ELSE IF DOMAIN Content(over) = {} THEN base
  ELSE Private(Overlay(Content(base), Content(over)))

(* fieldsToMap: nil without fields; a key given twice has its last value.  *)
FieldsToMap(s) ==
  IF s = <<>> THEN Shared(Nil)
  ELSE Private([k \in {s[i][1] : i \in DOMAIN s} |->
                  s[Max({i \in DOMAIN s : s[i][1] = k})][2]])

----
NoCall == [level |-> "INFO", layers |-> <<>>]

Init == /\ heap = [a \in Addrs |-> IF a \in Maps THEN Given[a][1] ELSE <<>>]
        /\ logger = <<[fields |-> Nil, extractors |-> <<>>, given |-> <<>>]>>
        /\ pc = [g \in Goroutines |-> "idle"]
        /\ call = [g \in Goroutines |-> NoCall]
        /\ fields = [g \in Goroutines |-> Shared(Nil)]
        /\ entry = [g \in Goroutines |-> <<>>]

(* What logger l was given by With, map by map; one that holds on to a map *)
(* of its caller has what the caller has put there.                        *)
Persistent(l) == IF logger[l].fields \in Callers THEN <<heap[logger[l].fields]>>
                 ELSE logger[l].given

(* With makes logger l with the fields of p and those at a.  A merged map  *)
(* is a new one, which the heap keeps under the logger that made it.       *)
Derive(p, a, extractors) ==
  LET l == Len(logger) + 1
      merged == MergeFields(Shared(logger[p].fields), Shared(a))
      home == IF merged.at = Own THEN l ELSE merged.at
  IN /\ l <= MaxLoggers
     /\ logger' = Append(logger, [fields |-> home, extractors |-> extractors,
                                  given |-> Append(Persistent(p), heap[a])])
     /\ heap' = IF merged.at = Own THEN [heap EXCEPT ![home] = merged.map] ELSE heap
     /\ UNCHANGED <<pc, call, fields, entry>>

With(p, a) == Derive(p, a, logger[p].extractors)

WithContextExtractor(p, x) == Derive(p, Nil, Append(logger[p].extractors, x))

----
(* resolveLogValuers asks at most eleven times, and works on a copy.       *)
MaxAsked == 11
Resolved(v) == IF v.kind # "valuer" THEN v
               ELSE IF v.depth <= MaxAsked THEN v.to
               ELSE [v EXCEPT !.depth = @ - MaxAsked]

(* enrichErrors copies the map, and writes under the key of each error its *)
(* message, its type and, when it wraps another, its chain.  Keys may      *)
(* collide; the map is visited in any order, so any writer may be the last.*)
AnyWriter(writers) ==
  LET met == {k \in DOMAIN writers : Cardinality(writers[k]) > 1}
      last == {c \in [met -> UNION {writers[k] : k \in met}] :
                 \A k \in met : c[k] \in writers[k]}
  IN {[k \in DOMAIN writers |-> IF k \in met THEN c[k] ELSE CHOOSE v \in writers[k] : TRUE]
        : c \in last}

Errors(m) == {k \in DOMAIN m : m[k].kind = "error"}
Wrappers(m) == {k \in Errors(m) : m[k].wraps}

Enrichments(m) ==
  LET enriched == Errors(m) \union {e \o Key("_type") : e \in Errors(m)}
                    \union {e \o Key("_chain") : e \in Wrappers(m)}
  IN {Overlay(m, w) : w \in AnyWriter([k \in enriched |->
        {Text("message", m[e]) : e \in {e \in Errors(m) : e = k}}
          \union {Text("type", m[e]) : e \in {e \in Errors(m) : e \o Key("_type") = k}}
          \union {Text("chain", m[e]) : e \in {e \in Wrappers(m) : e \o Key("_chain") = k}}])}

Copied_Shared(r) == r
Copied(r) == Private(Content(r))

(* A user field under a reserved key moves under "fields." and may collide *)
(* there; the last to be placed stays.                                     *)
Place(k) == IF k \in ReservedKeys THEN Key("fields.") \o k ELSE k

Placements(m) == AnyWriter([q \in {Place(k) : k \in DOMAIN m} |->
                              {m[k] : k \in {k \in DOMAIN m : Place(k) = q}}])

CoreKeys(lev) ==
  {Key(k) : k \in {"time", "level", "message"}
     \union (IF "caller" \in Options THEN {"file"} ELSE {})
     \union (IF "identity" \in Options THEN {"service", "version", "env", "host"} ELSE {})
     \union (IF "eventID" \in Options THEN {"event_id"} ELSE {})
     \union (IF "stackTrace" \in Options /\ lev = "ERROR" THEN {"stacktrace"} ELSE {})}

(* The first part of writeEntry, up to the middleware.                     *)
Assemble(g, lev, r) ==
  LET given == Content(r)
      resolved == [k \in DOMAIN given |-> Resolved(given[k])]
      target == IF resolved # given \/ Errors(resolved) # {} THEN Copied(r) ELSE r
  IN \E m \in Enrichments(resolved) :
       /\ fields' = [fields EXCEPT ![g] = IF target.at = Own THEN Private(m) ELSE target]
       /\ heap' = IF target.at = Own THEN heap ELSE [heap EXCEPT ![target.at] = m]
       /\ \E placed \in Placements(m) :
            entry' = [entry EXCEPT ![g] =
                        Overlay([k \in CoreKeys(lev) |-> Core(k)], placed)]

----
(* The extractors run in the order of their registration; one that panics  *)
(* adds nothing.                                                           *)
Gather(m, x, panics) == IF x \in panics THEN m ELSE MergeFields(m, Shared(Returns[x]))
Extracted(xs, panics) == FoldLeft(LAMBDA m, x : Gather(m, x, panics), Shared(Nil), xs)

Precedence_Swapped(persistent, ctx, own) == MergeFields(persistent, MergeFields(own, ctx))
Precedence(persistent, ctx, own) == MergeFields(persistent, MergeFields(ctx, own))

(* History: what each extractor adds.                                      *)
Adds(xs, panics) ==
  [i \in DOMAIN xs |-> IF xs[i] \in panics THEN <<>> ELSE heap[Returns[xs[i]]]]

(* A call of level lev through logger l with the fields at r, xs being the *)
(* extractors that run.                                                    *)
LogCall(g, l, lev, xs, panics, r) ==
  /\ pc[g] = "idle"
  /\ Assemble(g, lev, Precedence(Shared(logger[l].fields), Extracted(xs, panics), r))
  /\ call' = [call EXCEPT ![g] =
       [level |-> lev,
        layers |-> Persistent(l) \o Adds(xs, panics) \o <<Content(r)>>]]
  /\ pc' = [pc EXCEPT ![g] = "middleware"]
  /\ UNCHANGED logger

(* What a call can be given: a map of the caller's, typed fields, nothing, *)
(* or the duration that the function returned by Timed logs.               *)
TimedFields == Private([k \in {Key("duration_ms")} |-> Plain("elapsed")])
Arguments == {Shared(a) : a \in Callers \union {Nil}}
               \union {FieldsToMap(s) : s \in Typed} \union {TimedFields}

Log(g) == \E l \in DOMAIN logger, lev \in Levels, r \in Arguments :
            LogCall(g, l, lev, <<>>, {}, r)

LogContext(g) ==
  \E l \in DOMAIN logger, lev \in Levels, r \in Arguments :
    \E panics \in SUBSET Range(logger[l].extractors) :
      LogCall(g, l, lev, logger[l].extractors, panics, r)

----
(* redactMap replaces the listed keys and descends into the maps under the *)
(* others; the nested maps are those of the caller.                        *)
Redact(m) == [k \in DOMAIN m |-> IF k \in Listed THEN Replacement ELSE m[k]]

Nested(m) == {a \in Groups : \E k \in DOMAIN m : m[k] = Map(a)}
Open(m) == Nested([k \in DOMAIN m \ Listed |-> m[k]])

(* The maps it gets to, and no others. *)
Reach(m) ==
  {a \in Groups : \A S \in SUBSET Groups :
     (Open(m) \subseteq S /\ \A b \in S : Open(heap[b]) \subseteq S) => a \in S}

RedactReach_Shallow(m) == {}
RedactReach(m) == Reach(m)

RunMiddleware(g) ==
  /\ pc[g] = "middleware"
  /\ heap' = [a \in Addrs |-> IF a \in RedactReach(entry[g]) THEN Redact(heap[a]) ELSE heap[a]]
  /\ entry' = [entry EXCEPT ![g] = Redact(@)]
  /\ pc' = [pc EXCEPT ![g] = "format"]
  /\ UNCHANGED <<logger, call, fields>>

(* The formatter reads the entry and what is nested in it.  Whether it     *)
(* encodes them or fails, and an ERROR line goes out in their place, the   *)
(* call does nothing more to any map; the locked write and the hooks, which *)
(* are shown fields, are Logger's.                                         *)
Write(g) ==
  /\ pc[g] = "format"
  /\ pc' = [pc EXCEPT ![g] = "idle"]
  /\ call' = [call EXCEPT ![g] = NoCall]
  /\ fields' = [fields EXCEPT ![g] = Shared(Nil)]
  /\ entry' = [entry EXCEPT ![g] = <<>>]
  /\ UNCHANGED <<heap, logger>>

(* A caller uses one of its maps anew, while no call is under way.  It may *)
(* have given the map to With.                                             *)
CallerChange(a) ==
  /\ \A g \in Goroutines : pc[g] = "idle"
  /\ \E i \in DOMAIN Given[a] : heap' = [heap EXCEPT ![a] = Given[a][i]]
  /\ UNCHANGED <<logger, pc, call, fields, entry>>

Next == \/ \E p \in DOMAIN logger, a \in Callers \union {Nil} : With(p, a)
        \/ \E p \in DOMAIN logger, x \in Extractors : WithContextExtractor(p, x)
        \/ \E g \in Goroutines : Log(g) \/ LogContext(g) \/ RunMiddleware(g) \/ Write(g)
        \/ \E a \in Maps : CallerChange(a)

Spec == Init /\ [][Next]_vars

----
(* An assembled entry has the core keys with the logger's own values, no   *)
(* other reserved key, and under each user key the value that takes        *)
(* precedence: of the call, else of the latest extractor that has it, else *)
(* of the latest With.  Of a user key that an error derives as well nothing *)
(* is said here (see PlainKept), nor of the value under a key a reserved   *)
(* one has moved to.                                                       *)
Right(e, layers, lev) ==
  LET user == UNION {DOMAIN layers[i] : i \in DOMAIN layers}
      last(k) == Resolved(layers[Max({i \in DOMAIN layers : k \in DOMAIN layers[i]})][k])
      failed == {k \in user : last(k).kind = "error"}
      derived == {k \o Key("_type") : k \in failed}
                   \union {k \o Key("_chain") : k \in {k \in failed : last(k).wraps}}
      moved == {Key("fields.") \o k : k \in (user \union derived) \intersect ReservedKeys}
      core == CoreKeys(lev)
  IN /\ DOMAIN e = core \union moved \union ((user \union derived) \ ReservedKeys)
     /\ \A k \in core : e[k] = Core(k)
     /\ \A k \in user \ (ReservedKeys \union derived \union moved) :
          e[k] = IF k \in failed THEN Text("message", last(k)) ELSE last(k)
     /\ \A k \in failed : k \o Key("_type") \notin user \union moved =>
          e[k \o Key("_type")] = Text("type", last(k))
     /\ \A k \in failed : last(k).wraps /\ k \o Key("_chain") \notin user \union moved =>
          e[k \o Key("_chain")] = Text("chain", last(k))

EntryRight == \A g \in Goroutines : pc[g] = "middleware" =>
                Right(entry[g], call[g].layers, call[g].level)

(* Nothing that is logged or derived changes a map it was given, except    *)
(* that redaction replaces listed keys in the maps nested in an entry.     *)
MapsKept ==
  [][<<pc, logger>>' # <<pc, logger>> =>
       \A a \in Addrs :
         \/ heap'[a] = heap[a]
         \/ a = Len(logger') /\ logger' # logger
         \/ /\ \E g \in Goroutines : pc[g] = "middleware" /\ a \in Reach(entry[g])
            /\ heap'[a] = Redact(heap[a])]_vars

(* What is encoded has no listed key with another value than the           *)
(* replacement, in nested maps neither, whoever else logs the same maps.   *)
ListedGone ==
  \A g \in Goroutines : pc[g] = "format" =>
    \A m \in {entry[g]} \union {heap[a] : a \in Reach(entry[g])} :
      \A k \in Listed \intersect DOMAIN m : m[k] = Replacement

----
(* "Non-error fields are passed through unchanged": a user field that is   *)
(* no error and not reserved is in the entry under its key, as resolved.   *)
Passed(e, layers) ==
  LET user == UNION {DOMAIN layers[i] : i \in DOMAIN layers}
      last(k) == Resolved(layers[Max({i \in DOMAIN layers : k \in DOMAIN layers[i]})][k])
      moved == {Key("fields.") \o k : k \in user \intersect ReservedKeys}
  IN \A k \in user \ (ReservedKeys \union moved) : last(k).kind # "error" => e[k] = last(k)

PlainKept == \A g \in Goroutines : pc[g] = "middleware" => Passed(entry[g], call[g].layers)

(* "Middleware functions run in order under the logger's mutex": so no map *)
(* is read or redacted by one goroutine while another redacts it.          *)
Accesses(g) == IF pc[g] \in {"middleware", "format"} THEN Reach(entry[g]) ELSE {}
MapsExclusive ==
  \A g, h \in Goroutines : g # h /\ pc[g] = "middleware" =>
    \A a \in Accesses(g) \intersect Accesses(h) : Listed \intersect DOMAIN heap[a] = {}

(* Of these two sentences of the docs one holds at every moment: less than *)
(* they say, so that a state that refutes it shows both broken.            *)
FieldsAsDocumented == PlainKept \/ MapsExclusive
====
