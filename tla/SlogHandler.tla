---- MODULE SlogHandler ----
(***************************************************************************)
(* SlogHandler (slog_handler.go) as a slog.Handler: the handlers derived   *)
(* with WithAttrs and WithGroup, and the fields and level under which      *)
(* Handle gives a record to the logger.  The checks on its way to the      *)
(* writer are in module Logger.                                            *)
(*                                                                         *)
(* A handler holds a slice of attributes, whose array it may share with    *)
(* other handlers.  Keys and groups are sequences of the parts that dots   *)
(* separate, so that <<"g", "k">> is the key g.k, whoever put it together. *)
(*                                                                         *)
(* X_Fault, just before X, is X with a plausible bug in it.                *)
(***************************************************************************)
EXTENDS Integers, Sequences, FiniteSets, SequencesExt

CONSTANTS
  Attrs,       \* attributes, records with a key and a value
  Names,       \* of groups
  LoggerFields,\* what the logger was given by With
  SlogLevels,  \* of the records
  MaxHandlers  \* bound on the handlers made, the first included

SlogAssumption == SlogLevels \subseteq Int

VARIABLES
  arrays,  \* the arrays of attributes
  handler, \* the handlers: array, len and group; given is history
  logged   \* what the latest Handle wrote, and of what; <<>> before it

vars == <<arrays, handler, logged>>

(* given: the attributes of a handler, each with the group at that time.   *)
Init == /\ arrays = <<<<>>>>
        /\ handler = <<[array |-> 1, len |-> 0, group |-> <<>>, given |-> <<>>]>>
        /\ logged = <<>>

Held(h) == SubSeq(arrays[h.array], 1, h.len)

----
(* WithAttrs copies into an array of its own.                              *)
NewAttrs_Append(h, attrs) ==
  [to |-> IF h.len = 0 THEN Len(arrays) + 1 ELSE h.array, attrs |-> Held(h) \o attrs]
NewAttrs(h, attrs) == [to |-> Len(arrays) + 1, attrs |-> Held(h) \o attrs]

WithAttrs(h, attrs) ==
  LET new == NewAttrs(h, attrs)
  IN /\ Len(handler) < MaxHandlers
     /\ arrays' = IF new.to \in DOMAIN arrays THEN [arrays EXCEPT ![new.to] = new.attrs]
                  ELSE Append(arrays, new.attrs)
     /\ handler' = Append(handler,
          [array |-> new.to, len |-> Len(new.attrs), group |-> h.group,
           given |-> h.given \o [i \in DOMAIN attrs |-> [attr |-> attrs[i], in |-> h.group]]])
     /\ UNCHANGED logged

WithGroup(h, name) ==
  /\ Len(handler) < MaxHandlers
  /\ handler' = Append(handler, [h EXCEPT !.group = Append(@, name)])
  /\ UNCHANGED <<arrays, logged>>

----
Level == [TRACE |-> 0, DEBUG |-> 1, INFO |-> 2, WARNING |-> 3, ERROR |-> 4, FATAL |-> 5]

SlogLevelToLevel(l) ==
  Level[CASE l < -4 -> "TRACE" [] -4 <= l /\ l < 0 -> "DEBUG" [] 0 <= l /\ l < 4 -> "INFO"
          [] 4 <= l /\ l < 8 -> "WARNING" [] 8 <= l -> "ERROR"]

LevelToSlogLevel(v) ==
  IF v \in Range(Level) THEN -8 + 4 * v ELSE 0

(* Handle takes every attribute under the group that the handler has now;  *)
(* of two under one key the later stays, and the source of the record, if  *)
(* it has one, comes last.                                                 *)
PrefixKey(h, key) == h.group \o key

Set(m, k, v) == [q \in DOMAIN m \union {k} |-> IF q = k THEN v ELSE m[q]]

Collected(h, attrs) ==
  FoldLeft(LAMBDA m, a : Set(m, PrefixKey(h, a.key), a.value), <<>>, attrs)

Merged(h, attrs, sourced) ==
  LET collected == Collected(h, attrs)
      own == IF sourced THEN Set(collected, <<"slog_source">>, "source") ELSE collected
  IN [k \in DOMAIN LoggerFields \union DOMAIN own |->
        IF k \in DOMAIN own THEN own[k] ELSE LoggerFields[k]]

(* History: asked has the level that StdLogger was asked to log at.        *)
Handle(i, record, sourced, level, asked) ==
  /\ logged' = [by |-> i, record |-> record, sourced |-> sourced, level |-> level,
                asked |-> asked,
                fields |-> Merged(handler[i], Held(handler[i]) \o record, sourced),
                as |-> SlogLevelToLevel(level)]
  /\ UNCHANGED <<arrays, handler>>

(* A log.Logger made by StdLogger logs bare records through the first      *)
(* handler; log.Logger's source is that of the caller.                     *)
StdLogger(level) == Handle(1, <<>>, TRUE, LevelToSlogLevel(level), {level})

Next == \/ \E i \in DOMAIN handler :
             \/ \E a \in Attrs : WithAttrs(handler[i], <<a>>)
             \/ \E name \in Names : WithGroup(handler[i], name)
             \/ \E record \in {<<>>} \union {<<a>> : a \in Attrs}, sourced \in BOOLEAN,
                   level \in SlogLevels : Handle(i, record, sourced, level, {})
        \/ \E level \in Range(Level) : StdLogger(level)

Spec == Init /\ [][Next]_vars

----
(* The entry of a record has exactly what its own handler was given, one   *)
(* after the other, and the record's attributes, none of another handler   *)
(* derived from the same one; the latest stands under each key, the source *)
(* above all and the logger's fields below.  The level of a slog record is *)
(* the highest up to ERROR that is not above it; one up to ERROR goes      *)
(* through StdLogger and back unchanged (for FATAL see StdLevelKept).      *)
Handled ==
  logged # <<>> =>
    LET h == handler[logged.by]
        all == [i \in DOMAIN h.given |-> h.given[i].attr] \o logged.record
        source == IF logged.sourced THEN {<<"slog_source">>} ELSE {}
        under(q) == {i \in DOMAIN all : h.group \o all[i].key = q}
        keys == {h.group \o all[i].key : i \in DOMAIN all}
    IN /\ DOMAIN logged.fields = keys \union source \union DOMAIN LoggerFields
       /\ \A q \in source : logged.fields[q] = "source"
       /\ \A q \in keys \ source : logged.fields[q] = all[Max(under(q))].value
       /\ \A q \in DOMAIN LoggerFields \ (keys \union source) :
            logged.fields[q] = LoggerFields[q]
       /\ logged.asked = {} =>
            /\ LevelToSlogLevel(logged.as) <= logged.level \/ logged.as = Level.TRACE
            /\ logged.as < Level.ERROR => logged.level < LevelToSlogLevel(logged.as + 1)
       /\ \A v \in logged.asked : v <= Level.ERROR => logged.as = v

----
(* "WithGroup returns a new handler with the given group name.  All        *)
(* subsequent attributes will be prefixed": in the next record of any      *)
(* handler, an attribute given before the group has the key it had then.   *)
SubsequentOnly ==
  \A h \in Range(handler) : \A i \in DOMAIN h.given :
    h.given[i].in \o h.given[i].attr.key \in DOMAIN Merged(h, Held(h), FALSE)

(* "StdLogger returns a *log.Logger that routes writes through this logger *)
(* at the specified level."                                                *)
StdLevelKept == logged # <<>> => \A v \in logged.asked : logged.as = v

(* Of these two sentences one holds at every moment: less than they say,   *)
(* so that a state that refutes it shows both broken.                      *)
SlogAsDocumented == SubsequentOnly \/ StdLevelKept
====
