---- MODULE Options ----
(***************************************************************************)
(* The construction of a root logger: New and its options (options.go,     *)
(* env.go, redact.go), the names of levels (level.go), and the choice of a *)
(* formatter by what is behind the writer.  Options are applied one after  *)
(* the other, each to what those before it have left.                      *)
(*                                                                         *)
(* A name stands for all its spellings in upper and lower case.            *)
(*                                                                         *)
(* X_Fault, just before X, is X with a plausible bug in it.                *)
(***************************************************************************)
EXTENDS Integers, Sequences, FiniteSets, SequencesExt

CONSTANTS
  Writers,    \* files, and writers with others inside
  Inside,     \* the writers inside each, in order
  Terminals,  \* the files that are terminals
  Out,        \* the writers given to New
  LevelVars, FormatVars,  \* values of LOG_LEVEL and LOG_FORMAT; "" when unset
  MinLevels,  \* of New
  Hooks, Middleware, Formatters,
  MaxOptions  \* bound on the options given

(* Middleware is known by its name.                                        *)
OptionsAssumption == Middleware \subseteq Seq(STRING)

VARIABLES out, given, env, logger, applied

vars == <<out, given, env, logger, applied>>

LevelNames == <<"TRACE", "DEBUG", "INFO", "WARNING", "ERROR", "FATAL">>
INFO == 2
FATAL == 5

String(level) == IF level \in 0 .. FATAL THEN LevelNames[level + 1] ELSE "UNKNOWN"

Recognized(name) == name \in Range(LevelNames) \union {"WARN"}
ParseLevel(name) ==
  IF Recognized(name)
  THEN CHOOSE l \in 0 .. FATAL : LevelNames[l + 1] = IF name = "WARN" THEN "WARNING" ELSE name
  ELSE INFO

(* New; Nop is New with a level that is above all of them.                 *)
Init == /\ out \in Out
        /\ given \in MinLevels \union {FATAL + 1}
        /\ env \in [level : LevelVars, format : FormatVars]
        /\ logger = [minLevel |-> given, formatter |-> "JSON", hooks |-> <<>>,
                     middleware |-> <<>>, caller |-> FALSE, fullCallerPath |-> FALSE,
                     set |-> {}]
        /\ applied = <<>>

(* An option: a name and an argument, and the logger it makes of the one   *)
(* before.                                                                 *)
Apply(name, arg, next) ==
  /\ Len(applied) < MaxOptions
  /\ applied' = Append(applied, [name |-> name, arg |-> arg])
  /\ logger' = next
  /\ UNCHANGED <<out, given, env>>

WithHooks(h) == Apply("hooks", h, [logger EXCEPT !.hooks = h])

Registered_Replaced(mw) == mw
Registered(mw) == logger.middleware \o mw

WithMiddleware(mw) == Apply("middleware", mw, [logger EXCEPT !.middleware = Registered(mw)])
WithRedactFields ==
  Apply("middleware", <<"redact">>, [logger EXCEPT !.middleware = Registered(<<"redact">>)])

WithFormatter(f) == Apply("formatter", f, [logger EXCEPT !.formatter = f])

(* fileIsTerminal unwraps until it meets a file, or a writer with nothing  *)
(* inside; a FanOutWriter unwraps to its first writer.                     *)
FileIsTerminal(w) ==
  LET within[n \in 0 .. Cardinality(Writers)] ==
        IF n = 0 THEN w
        ELSE LET v == within[n - 1] IN IF Inside[v] = <<>> THEN v ELSE Inside[v][1]
  IN within[Cardinality(Writers)] \in Terminals

WithAutoFormat ==
  Apply("auto", <<>>, [logger EXCEPT !.formatter = IF FileIsTerminal(out) THEN "text" ELSE "JSON"])

WithEnvConfig ==
  Apply("env", <<>>, [logger EXCEPT
    !.minLevel = IF Recognized(env.level) THEN ParseLevel(env.level) ELSE @,
    !.formatter = IF env.format \in {"JSON", "text", "logfmt"} THEN env.format ELSE @])

WithCaller == Apply("caller", <<>>, [logger EXCEPT !.caller = TRUE])
WithFullCallerPath ==
  Apply("fullCallerPath", <<>>, [logger EXCEPT !.caller = TRUE, !.fullCallerPath = TRUE])

(* The options that only set a field of their own, each to its argument.   *)
Plain == {"identity", "exitFunc", "sampler", "eventID", "stackTrace", "fallbackWriter"}
WithOption(name) == Apply(name, <<>>, [logger EXCEPT !.set = @ \union {name}])

Next == \/ \E h \in Hooks : WithHooks(h)
        \/ \E mw \in Middleware : WithMiddleware(mw)
        \/ WithRedactFields
        \/ \E f \in Formatters : WithFormatter(f)
        \/ WithAutoFormat \/ WithEnvConfig
        \/ WithCaller \/ WithFullCallerPath
        \/ \E name \in Plain : WithOption(name)

Spec == Init /\ [][Next]_vars

----
(* The options of these names, by their place, and the argument of the     *)
(* last of them.                                                           *)
Among(names) == {i \in DOMAIN applied : applied[i].name \in names}
LastOf(names) == applied[Max(Among(names))]

(* All the middleware it was given stays, redaction included, in order; of *)
(* hooks the last set only.                                                *)
MiddlewareRight ==
  logger.middleware = FlattenSeq([i \in DOMAIN applied |->
    IF applied[i].name = "middleware" THEN applied[i].arg ELSE <<>>])
HooksRight ==
  logger.hooks = IF Among({"hooks"}) = {} THEN <<>> ELSE LastOf({"hooks"}).arg

(* The level is the environment's if that was asked for and names one.     *)
LevelRight ==
  String(logger.minLevel) =
    IF Among({"env"}) # {} /\ env.level \in Range(LevelNames) THEN env.level
    ELSE IF Among({"env"}) # {} /\ env.level = "WARN" THEN "WARNING"
    ELSE String(given)

(* The formatter is that of the last option that chose one, where an       *)
(* environment that names none does not choose.                            *)
Chose == {"formatter", "auto"} \union
           (IF env.format \in {"JSON", "text", "logfmt"} THEN {"env"} ELSE {})
FormatterRight ==
  logger.formatter =
    IF Among(Chose) = {} THEN "JSON"
    ELSE CASE LastOf(Chose).name = "formatter" -> LastOf(Chose).arg
           [] LastOf(Chose).name = "env"       -> env.format
           [] LastOf(Chose).name = "auto"      -> IF FileIsTerminal(out) THEN "text" ELSE "JSON"

(* What a logger is in the end, whatever the order of its options; and     *)
(* each level has a name that is read as that level.                       *)
Configured ==
  /\ MiddlewareRight /\ HooksRight /\ LevelRight /\ FormatterRight
  /\ logger.fullCallerPath => logger.caller
  /\ \A l \in 0 .. FATAL : ParseLevel(String(l)) = l
====
