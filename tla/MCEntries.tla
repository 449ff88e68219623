---- MODULE MCEntries ----
(***************************************************************************)
(* What makes an entry what it is: the fields of a call, the attributes of *)
(* slog handlers, the options of the logger and the formatters.  They      *)
(* share no state, so a behaviour is of one of them; the variables of the  *)
(* others have a value that stands for none.                               *)
(***************************************************************************)
EXTENDS MCFields

CONSTANTS Attrs, Names, LoggerFields, SlogLevels, MaxHandlers,
          Writers, Inside, Terminals, Out, LevelVars, FormatVars, MinLevels,
          Hooks, Middleware, Formatters, MaxOptions,
          Bytes, CoreOrder, UserKeys, KeyMaps, MaxBytes,
          terminal, file, async, both

VARIABLES part,
          arrays, handler, logged,
          out, given, env, config, applied,
          values, keyMap

Slog == INSTANCE SlogHandler
New == INSTANCE Options WITH logger <- config
Lines == INSTANCE Formatting WITH entry <- values

ASSUME EntriesAssumption == /\ Slog!SlogAssumption /\ New!OptionsAssumption
                            /\ Lines!FormattingAssumption

(* Two attributes of one key, and one with the name of the source.         *)
AttrsOf == {[key |-> <<"k">>, value |-> "v1"], [key |-> <<"k">>, value |-> "v2"],
            [key |-> <<"slog_source">>, value |-> "v3"]}
FieldsOf == [k \in {<<"k">>, <<"service">>} |-> "v0"]

(* A fan-out whose first writer is an AsyncWriter over a terminal.         *)
InsideOf == terminal :> <<>> @@ file :> <<>> @@ async :> <<terminal>> @@ both :> <<async, file>>
HookSets == {<<"metrics">>, <<"alert", "count">>}
Chains == {<<"sample">>}

(* The keys t, l, m and f of the core, a line break and s of users.  The   *)
(* map renames l to s, as Datadog's does with level and status, puts the   *)
(* message where the time was, and the time at p.                          *)
CoreKeysOf == <<116, 108, 109, 102>>
KeyMapsOf == {<<>>, (108 :> 115 @@ 109 :> 116 @@ 116 :> 112)}

slogVars == <<arrays, handler, logged>>
newVars == <<out, given, env, config, applied>>
lineVars == <<values, keyMap>>
None == <<>>

MCInit ==
  /\ part \in {"fields", "slog", "new", "lines"}
  /\ Init /\ Slog!Init
  /\ IF part = "new" THEN New!Init
     ELSE out = None /\ given = None /\ env = None /\ config = None /\ applied = None
  /\ IF part = "lines" THEN Lines!Init ELSE values = None /\ keyMap = None

MCNext == \/ part = "fields" /\ Next /\ UNCHANGED <<part, slogVars, newVars, lineVars>>
          \/ part = "slog" /\ Slog!Next /\ UNCHANGED <<part, vars, newVars, lineVars>>
          \/ part = "new" /\ New!Next /\ UNCHANGED <<part, vars, slogVars, lineVars>>
          \/ part = "lines" /\ Lines!Next /\ UNCHANGED <<part, vars, slogVars, newVars>>

MCSpec == MCInit /\ [][MCNext]_<<part, vars, slogVars, newVars, lineVars>>

----
(* A record has what its own handler was given (SlogHandler.Handle).       *)
Handled == part = "slog" => Slog!Handled

(* A logger is as its options say, in any order (New).                     *)
Configured == part = "new" => New!Configured

(* A line reads back as its entry (Formatter.Format).                      *)
Encoded == part = "lines" => Lines!Encoded
====
