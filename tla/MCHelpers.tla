---- MODULE MCHelpers ----
(***************************************************************************)
(* What stands around the logger and keeps state of its own: the samplers, *)
(* the fan-out of filtered writers, the TestHandler and the default        *)
(* logger.  They share nothing, so a behaviour is of one of them; the      *)
(* variables of the others keep the first of their initial values.         *)
(***************************************************************************)
EXTENDS MCSinks

CONSTANTS Goroutines, N, MaxCalls, PerSecond, Second, MaxCount, MaxTime,
          Lines, Parsed, Levels, LevelOf, Snapshots, MaxLen,
          Loggers, None,
          r1, r2, r3

VARIABLES part,
          kind, counts, mine, passed, now, count, resetAt, allowed,
          arrays, home, len, snap, verdict, phase, since, seen,
          default, slogDflt, pc, arg, prev, used, returned, covered

Sampler == INSTANCE Samplers
Handler == INSTANCE TestHandler WITH written <- phase
Global == INSTANCE GlobalLogger

LineLevel == r1 :> "INFO" @@ r2 :> "ERROR"

ASSUME HelperAssumption == /\ Sampler!SamplerAssumption /\ Handler!HandlerAssumption
                           /\ Global!GlobalAssumption

samplerVars == <<kind, counts, mine, passed, now, count, resetAt, allowed>>
handlerVars == <<arrays, home, len, snap, verdict, phase, since, seen>>
globalVars == <<default, slogDflt, pc, arg, prev, used, returned, covered>>

MCInit == /\ part \in {"sampler", "handler", "global", "fan"}
          /\ Sampler!Init
          /\ part # "sampler" => kind = "rate"
          /\ Handler!Init /\ Global!Init /\ Init

MCNext ==
  \/ part = "sampler" /\ Sampler!Next /\ UNCHANGED <<part, handlerVars, globalVars, vars>>
  \/ part = "handler" /\ Handler!Next /\ UNCHANGED <<part, samplerVars, globalVars, vars>>
  \/ part = "global" /\ Global!Next /\ UNCHANGED <<part, samplerVars, handlerVars, vars>>
  \/ part = "fan" /\ Next /\ UNCHANGED <<part, samplerVars, handlerVars, globalVars>>

MCSpec == MCInit /\ [][MCNext]_<<part, samplerVars, handlerVars, globalVars, vars>>

----
(* One call in N passes a shared EveryNSampler (EveryNSampler.Sample). *)
OneInN == Sampler!OneInN

(* A window passes exactly its budget (RateSampler.Sample). *)
WindowExact == Sampler!WindowExact

(* A test phase sees no record of an earlier one (TestHandler.Reset). *)
PhaseOnly == Handler!PhaseOnly

(* A snapshot never changes after it was taken (TestHandler.Records). *)
SnapshotStable == Handler!SnapshotStable

(* Each logger taken out is handed back once (ReplaceDefault). *)
HandedBackOnce == Global!HandedBackOnce
====
