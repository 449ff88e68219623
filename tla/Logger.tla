---- MODULE Logger ----
(***************************************************************************)
(* The logger of logger.go: goroutines log through the Logger's methods or *)
(* its slog handler, change the level, and call Sync or SyncWithTimeout,   *)
(* all at once.  Between a call and its return every atomic load or store, *)
(* every run of user code (middleware, hooks) and every use of the writer  *)
(* is a step of its own.                                                   *)
(*                                                                         *)
(* The writer out is an environment here: a Write or Sync is under way     *)
(* while its caller's pc says so, and returns whatever it likes, panics,   *)
(* or hangs.  A panic unwinds to the goroutine's caller, who recovers it;  *)
(* in a helper there is nobody to do so.                                   *)
(* The module AsyncLogger puts an AsyncWriter in its place.                *)
(*                                                                         *)
(* X_Fault, just before X, is X with a plausible bug in it.                *)
(***************************************************************************)
EXTENDS Naturals, Sequences, Functions

CONSTANTS Goroutines,   \* application goroutines
          Helpers,      \* goroutines SyncWithTimeout starts
          Entries,      \* log entries; each is logged at most once
          Levels,       \* levels the application logs at, out of 0 .. FATAL
          MinLevels,    \* values minLevel is given, up to FATAL + 1 (Nop)
          HasSampler,   \* a sampler is configured
          HasFallback,  \* a fallback writer is configured
          OutIsSyncer,  \* out implements Syncer
          NoProc,       \* nobody
          NoEntry       \* no entry yet

ERROR == 4
FATAL == 5
Procs == Goroutines \union Helpers

ASSUME LevelAssumption == Levels \subseteq 0 .. FATAL /\ MinLevels \subseteq 0 .. FATAL + 1
ASSUME OptionAssumption == {HasSampler, HasFallback, OutIsSyncer} \subseteq BOOLEAN
ASSUME ProcAssumption == Goroutines \intersect Helpers = {} /\ NoProc \notin Procs

VARIABLES
  closed, minLevel, writeErrors,
  mu,        \* the holder of the mutex, or NoProc
  exited,    \* os.Exit has been called
  crashed,   \* a helper has panicked, which ends the process
  outHung,   \* a call of out never returns
  pc,        \* where each goroutine is
  cur, lvl,  \* the entry each goroutine logs, and its level
  api,       \* through which path: "log" (internalLog, internalLogCtx) or "slog"
  ret,       \* what its last Sync or SyncWithTimeout returned
  waitsOn,   \* the helper each SyncWithTimeout has started
  reply,     \* that helper's channel, of capacity 1
  (* history *)
  logged,    \* entries whose call has begun
  late,      \* those whose call began when closed was already set
  floor,     \* the lowest minLevel in force since each goroutine's call began
  given,     \* what out.Write has been given, in order, panics apart
  failed,    \* the part of it answered with an error
  rescued,   \* what the fallback writer was given
  hooked,    \* what the hooks have seen
  panicked,  \* <<call, entry>>: what a call of user code under the mutex panicked on
  synced,    \* Len(given) when out.Sync last returned
  mark       \* Len(given) when each goroutine's last Sync was called

rootVars == <<closed, minLevel, writeErrors, exited, crashed, outHung>>
entryVars == <<cur, lvl, api, floor>>
callVars == <<logged, late>>
timerVars == <<waitsOn, reply, mark>>
outVars == <<given, failed, rescued, hooked, panicked, synced>>
vars == <<rootVars, mu, pc, ret, entryVars, callVars, timerVars, outVars>>

Init ==
  /\ closed = FALSE /\ minLevel \in MinLevels /\ writeErrors = 0 /\ exited = FALSE
  /\ crashed = FALSE /\ outHung = FALSE
  /\ mu = NoProc
  /\ pc = [p \in Procs |-> "idle"]
  /\ ret = [p \in Procs |-> "none"]
  /\ cur = [g \in Goroutines |-> NoEntry] /\ lvl = [g \in Goroutines |-> 0]
  /\ api = [g \in Goroutines |-> "log"] /\ floor = [g \in Goroutines |-> 0]
  /\ waitsOn = [g \in Goroutines |-> NoProc] /\ reply = [h \in Helpers |-> <<>>]
  /\ mark = [g \in Goroutines |-> 0]
  /\ logged = {} /\ late = {}
  /\ given = <<>> /\ failed = <<>> /\ rescued = <<>> /\ hooked = <<>>
  /\ panicked = {} /\ synced = 0

Goto(p, l) == pc' = [pc EXCEPT ![p] = l]
Done(p) == Goto(p, "idle")
Acquire(p) == mu = NoProc /\ mu' = p
Release == mu' = NoProc

----
(* A log call begins.  No slog level maps to FATAL: one made from it, by   *)
(* StdLogger, comes back as ERROR.                                         *)
SlogLevel_Raw(l) == 4 * l - 8
SlogLevel(l) == IF l > ERROR THEN ERROR ELSE l

LogCall(g, e, l, a) ==
  /\ pc[g] = "idle" /\ e \notin logged
  /\ logged' = logged \union {e}
  /\ late' = IF closed THEN late \union {e} ELSE late
  /\ cur' = [cur EXCEPT ![g] = e]
  /\ lvl' = [lvl EXCEPT ![g] = IF a = "slog" THEN SlogLevel(l) ELSE l]
  /\ api' = [api EXCEPT ![g] = a]
  /\ floor' = [floor EXCEPT ![g] = minLevel]
  /\ ret' = [ret EXCEPT ![g] = "none"]
  /\ Goto(g, IF a = "slog" THEN "level" ELSE "closed")
  /\ UNCHANGED <<rootVars, mu, timerVars, outVars>>

filterUnchanged == UNCHANGED <<rootVars, mu, ret, entryVars, callVars, timerVars, outVars>>

(* closed, then the level, then the sampler; slog asks Enabled first and   *)
(* has no sampler.                                                         *)
CheckClosed(g) ==
  /\ pc[g] = "closed"
  /\ \/ closed /\ Done(g)
     \/ ~closed /\ Goto(g, IF api[g] = "slog" THEN "assemble" ELSE "level")
  /\ filterUnchanged

AfterLevel_SlogOpen(g) == IF api[g] = "slog" THEN "assemble" ELSE "sample"
AfterLevel(g) == IF api[g] = "slog" THEN "closed" ELSE "sample"

CheckLevel(g) ==
  /\ pc[g] = "level"
  /\ \/ lvl[g] < minLevel /\ Done(g)
     \/ lvl[g] >= minLevel /\ Goto(g, AfterLevel(g))
  /\ filterUnchanged

Sample(g) ==
  /\ pc[g] = "sample"
  /\ \/ Goto(g, "assemble")
     \/ HasSampler /\ lvl[g] < ERROR /\ Done(g)
  /\ filterUnchanged

(* writeEntry: the middleware chain runs on the assembled entry and keeps  *)
(* it, drops it, or panics out of the call.                                *)
MiddlewareCall(g) ==
  /\ pc[g] = "assemble"
  /\ Goto(g, "middleware")
  /\ filterUnchanged

MiddlewareReturn(g) ==
  /\ pc[g] = "middleware"
  /\ Goto(g, "lock") \/ Done(g)
  /\ filterUnchanged

----
(* The locked part of writeEntry. *)
Lock(g) ==
  /\ pc[g] = "lock"
  /\ Acquire(g)
  /\ Goto(g, "write")
  /\ UNCHANGED <<rootVars, ret, entryVars, callVars, timerVars, outVars>>

(* Hooks run with the mutex still held. *)
KeepLock_Early == Release
KeepLock == UNCHANGED mu

WriteOk(g) ==
  /\ pc[g] = "write" /\ ~outHung
  /\ given' = Append(given, cur[g])
  /\ Goto(g, "hooks") /\ KeepLock
  /\ UNCHANGED <<rootVars, ret, entryVars, callVars, timerVars,
                 failed, rescued, hooked, panicked, synced>>

WriteErr(g) ==
  /\ pc[g] = "write" /\ ~outHung
  /\ given' = Append(given, cur[g])
  /\ failed' = Append(failed, cur[g])
  /\ Goto(g, "count")
  /\ UNCHANGED <<rootVars, mu, ret, entryVars, callVars, timerVars,
                 rescued, hooked, panicked, synced>>

(* A panic under the mutex unwinds through the deferred unlock, past all   *)
(* that was still to come: the fallback, the hooks, the exit of a FATAL.   *)
Unwind_NoDefer == UNCHANGED mu
Unwind == Release

PanicIn(g, call) ==
  /\ pc[g] = call
  /\ panicked' = panicked \union {<<call, cur[g]>>}
  /\ Done(g) /\ Unwind
  /\ UNCHANGED <<rootVars, ret, entryVars, callVars, timerVars, given, failed, hooked, synced>>

WritePanic(g) == ~outHung /\ PanicIn(g, "write") /\ UNCHANGED rescued

ErrorCount_Unrescued == IF HasFallback THEN writeErrors ELSE writeErrors + 1
ErrorCount == writeErrors + 1

CountError(g) ==
  /\ pc[g] = "count"
  /\ writeErrors' = ErrorCount
  /\ Goto(g, IF HasFallback THEN "fallback" ELSE "hooks")
  /\ UNCHANGED <<closed, minLevel, exited, crashed, outHung, mu, ret, entryVars, callVars,
                 timerVars, outVars>>

(* The fallback writer's answer is ignored; it may panic like out.Write.   *)
Fallback(g) ==
  /\ pc[g] = "fallback"
  /\ rescued' = Append(rescued, cur[g])
  /\ Goto(g, "hooks")
  /\ UNCHANGED <<rootVars, mu, ret, entryVars, callVars, timerVars,
                 given, failed, hooked, panicked, synced>>

FallbackPanic(g) == PanicIn(g, "fallback") /\ rescued' = Append(rescued, cur[g])

(* Each hook returns or panics, and is recovered either way. *)
HookOutcomes_Unrecovered == {"returned", "panicked"}
HookOutcomes == {"returned"}

FatalLock_Early == Release
FatalLock == UNCHANGED mu

AfterHooks_NoUnlock(g) ==
  IF lvl[g] = FATAL
  THEN FatalLock /\ Goto(g, IF OutIsSyncer THEN "flush" ELSE "exit")
  ELSE UNCHANGED mu /\ Done(g)
AfterHooks(g) ==
  IF lvl[g] = FATAL
  THEN FatalLock /\ Goto(g, IF OutIsSyncer THEN "flush" ELSE "exit")
  ELSE Release /\ Done(g)

RunHooks(g) ==
  /\ pc[g] = "hooks"
  /\ hooked' = Append(hooked, cur[g])
  /\ \E r \in HookOutcomes : IF r = "panicked" THEN Release /\ Done(g) ELSE AfterHooks(g)
  /\ UNCHANGED <<rootVars, ret, entryVars, callVars, timerVars,
                 given, failed, rescued, panicked, synced>>

(* FATAL: sync the writer, whatever it answers, and exit. *)
FlushReturn(g) ==
  /\ pc[g] = "flush" /\ ~outHung
  /\ synced' = Len(given)
  /\ Goto(g, "exit")
  /\ UNCHANGED <<rootVars, mu, ret, entryVars, callVars, timerVars,
                 given, failed, rescued, hooked, panicked>>

FlushPanic(g) == ~outHung /\ PanicIn(g, "flush") /\ UNCHANGED rescued

Exit(g) ==
  /\ pc[g] = "exit"
  /\ exited' = TRUE
  /\ UNCHANGED <<closed, minLevel, writeErrors, crashed, outHung, mu, pc, ret, entryVars,
                 callVars, timerVars, outVars>>

----
SetLevel(g, l) ==
  /\ pc[g] = "idle"
  /\ minLevel' = l
  /\ floor' = [f \in Goroutines |-> IF l < floor[f] THEN l ELSE floor[f]]
  /\ UNCHANGED <<closed, writeErrors, exited, crashed, outHung, mu, pc, ret, cur, lvl, api,
                 callVars, timerVars, outVars>>

(* Sync: set closed, take the mutex, sync the writer. *)
SyncCall(g) ==
  /\ pc[g] = "idle"
  /\ ret' = [ret EXCEPT ![g] = "none"]
  /\ mark' = [mark EXCEPT ![g] = Len(given)]
  /\ Goto(g, "close")
  /\ UNCHANGED <<rootVars, mu, entryVars, callVars, waitsOn, reply, outVars>>

StoreClosed(p) ==
  /\ pc[p] = "close"
  /\ closed' = TRUE
  /\ Goto(p, "lockSync")
  /\ UNCHANGED <<minLevel, writeErrors, exited, crashed, outHung, mu, ret, entryVars, callVars,
                 timerVars, outVars>>

SyncMutex_None(p) == UNCHANGED mu
SyncMutex(p) == Acquire(p)

LockSync(p) ==
  /\ pc[p] = "lockSync"
  /\ SyncMutex(p)
  /\ Goto(p, "sync")
  /\ UNCHANGED <<rootVars, ret, entryVars, callVars, timerVars, outVars>>

(* A benign error becomes nil.  A helper has its result still to send. *)
SyncReturn(p, r) ==
  /\ pc[p] = "sync" /\ (OutIsSyncer => ~outHung)
  /\ OutIsSyncer \/ r = "nil"
  /\ synced' = IF OutIsSyncer THEN Len(given) ELSE synced
  /\ ret' = [ret EXCEPT ![p] = IF r = "benign" THEN "nil" ELSE r]
  /\ Release
  /\ Goto(p, IF p \in Helpers THEN "send" ELSE "idle")
  /\ UNCHANGED <<rootVars, entryVars, callVars, timerVars,
                 given, failed, rescued, hooked, panicked>>

(* A panic of out.Sync unwinds to the caller of Sync; a helper takes the   *)
(* process down, its deferred unlock run.                                  *)
SyncPanic(p) ==
  /\ pc[p] = "sync" /\ OutIsSyncer /\ ~outHung
  /\ crashed' = (p \in Helpers)
  /\ Release /\ Done(p)
  /\ UNCHANGED <<closed, minLevel, writeErrors, exited, outHung, ret, entryVars, callVars,
                 timerVars, outVars>>

(* SyncWithTimeout: a new helper syncs and sends the result, while the     *)
(* caller waits for that or for the timer.                                 *)
Free(h) == pc[h] = "idle" /\ \A g \in Goroutines : waitsOn[g] # h

NewChannel_Shared(h) == reply[h]
NewChannel(h) == <<>>

TimedCall(g, h) ==
  /\ pc[g] = "idle" /\ Free(h)
  /\ pc' = [pc EXCEPT ![g] = "await", ![h] = "close"]
  /\ ret' = [ret EXCEPT ![g] = "none", ![h] = "none"]
  /\ waitsOn' = [waitsOn EXCEPT ![g] = h]
  /\ reply' = [reply EXCEPT ![h] = NewChannel(h)]
  /\ mark' = [mark EXCEPT ![g] = Len(given)]
  /\ UNCHANGED <<rootVars, mu, entryVars, callVars, outVars>>

Sendable_Unbuffered(h) == \E g \in Goroutines : waitsOn[g] = h
Sendable(h) == reply[h] = <<>>

HelperSend(h) ==
  /\ pc[h] = "send" /\ Sendable(h)
  /\ reply' = [reply EXCEPT ![h] = <<ret[h]>>]
  /\ Done(h)
  /\ UNCHANGED <<rootVars, mu, ret, entryVars, callVars, waitsOn, mark, outVars>>

TimedEnd(g, r) ==
  /\ ret' = [ret EXCEPT ![g] = r]
  /\ waitsOn' = [waitsOn EXCEPT ![g] = NoProc]
  /\ Done(g)
  /\ UNCHANGED <<rootVars, mu, entryVars, callVars, reply, mark, outVars>>

TimedReturn(g) ==
  /\ pc[g] = "await" /\ reply[waitsOn[g]] # <<>>
  /\ TimedEnd(g, Head(reply[waitsOn[g]]))

Expired_Never == FALSE
Expired == TRUE

TimedOut(g) ==
  /\ pc[g] = "await" /\ Expired
  /\ TimedEnd(g, "timeout")

----
(* The call of out under way blocks for ever.                              *)
InOut == {p \in Procs : pc[p] \in {"write", "flush"} \/ (pc[p] = "sync" /\ OutIsSyncer)}

OutHang ==
  /\ ~outHung /\ InOut # {}
  /\ outHung' = TRUE
  /\ UNCHANGED <<closed, minLevel, writeErrors, exited, crashed, mu, pc, ret, entryVars,
                 callVars, timerVars, outVars>>

----
Calls(g) == \/ \E e \in Entries, l \in Levels, a \in {"log", "slog"} : LogCall(g, e, l, a)
            \/ \E l \in MinLevels : SetLevel(g, l)
            \/ SyncCall(g)
            \/ \E h \in Helpers : TimedCall(g, h)

(* The steps a goroutine takes by itself, and those that wait for out.     *)
Inner(g) == \/ CheckClosed(g) \/ CheckLevel(g) \/ Sample(g)
            \/ MiddlewareCall(g) \/ MiddlewareReturn(g)
            \/ CountError(g) \/ Fallback(g) \/ RunHooks(g) \/ Exit(g)
            \/ TimedReturn(g) \/ TimedOut(g)
OutWrite(g) == WriteOk(g) \/ WriteErr(g)
Panics(g) == WritePanic(g) \/ FallbackPanic(g) \/ FlushPanic(g)
OutSync(p) == SyncPanic(p) \/ \E r \in {"nil", "benign", "err"} : SyncReturn(p, r)

Step(p) == \/ /\ p \in Goroutines
              /\ Inner(p) \/ Lock(p) \/ OutWrite(p) \/ FlushReturn(p) \/ Panics(p)
           \/ StoreClosed(p) \/ LockSync(p) \/ OutSync(p)
           \/ p \in Helpers /\ HelperSend(p)

(* os.Exit, or a crash, stops every goroutine where it is. *)
Running == ~exited /\ ~crashed
Stopped == ~Running /\ UNCHANGED vars

Next == \/ /\ Running
           /\ \/ \E g \in Goroutines : Calls(g)
              \/ \E p \in Procs : Step(p)
              \/ OutHang
        \/ Stopped

Spec == Init /\ [][Next]_vars

(* Every goroutine that can run does, and a call of out returns unless it  *)
(* hangs.  The mutex is fair in the sense of sync.Mutex: a waiter is not   *)
(* passed over for ever (starvation mode).                                 *)
FairSpec ==
  /\ Spec
  /\ \A g \in Goroutines :
       /\ WF_vars(Running /\ (Inner(g) \/ OutWrite(g) \/ FlushReturn(g) \/ Panics(g)))
       /\ SF_vars(Running /\ Lock(g))
  /\ \A p \in Procs : /\ WF_vars(Running /\ (StoreClosed(p) \/ OutSync(p)))
                      /\ SF_vars(Running /\ LockSync(p))
  /\ \A h \in Helpers : WF_vars(Running /\ HelperSend(h))

----
Checking == {"closed", "level", "sample", "assemble", "middleware", "lock"}
Writing == {"write", "count", "fallback", "hooks", "flush", "exit"}

StateOK == /\ closed \in BOOLEAN /\ exited \in BOOLEAN /\ crashed \in BOOLEAN
           /\ outHung \in BOOLEAN
           /\ minLevel \in MinLevels /\ writeErrors \in Nat
           /\ mu \in Procs \union {NoProc}
PcOK == /\ pc \in [Procs -> {"idle", "close", "lockSync", "sync", "send", "await"}
                            \union Checking \union Writing]
        /\ \A h \in Helpers : pc[h] \in {"idle", "close", "lockSync", "sync", "send"}
        /\ \A g \in Goroutines : pc[g] = "await" <=> waitsOn[g] # NoProc
EntryOK == /\ cur \in [Goroutines -> Entries \union {NoEntry}]
           /\ lvl \in [Goroutines -> 0 .. FATAL]
           /\ api \in [Goroutines -> {"log", "slog"}]
           /\ floor \in [Goroutines -> 0 .. FATAL + 1]
           /\ logged \subseteq Entries /\ late \subseteq logged
           /\ \A g \in Goroutines : cur[g] \in logged \union {NoEntry}
           /\ \A g \in Goroutines : pc[g] \in Checking \union Writing => cur[g] \in logged
TimerOK == /\ ret \in [Procs -> {"none", "nil", "err", "timeout"}]
           /\ waitsOn \in [Goroutines -> Helpers \union {NoProc}]
           /\ reply \in [Helpers -> {<<>>} \union {<<r>> : r \in {"nil", "err"}}]
           /\ \A h \in Helpers : pc[h] = "send" => ret[h] \in {"nil", "err"}
OutOK == /\ given \in Seq(Entries) /\ failed \in Seq(Entries)
         /\ rescued \in Seq(Entries) /\ hooked \in Seq(Entries)
         /\ panicked \subseteq {"write", "fallback", "flush"} \X Entries
         /\ synced \in Nat /\ synced <= Len(given)
         /\ mark \in [Goroutines -> Nat]

(* What each variable may hold, and where each kind of goroutine may be. *)
TypeOK == StateOK /\ PcOK /\ EntryOK /\ TimerOK /\ OutOK

(* Writers and the fallback are never entered by two goroutines at once,   *)
(* nor written while they are being synced: what FanOutWriter relies on    *)
(* ("The logger's mutex serializes all Write calls").                      *)
InWriter == {p \in Procs : pc[p] \in {"write", "fallback", "flush", "sync"}}
OutSerialized == \A p, q \in InWriter : p = q

(* part is what is left of whole when some of it is skipped. *)
Within(part, whole) ==
  \E at \in [DOMAIN part -> DOMAIN whole] :
    \A i, j \in DOMAIN part : /\ part[i] = whole[at[i]]
                              /\ i < j => at[i] < at[j]

(* Hooks see the entries given to the writer in the order they were given, *)
(* and no entry is given before the hooks of the one before it are done.   *)
(* The one that they do not see is that on which the fallback panicked.    *)
Unhooked == {e \in Entries : <<"fallback", e>> \in panicked}
InWork == {cur[g] : g \in {f \in Goroutines :
                             mu = f /\ pc[f] \in {"count", "fallback", "hooks"}}}
HooksFollowWrites ==
  /\ Within(hooked, given)
  /\ Range(given) = Range(hooked) \union InWork \union Unhooked
  /\ Range(hooked) \intersect (InWork \union Unhooked) = {}

(* An entry gets past the checks only if its call began before closed was  *)
(* set and its level was, at some moment of the call, high enough.         *)
Admitted == \A g \in Goroutines :
              pc[g] \in {"assemble", "middleware", "lock"} \union Writing =>
                cur[g] \notin late /\ lvl[g] >= floor[g]

(* Every failed write is counted and, where there is a fallback, rescued   *)
(* in order; the one failure not yet accounted for is the holder's.        *)
FailuresAccounted ==
  LET open(l) == IF \E g \in Goroutines : pc[g] \in l THEN 1 ELSE 0
  IN /\ Len(failed) = writeErrors + open({"count"})
     /\ HasFallback =>
          rescued = SubSeq(failed, 1, Len(failed) - open({"count", "fallback"}))

(* The process ends on a flushed writer: nothing is written between the    *)
(* sync of a FATAL entry and the exit.                                     *)
ExitFlushed == exited /\ OutIsSyncer => synced = Len(given)

(* An answer of Sync or SyncWithTimeout covers everything given to the     *)
(* writer before it was asked for; it is never the answer to an earlier    *)
(* call that timed out.                                                    *)
SyncCovers == \A g \in Goroutines :
                OutIsSyncer /\ ret[g] \in {"nil", "err"} => synced >= mark[g]

(* Unless out hangs, every call returns, however many contend for the      *)
(* mutex and whatever user code and writers do, or the process ends.       *)
CallsReturn == \A g \in Goroutines :
                 pc[g] # "idle" ~> (pc[g] = "idle" \/ ~Running \/ outHung)

(* Once a FATAL entry is at the writer the process ends, although the      *)
(* write fails or hooks panic.  What can keep it alive is a writer that    *)
(* hangs, and a panic of the write, the fallback or the final sync on this *)
(* very entry.                                                             *)
FatalExits ==
  \A g \in Goroutines, e \in Entries :
    (pc[g] \in Writing /\ lvl[g] = FATAL /\ cur[g] = e)
      ~> (~Running \/ outHung \/ \E call \in {"write", "fallback", "flush"} :
                                   <<call, e>> \in panicked)

(* The goroutine SyncWithTimeout starts ends unless the writer hangs, on   *)
(* it or on whoever holds the mutex; and once the writer has answered it   *)
(* ends whatever happens, although nobody may be left to receive from it.  *)
HelperEnds == \A h \in Helpers :
                /\ pc[h] # "idle" ~> (pc[h] = "idle" \/ ~Running \/ outHung)
                /\ pc[h] = "send" ~> (pc[h] = "idle" \/ ~Running)

(* SyncWithTimeout returns even when the writer hangs: "the underlying     *)
(* sink may be slow or unreachable".                                       *)
TimedSyncReturns == \A g \in Goroutines : pc[g] = "await" ~> (pc[g] = "idle" \/ ~Running)
====
