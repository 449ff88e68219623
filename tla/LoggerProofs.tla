---- MODULE LoggerProofs ----
(***************************************************************************)
(* Theorems about Logger, for any number of goroutines, helpers and        *)
(* entries, and any configuration.                                         *)
(***************************************************************************)
EXTENDS Logger, SequenceTheorems, TLAPS

----
(* The sequence facts the steps need, at the one element type they need.   *)
LEMMA AppendEntry ==
  \A s \in Seq(Entries), e \in Entries :
    Append(s, e) \in Seq(Entries) /\ Len(Append(s, e)) = Len(s) + 1
  OBVIOUS

----
(* A panic under the mutex is a panic in one of three calls.               *)
LEMMA PanicUnwinds ==
  \A g \in Goroutines : Panics(g) =>
    \E call \in {"write", "fallback", "flush"} :
      /\ PanicIn(g, call)
      /\ rescued' = IF call = "fallback" THEN Append(rescued, cur[g]) ELSE rescued
  BY DEF Panics, WritePanic, FallbackPanic, FlushPanic

----
(* Every variable keeps its type: the base case. *)
LEMMA TypeInit == Init => TypeOK
<1> SUFFICES ASSUME Init PROVE TypeOK
  OBVIOUS
<1>1. StateOK
  BY Zenon DEF Init, StateOK
<1>2. PcOK
  BY ProcAssumption DEF Init, PcOK, Procs
<1>3. EntryOK
  BY DEF Init, EntryOK, FATAL, Checking, Writing, Procs
<1>4. TimerOK
  BY DEF Init, TimerOK, Procs
<1>5. OutOK
  BY DEF Init, OutOK
<1> QED
  BY <1>1, <1>2, <1>3, <1>4, <1>5 DEF TypeOK

(* The mutex and the logger's own state. *)
LEMMA StateStep == TypeOK /\ [Next]_vars => StateOK'
<1> SUFFICES ASSUME StateOK, [Next]_vars PROVE StateOK'
  BY DEF TypeOK
<1>1. ASSUME UNCHANGED rootVars, mu' \in {mu, NoProc} \union Procs
      PROVE  StateOK'
  BY <1>1 DEF rootVars, StateOK
<1>2. ASSUME NEW g \in Goroutines, NEW l \in MinLevels, SetLevel(g, l)
      PROVE  StateOK'
  BY <1>2 DEF SetLevel, StateOK
<1>3. ASSUME NEW g \in Goroutines, CountError(g)
      PROVE  StateOK'
  BY <1>3 DEF CountError, ErrorCount, StateOK
<1>4. ASSUME NEW g \in Goroutines, Exit(g)
      PROVE  StateOK'
  BY <1>4 DEF Exit, StateOK
<1>5. ASSUME NEW p \in Procs, StoreClosed(p)
      PROVE  StateOK'
  BY <1>5 DEF StoreClosed, StateOK
<1>6. CASE OutHang
  BY <1>6 DEF OutHang, StateOK
<1>7. ASSUME NEW g \in Goroutines,
             \/ \E e \in Entries, l \in Levels, a \in {"log", "slog"} : LogCall(g, e, l, a)
             \/ SyncCall(g) \/ \E h \in Helpers : TimedCall(g, h)
             \/ CheckClosed(g) \/ CheckLevel(g) \/ Sample(g)
             \/ MiddlewareCall(g) \/ MiddlewareReturn(g)
             \/ WriteErr(g) \/ Fallback(g) \/ FlushReturn(g)
             \/ TimedReturn(g) \/ TimedOut(g)
      PROVE  UNCHANGED <<rootVars, mu>>
  BY <1>7 DEF LogCall, SyncCall, TimedCall, CheckClosed, CheckLevel, Sample,
              MiddlewareCall, MiddlewareReturn, WriteErr, Fallback, FlushReturn,
              TimedReturn, TimedOut, TimedEnd, filterUnchanged
<1>8. ASSUME NEW g \in Goroutines,
             Lock(g) \/ WriteOk(g) \/ Panics(g) \/ RunHooks(g)
      PROVE  UNCHANGED rootVars /\ mu' \in {mu, NoProc} \union Procs
  BY <1>8, PanicUnwinds DEF Lock, Acquire, WriteOk, KeepLock, PanicIn, Unwind, Release,
              RunHooks, AfterHooks, FatalLock, Procs
<1>9. ASSUME NEW p \in Procs, LockSync(p) \/ OutSync(p) \/ HelperSend(p)
      PROVE  StateOK'
  <2>1. ASSUME LockSync(p) \/ HelperSend(p) \/ \E r : SyncReturn(p, r)
        PROVE  UNCHANGED rootVars /\ mu' \in {mu, NoProc} \union Procs
    BY <2>1 DEF LockSync, SyncMutex, Acquire, SyncReturn, Release, HelperSend
  <2>2. CASE SyncPanic(p)
    <3>1. crashed' = (p \in Helpers) /\ mu' = NoProc
          /\ UNCHANGED <<closed, minLevel, writeErrors, exited, outHung>>
      BY <2>2 DEF SyncPanic, Release
    <3>2. (p \in Helpers) \in BOOLEAN
      OBVIOUS
    <3> QED
      BY <3>1, <3>2 DEF StateOK
  <2> QED
    BY <1>1, <1>9, <2>1, <2>2 DEF OutSync
<1>10. CASE UNCHANGED vars
  BY <1>1, <1>10 DEF vars
<1> QED
  BY <1>1, <1>2, <1>3, <1>4, <1>5, <1>6, <1>7, <1>8, <1>9, <1>10
  DEF Next, Calls, Step, Inner, OutWrite, Stopped, Procs

(* Where each goroutine is. *)
LEMMA PcStep == TypeOK /\ [Next]_vars => PcOK'
<1> SUFFICES ASSUME PcOK, TimerOK, [Next]_vars PROVE PcOK'
  BY DEF TypeOK
<1>1. ASSUME NEW g \in Goroutines, NEW l, Goto(g, l), UNCHANGED waitsOn,
             pc[g] # "await",
             l \in {"idle", "close"} \union Checking \union Writing
      PROVE  PcOK'
  BY <1>1, ProcAssumption DEF Goto, PcOK, Procs, Checking, Writing
<1>2. ASSUME NEW p \in Procs, NEW l, Goto(p, l), UNCHANGED waitsOn,
             pc[p] # "await", l \in {"idle", "lockSync", "sync"}
      PROVE  PcOK'
  BY <1>2, ProcAssumption DEF Goto, PcOK, Procs, Checking, Writing
<1>3. ASSUME NEW g \in Goroutines,
             \/ \E e \in Entries, l \in Levels, a \in {"log", "slog"} : LogCall(g, e, l, a)
             \/ SyncCall(g)
             \/ CheckClosed(g) \/ CheckLevel(g) \/ Sample(g)
             \/ MiddlewareCall(g) \/ MiddlewareReturn(g) \/ Lock(g)
      PROVE  PcOK'
  <2>1. UNCHANGED waitsOn /\ pc[g] # "await"
    BY <1>3 DEF LogCall, SyncCall, CheckClosed, CheckLevel, Sample, MiddlewareCall,
                MiddlewareReturn, Lock, filterUnchanged, timerVars
  <2>2. PICK l \in {"idle", "close"} \union Checking \union Writing : Goto(g, l)
    BY <1>3 DEF LogCall, SyncCall, CheckClosed, CheckLevel, AfterLevel, Sample,
                MiddlewareCall, MiddlewareReturn, Lock, Done, Checking, Writing
  <2> QED
    BY <1>1, <2>1, <2>2
<1>4. ASSUME NEW g \in Goroutines,
             \/ OutWrite(g) \/ CountError(g) \/ Fallback(g) \/ RunHooks(g) \/ FlushReturn(g)
             \/ Panics(g)
      PROVE  PcOK'
  <2>1. UNCHANGED waitsOn /\ pc[g] # "await"
    BY <1>4, PanicUnwinds DEF OutWrite, WriteOk, WriteErr, CountError, Fallback, RunHooks,
                FlushReturn, PanicIn, timerVars
  <2>2. PICK l \in {"idle", "close"} \union Checking \union Writing : Goto(g, l)
    BY <1>4, PanicUnwinds DEF OutWrite, WriteOk, WriteErr, CountError, Fallback, RunHooks,
                HookOutcomes, AfterHooks, FlushReturn, PanicIn, Done, Writing
  <2> QED
    BY <1>1, <2>1, <2>2
<1>5. ASSUME NEW p \in Procs, StoreClosed(p) \/ LockSync(p) \/ (p \in Helpers /\ HelperSend(p))
      PROVE  PcOK'
  <2>1. UNCHANGED waitsOn /\ pc[p] # "await"
    BY <1>5 DEF StoreClosed, LockSync, HelperSend, timerVars
  <2>2. PICK l \in {"idle", "lockSync", "sync"} : Goto(p, l)
    BY <1>5 DEF StoreClosed, LockSync, HelperSend, Done
  <2> QED
    BY <1>2, <2>1, <2>2
<1>6. ASSUME NEW p \in Procs, OutSync(p)
      PROVE  PcOK'
  <2>1. /\ UNCHANGED waitsOn /\ pc[p] = "sync"
        /\ Goto(p, IF p \in Helpers THEN "send" ELSE "idle") \/ Goto(p, "idle")
    BY <1>6 DEF OutSync, SyncReturn, SyncPanic, Done, timerVars
  <2> QED
    BY <2>1, ProcAssumption DEF Goto, PcOK, Procs, Checking, Writing
<1>7. ASSUME NEW g \in Goroutines, NEW h \in Helpers, TimedCall(g, h)
      PROVE  PcOK'
  <2>1. /\ pc' = [pc EXCEPT ![g] = "await", ![h] = "close"]
        /\ waitsOn' = [waitsOn EXCEPT ![g] = h] /\ h # NoProc /\ h \notin Goroutines
    BY <1>7, ProcAssumption DEF TimedCall, Procs
  <2> QED
    BY <2>1, ProcAssumption DEF PcOK, TimerOK, Procs, Checking, Writing
<1>8. ASSUME NEW g \in Goroutines, TimedReturn(g) \/ TimedOut(g)
      PROVE  PcOK'
  <2>1. Goto(g, "idle") /\ waitsOn' = [waitsOn EXCEPT ![g] = NoProc]
    BY <1>8 DEF TimedReturn, TimedOut, TimedEnd, Done
  <2> QED
    BY <2>1, ProcAssumption DEF Goto, PcOK, TimerOK, Procs, Checking, Writing
<1>9. ASSUME UNCHANGED <<pc, waitsOn>> PROVE PcOK'
  BY <1>9 DEF PcOK
<1>10. ASSUME NEW g \in Goroutines, Exit(g) \/ \E l \in MinLevels : SetLevel(g, l)
       PROVE  PcOK'
  BY <1>9, <1>10 DEF Exit, SetLevel, timerVars
<1>11. CASE OutHang \/ UNCHANGED vars
  BY <1>9, <1>11 DEF OutHang, vars, timerVars
<1> QED
  BY <1>3, <1>4, <1>5, <1>6, <1>7, <1>8, <1>10, <1>11
  DEF Next, Calls, Step, Inner, Stopped

(* What each goroutine logs. *)
EntryVars == <<entryVars, callVars>>

LEMMA EntryStep == TypeOK /\ [Next]_vars => EntryOK'
<1> SUFFICES ASSUME StateOK, PcOK, EntryOK, [Next]_vars PROVE EntryOK'
  BY DEF TypeOK
<1>1. ASSUME NEW g \in Goroutines, NEW e \in Entries, NEW l \in Levels,
             NEW a \in {"log", "slog"}, LogCall(g, e, l, a)
      PROVE  EntryOK'
  <2>1. minLevel \in 0 .. FATAL + 1 /\ l \in 0 .. FATAL /\ SlogLevel(l) \in 0 .. FATAL
    BY LevelAssumption DEF StateOK, SlogLevel, ERROR, FATAL
  <2>2. /\ logged' = logged \union {e} /\ late' \subseteq late \union {e}
        /\ cur' = [cur EXCEPT ![g] = e] /\ api' = [api EXCEPT ![g] = a]
        /\ floor' = [floor EXCEPT ![g] = minLevel]
    BY <1>1 DEF LogCall
  <2>3. PICK n \in 0 .. FATAL : lvl' = [lvl EXCEPT ![g] = n]
    BY <1>1, <2>1 DEF LogCall
  <2>4. \A f \in Goroutines : f # g => pc'[f] = pc[f]
    BY <1>1 DEF LogCall, Goto, PcOK, Procs
  <2> QED
    BY <2>1, <2>2, <2>3, <2>4 DEF EntryOK
<1>2. ASSUME NEW g \in Goroutines, NEW l \in MinLevels, SetLevel(g, l)
      PROVE  EntryOK'
  <2>1. l \in 0 .. FATAL + 1
    BY LevelAssumption
  <2>2. floor' \in [Goroutines -> 0 .. FATAL + 1]
    BY <1>2, <2>1 DEF SetLevel, EntryOK
  <2> QED
    BY <1>2, <2>2 DEF SetLevel, callVars, EntryOK
<1>3. ASSUME UNCHANGED EntryVars,
             \A g \in Goroutines : pc'[g] \in Checking \union Writing =>
                                     pc[g] \in Checking \union Writing
      PROVE  EntryOK'
  BY <1>3 DEF EntryVars, entryVars, callVars, EntryOK
<1>4. ASSUME NEW g \in Goroutines,
             \/ CheckClosed(g) \/ CheckLevel(g) \/ Sample(g)
             \/ MiddlewareCall(g) \/ MiddlewareReturn(g) \/ Lock(g)
      PROVE  EntryOK'
  <2>1. UNCHANGED EntryVars /\ pc[g] \in Checking /\ \E l : Goto(g, l)
    BY <1>4 DEF CheckClosed, CheckLevel, Sample, MiddlewareCall, MiddlewareReturn, Lock,
                filterUnchanged, Done, Checking, EntryVars
  <2> QED
    BY <1>3, <2>1 DEF Goto, PcOK, Procs
<1>5. ASSUME NEW g \in Goroutines,
             \/ OutWrite(g) \/ CountError(g) \/ Fallback(g) \/ RunHooks(g) \/ FlushReturn(g)
             \/ Panics(g)
      PROVE  EntryOK'
  <2>1. UNCHANGED EntryVars /\ pc[g] \in Writing /\ \E l : Goto(g, l)
    BY <1>5, PanicUnwinds DEF OutWrite, WriteOk, WriteErr, CountError, Fallback, RunHooks,
                HookOutcomes, AfterHooks, FlushReturn, PanicIn, Done, Writing, EntryVars
  <2> QED
    BY <1>3, <2>1 DEF Goto, PcOK, Procs
<1>6. ASSUME NEW p \in Procs, NEW l \in {"idle", "close", "lockSync", "sync", "send"},
             Goto(p, l), UNCHANGED EntryVars
      PROVE  EntryOK'
  <2>1. \A g \in Goroutines : pc'[g] = pc[g] \/ pc'[g] = l
    BY <1>6 DEF Goto, PcOK, Procs
  <2> QED
    BY <1>3, <1>6, <2>1 DEF Checking, Writing
<1>7. ASSUME NEW p \in Procs,
             StoreClosed(p) \/ LockSync(p) \/ OutSync(p) \/ HelperSend(p)
      PROVE  EntryOK'
  <2>1. UNCHANGED EntryVars
        /\ \E l \in {"idle", "close", "lockSync", "sync", "send"} : Goto(p, l)
    BY <1>7 DEF StoreClosed, LockSync, OutSync, SyncReturn, SyncPanic, HelperSend, Done, EntryVars
  <2> QED
    BY <1>6, <2>1
<1>8. ASSUME NEW g \in Goroutines, SyncCall(g) \/ TimedReturn(g) \/ TimedOut(g)
      PROVE  EntryOK'
  <2>1. UNCHANGED EntryVars
        /\ \E l \in {"idle", "close", "lockSync", "sync", "send"} : Goto(g, l)
    BY <1>8 DEF SyncCall, TimedReturn, TimedOut, TimedEnd, Done, EntryVars
  <2> QED
    BY <1>6, <2>1 DEF Procs
<1>9. ASSUME NEW g \in Goroutines, NEW h \in Helpers, TimedCall(g, h)
      PROVE  EntryOK'
  <2>1. UNCHANGED EntryVars /\ pc' = [pc EXCEPT ![g] = "await", ![h] = "close"]
    BY <1>9 DEF TimedCall, EntryVars
  <2>2. \A f \in Goroutines : pc'[f] \in {pc[f], "await", "close"}
    BY <2>1 DEF PcOK, Procs
  <2> QED
    BY <1>3, <2>1, <2>2 DEF Checking, Writing
<1>10. CASE OutHang \/ (\E g \in Goroutines : Exit(g)) \/ UNCHANGED vars
  BY <1>3, <1>10 DEF OutHang, Exit, vars, EntryVars
<1> QED
  BY <1>1, <1>2, <1>4, <1>5, <1>7, <1>8, <1>9, <1>10
  DEF Next, Calls, Step, Inner, Stopped

(* What the sync calls have returned, and the channels of the helpers. *)
LEMMA TimerStep == TypeOK /\ [Next]_vars => TimerOK'
<1> SUFFICES ASSUME PcOK, TimerOK, [Next]_vars PROVE TimerOK'
  BY DEF TypeOK
<1>1. ASSUME UNCHANGED <<ret, waitsOn, reply>>,
             \A h \in Helpers : pc'[h] = "send" => pc[h] = "send"
      PROVE  TimerOK'
  BY <1>1 DEF TimerOK
<1>2. ASSUME NEW p \in Procs, NEW l, l # "send", Goto(p, l)
      PROVE  \A h \in Helpers : pc'[h] = "send" => pc[h] = "send"
  BY <1>2 DEF Goto, PcOK, Procs
<1>3. ASSUME NEW g \in Goroutines,
             \/ CheckClosed(g) \/ CheckLevel(g) \/ Sample(g)
             \/ MiddlewareCall(g) \/ MiddlewareReturn(g) \/ Lock(g)
      PROVE  TimerOK'
  <2>1. UNCHANGED <<ret, waitsOn, reply>> /\ \E l : l # "send" /\ Goto(g, l)
    BY <1>3 DEF CheckClosed, CheckLevel, AfterLevel, Sample, MiddlewareCall,
                MiddlewareReturn, Lock, filterUnchanged, Done, timerVars
  <2> QED
    BY <1>1, <1>2, <2>1 DEF Procs
<1>4. ASSUME NEW g \in Goroutines,
             \/ OutWrite(g) \/ CountError(g) \/ Fallback(g) \/ RunHooks(g) \/ FlushReturn(g)
             \/ Panics(g)
      PROVE  TimerOK'
  <2>1. UNCHANGED <<ret, waitsOn, reply>> /\ \E l : l # "send" /\ Goto(g, l)
    BY <1>4, PanicUnwinds DEF OutWrite, WriteOk, WriteErr, CountError, Fallback, RunHooks,
                HookOutcomes, AfterHooks, FlushReturn, PanicIn, Done, timerVars
  <2> QED
    BY <1>1, <1>2, <2>1 DEF Procs
<1>5. ASSUME NEW p \in Procs, StoreClosed(p) \/ LockSync(p) \/ SyncPanic(p)
      PROVE  TimerOK'
  <2>1. UNCHANGED <<ret, waitsOn, reply>> /\ \E l : l # "send" /\ Goto(p, l)
    BY <1>5 DEF StoreClosed, LockSync, SyncPanic, Done, timerVars
  <2> QED
    BY <1>1, <1>2, <2>1
<1>6. ASSUME NEW g \in Goroutines,
             \/ \E e \in Entries, l \in Levels, a \in {"log", "slog"} : LogCall(g, e, l, a)
             \/ SyncCall(g)
      PROVE  TimerOK'
  <2>1. /\ ret' = [ret EXCEPT ![g] = "none"] /\ UNCHANGED <<waitsOn, reply>>
        /\ \E l : l # "send" /\ Goto(g, l)
    BY <1>6 DEF LogCall, SyncCall, timerVars
  <2>2. \A h \in Helpers : ret'[h] = ret[h]
    BY <2>1, ProcAssumption DEF TimerOK
  <2>3. \A h \in Helpers : pc'[h] = "send" => pc[h] = "send"
    BY <1>2, <2>1 DEF Procs
  <2> QED
    BY <2>1, <2>2, <2>3 DEF TimerOK
<1>7. ASSUME NEW p \in Procs, NEW r \in {"nil", "benign", "err"}, SyncReturn(p, r)
      PROVE  TimerOK'
  <2>1. PICK s \in {"nil", "err"} : ret' = [ret EXCEPT ![p] = s]
    BY <1>7 DEF SyncReturn
  <2>2. UNCHANGED <<waitsOn, reply>>
        /\ \A h \in Helpers : h # p => pc'[h] = pc[h]
    BY <1>7 DEF SyncReturn, timerVars, Goto, PcOK, Procs
  <2> QED
    BY <2>1, <2>2 DEF TimerOK, Procs
<1>8. ASSUME NEW g \in Goroutines, NEW h \in Helpers, TimedCall(g, h)
      PROVE  TimerOK'
  <2>1. /\ ret' = [ret EXCEPT ![g] = "none", ![h] = "none"]
        /\ waitsOn' = [waitsOn EXCEPT ![g] = h]
        /\ reply' = [reply EXCEPT ![h] = <<>>]
        /\ pc' = [pc EXCEPT ![g] = "await", ![h] = "close"]
    BY <1>8 DEF TimedCall, NewChannel
  <2>2. \A k \in Helpers : pc'[k] = "send" => pc[k] = "send" /\ ret'[k] = ret[k]
    BY <2>1, ProcAssumption DEF PcOK, TimerOK, Procs
  <2> QED
    BY <2>1, <2>2 DEF TimerOK, Procs
<1>9. ASSUME NEW h \in Helpers, HelperSend(h)
      PROVE  TimerOK'
  <2>1. /\ ret[h] \in {"nil", "err"} /\ reply' = [reply EXCEPT ![h] = <<ret[h]>>]
        /\ UNCHANGED <<ret, waitsOn>> /\ Goto(h, "idle")
    BY <1>9 DEF HelperSend, Done, TimerOK
  <2>2. \A k \in Helpers : pc'[k] = "send" => pc[k] = "send"
    BY <1>2, <2>1 DEF Procs
  <2> QED
    BY <2>1, <2>2 DEF TimerOK
<1>10. ASSUME NEW g \in Goroutines, TimedReturn(g) \/ TimedOut(g)
       PROVE  TimerOK'
  <2>1. PICK r \in {"nil", "err", "timeout"} : ret' = [ret EXCEPT ![g] = r]
    <3>1. CASE TimedOut(g)
      BY <3>1 DEF TimedOut, TimedEnd
    <3>2. CASE TimedReturn(g)
      <4>1. waitsOn[g] \in Helpers
        BY <3>2 DEF TimedReturn, PcOK, TimerOK
      <4>2. PICK r \in {"nil", "err"} : reply[waitsOn[g]] = <<r>>
        BY <3>2, <4>1 DEF TimedReturn, TimerOK
      <4>3. Head(reply[waitsOn[g]]) = r
        BY <4>2
      <4> QED
        BY <3>2, <4>3 DEF TimedReturn, TimedEnd
    <3> QED
      BY <1>10, <3>1, <3>2
  <2>2. /\ waitsOn' = [waitsOn EXCEPT ![g] = NoProc] /\ UNCHANGED reply
        /\ Goto(g, "idle")
    BY <1>10 DEF TimedReturn, TimedOut, TimedEnd, Done
  <2>3. \A h \in Helpers : (pc'[h] = "send" => pc[h] = "send") /\ ret'[h] = ret[h]
    BY <1>2, <2>1, <2>2, ProcAssumption DEF TimerOK, Procs
  <2> QED
    BY <2>1, <2>2, <2>3 DEF TimerOK, Procs
<1>11. ASSUME NEW g \in Goroutines, Exit(g) \/ \E l \in MinLevels : SetLevel(g, l)
       PROVE  TimerOK'
  BY <1>1, <1>11 DEF Exit, SetLevel, timerVars
<1>12. CASE OutHang \/ UNCHANGED vars
  BY <1>1, <1>12 DEF OutHang, vars, timerVars
<1> QED
  BY <1>3, <1>4, <1>5, <1>6, <1>7, <1>8, <1>9, <1>10, <1>11, <1>12
  DEF Next, Calls, Step, Inner, OutSync, Stopped

(* What has been written, and how much of it was synced or asked for. *)
LEMMA OutStep == TypeOK /\ [Next]_vars => OutOK'
<1> SUFFICES ASSUME EntryOK, OutOK, [Next]_vars PROVE OutOK'
  BY DEF TypeOK
<1>1. ASSUME UNCHANGED <<outVars, mark>>
      PROVE  OutOK'
  BY <1>1 DEF outVars, OutOK
<1>2. ASSUME NEW g \in Goroutines, pc[g] \in Writing
      PROVE  cur[g] \in Entries
  BY <1>2 DEF EntryOK
<1>3. ASSUME NEW g \in Goroutines, WriteOk(g) \/ WriteErr(g)
      PROVE  OutOK'
  <2>1. /\ cur[g] \in Entries
        /\ given' = Append(given, cur[g]) /\ failed' \in {failed, Append(failed, cur[g])}
        /\ UNCHANGED <<rescued, hooked, panicked, synced, mark>>
    BY <1>2, <1>3 DEF WriteOk, WriteErr, timerVars, Writing
  <2>2. failed' \in Seq(Entries) /\ given' \in Seq(Entries)
    BY <2>1, AppendEntry DEF OutOK
  <2>3. Len(given') = Len(given) + 1
    BY <2>1, AppendEntry DEF OutOK
  <2>4. Len(given) \in Nat /\ synced \in Nat /\ synced <= Len(given)
    BY LenProperties DEF OutOK
  <2>5. synced <= Len(given')
    BY <2>3, <2>4
  <2> QED
    BY <2>1, <2>2, <2>5 DEF OutOK
<1>4. ASSUME NEW g \in Goroutines, Fallback(g) \/ RunHooks(g)
      PROVE  OutOK'
  <2>1. /\ cur[g] \in Entries
        /\ rescued' \in {rescued, Append(rescued, cur[g])}
        /\ hooked' \in {hooked, Append(hooked, cur[g])}
        /\ UNCHANGED <<given, failed, panicked, synced, mark>>
    BY <1>2, <1>4 DEF Fallback, RunHooks, timerVars, Writing
  <2> QED
    BY <2>1, AppendEntry DEF OutOK
<1>11. ASSUME NEW g \in Goroutines, Panics(g)
       PROVE  OutOK'
  <2>1. PICK call \in {"write", "fallback", "flush"} :
          /\ PanicIn(g, call)
          /\ rescued' = IF call = "fallback" THEN Append(rescued, cur[g]) ELSE rescued
    BY <1>11, PanicUnwinds
  <2>2. /\ cur[g] \in Entries /\ panicked' = panicked \union {<<call, cur[g]>>}
        /\ rescued' \in {rescued, Append(rescued, cur[g])}
        /\ UNCHANGED <<given, failed, hooked, synced, mark>>
    BY <1>2, <2>1 DEF PanicIn, timerVars, Writing
  <2>3. <<call, cur[g]>> \in {"write", "fallback", "flush"} \X Entries
    BY <2>2
  <2> QED
    BY <2>2, <2>3, AppendEntry DEF OutOK
<1>5. ASSUME synced' \in {synced, Len(given)},
             UNCHANGED <<given, failed, rescued, hooked, panicked, mark>>
      PROVE  OutOK'
  BY <1>5, LenProperties DEF OutOK
<1>6. ASSUME NEW p \in Procs, (p \in Goroutines /\ FlushReturn(p)) \/ OutSync(p)
      PROVE  OutOK'
  BY <1>5, <1>6 DEF FlushReturn, OutSync, SyncReturn, SyncPanic, timerVars, outVars
<1>7. ASSUME NEW g \in Goroutines, SyncCall(g) \/ \E h \in Helpers : TimedCall(g, h)
      PROVE  OutOK'
  <2>1. mark' = [mark EXCEPT ![g] = Len(given)] /\ UNCHANGED outVars
    BY <1>7 DEF SyncCall, TimedCall
  <2>2. Len(given) \in Nat
    BY LenProperties DEF OutOK
  <2> QED
    BY <2>1, <2>2 DEF OutOK, outVars
<1>8. ASSUME NEW g \in Goroutines,
             \/ \E e \in Entries, l \in Levels, a \in {"log", "slog"} : LogCall(g, e, l, a)
             \/ \E l \in MinLevels : SetLevel(g, l)
             \/ CheckClosed(g) \/ CheckLevel(g) \/ Sample(g)
             \/ MiddlewareCall(g) \/ MiddlewareReturn(g)
             \/ Lock(g) \/ CountError(g) \/ Exit(g)
             \/ TimedReturn(g) \/ TimedOut(g)
      PROVE  UNCHANGED <<outVars, mark>>
  BY <1>8 DEF LogCall, SetLevel, CheckClosed, CheckLevel, Sample, MiddlewareCall,
              MiddlewareReturn, Lock, CountError, Exit, TimedReturn, TimedOut,
              TimedEnd, filterUnchanged, timerVars
<1>9. ASSUME NEW p \in Procs, StoreClosed(p) \/ LockSync(p) \/ HelperSend(p)
      PROVE  UNCHANGED <<outVars, mark>>
  BY <1>9 DEF StoreClosed, LockSync, HelperSend, timerVars
<1>10. CASE OutHang \/ UNCHANGED vars
  BY <1>1, <1>10 DEF OutHang, vars, timerVars
<1> QED
  BY <1>1, <1>3, <1>4, <1>6, <1>7, <1>8, <1>9, <1>10, <1>11
  DEF Next, Calls, Step, Inner, OutWrite, Stopped

(* Logger is type-correct, for any number of goroutines and helpers. *)
THEOREM LoggerTypes == Spec => []TypeOK
<1>1. TypeOK /\ [Next]_vars => TypeOK'
  BY StateStep, PcStep, EntryStep, TimerStep, OutStep DEF TypeOK
<1> QED
  BY <1>1, TypeInit, PTL DEF Spec

----
(* The holder of the mutex is alone in the locked parts of writeEntry and  *)
(* Sync: everybody who is in one of them holds it.                         *)
Locked == Writing \union {"sync"}
HoldersOnly == \A p \in Procs : pc[p] \in Locked => mu = p

LEMMA HoldersInit == Init => HoldersOnly
  BY DEF Init, HoldersOnly, Locked, Writing

LEMMA HoldersStep == TypeOK /\ HoldersOnly /\ [Next]_vars => HoldersOnly'
<1> SUFFICES ASSUME PcOK, HoldersOnly, [Next]_vars PROVE HoldersOnly'
  BY DEF TypeOK
<1>1. ASSUME NEW p \in Procs, NEW l, Goto(p, l),
             \/ l \notin Locked /\ mu' = mu
             \/ pc[p] \in Locked /\ l \in Locked /\ mu' = mu
             \/ pc[p] \in Locked /\ l \notin Locked
             \/ mu = NoProc /\ mu' = p
      PROVE  HoldersOnly'
  <2>1. \A q \in Procs : pc'[q] = IF q = p THEN l ELSE pc[q]
    BY <1>1 DEF Goto, PcOK
  <2>2. \A q \in Procs : q # NoProc
    BY ProcAssumption
  <2> QED
    BY <1>1, <2>1, <2>2 DEF HoldersOnly
<1>2. ASSUME NEW g \in Goroutines,
             \/ \E e \in Entries, l \in Levels, a \in {"log", "slog"} : LogCall(g, e, l, a)
             \/ SyncCall(g) \/ TimedReturn(g) \/ TimedOut(g)
             \/ CheckClosed(g) \/ CheckLevel(g) \/ Sample(g)
             \/ MiddlewareCall(g) \/ MiddlewareReturn(g)
      PROVE  HoldersOnly'
  <2>1. mu' = mu /\ \E l : l \notin Locked /\ Goto(g, l)
    BY <1>2 DEF LogCall, SyncCall, TimedReturn, TimedOut, TimedEnd, CheckClosed, CheckLevel,
                AfterLevel, Sample, MiddlewareCall, MiddlewareReturn, filterUnchanged,
                Done, Locked, Writing
  <2> QED
    BY <1>1, <2>1 DEF Procs
<1>3. ASSUME NEW g \in Goroutines, NEW h \in Helpers, TimedCall(g, h)
      PROVE  HoldersOnly'
  <2>1. mu' = mu /\ \A p \in Procs : pc'[p] \in {pc[p], "await", "close"}
    BY <1>3 DEF TimedCall, PcOK
  <2> QED
    BY <2>1 DEF HoldersOnly, Locked, Writing
<1>4. ASSUME NEW g \in Goroutines, Lock(g) \/ LockSync(g)
      PROVE  HoldersOnly'
  BY <1>1, <1>4 DEF Lock, LockSync, SyncMutex, Acquire, Procs
<1>5. ASSUME NEW g \in Goroutines,
             WriteOk(g) \/ WriteErr(g) \/ CountError(g) \/ Fallback(g) \/ FlushReturn(g)
      PROVE  HoldersOnly'
  <2>1. mu' = mu /\ pc[g] \in Locked /\ \E l \in Locked : Goto(g, l)
    BY <1>5 DEF WriteOk, KeepLock, WriteErr, CountError, Fallback, FlushReturn,
                Locked, Writing
  <2> QED
    BY <1>1, <2>1 DEF Procs
<1>6. ASSUME NEW g \in Goroutines, Panics(g) \/ RunHooks(g)
      PROVE  HoldersOnly'
  <2>1. pc[g] \in Locked
    BY <1>6, PanicUnwinds DEF PanicIn, RunHooks, Locked, Writing
  <2>2. \/ Goto(g, "idle")
        \/ mu' = mu /\ \E l \in {"flush", "exit"} : Goto(g, l)
    BY <1>6, PanicUnwinds DEF PanicIn, RunHooks, HookOutcomes, AfterHooks, FatalLock, Done
  <2> QED
    BY <1>1, <2>1, <2>2 DEF Procs, Locked, Writing
<1>7. ASSUME NEW p \in Procs, LockSync(p) \/ OutSync(p)
      PROVE  HoldersOnly'
  BY <1>1, <1>7 DEF LockSync, SyncMutex, Acquire, OutSync, SyncReturn, SyncPanic, Done,
                    Locked, Writing
<1>8. ASSUME NEW p \in Procs, StoreClosed(p) \/ HelperSend(p)
      PROVE  HoldersOnly'
  BY <1>1, <1>8 DEF StoreClosed, HelperSend, Done, Locked, Writing
<1>9. ASSUME UNCHANGED <<pc, mu>> PROVE HoldersOnly'
  BY <1>9 DEF HoldersOnly
<1>10. ASSUME NEW g \in Goroutines, Exit(g) \/ \E l \in MinLevels : SetLevel(g, l)
       PROVE  UNCHANGED <<pc, mu>>
  BY <1>10 DEF Exit, SetLevel
<1>11. CASE OutHang \/ UNCHANGED vars
  BY <1>9, <1>11 DEF OutHang, vars
<1> QED
  BY <1>2, <1>3, <1>4, <1>5, <1>6, <1>7, <1>8, <1>9, <1>10, <1>11
  DEF Next, Calls, Step, Inner, OutWrite, Stopped

(* Writer and fallback are never entered by two goroutines at once, which  *)
(* is what FanOutWriter relies on (the mutex of writeEntry and Sync).      *)
THEOREM Serialized == Spec => []OutSerialized
<1>1. HoldersOnly => OutSerialized
  BY DEF HoldersOnly, OutSerialized, InWriter, Locked, Writing
<1> QED
  BY <1>1, LoggerTypes, HoldersInit, HoldersStep, PTL DEF Spec

----
(* The exit comes from inside the lock, with the writer synced; and once   *)
(* the process has exited nothing moves.                                   *)
ExitInv == /\ exited => \E g \in Goroutines : pc[g] = "exit"
           /\ OutIsSyncer => \A g \in Goroutines : pc[g] = "exit" => synced = Len(given)

LEMMA ExitStep == TypeOK /\ HoldersOnly /\ ExitInv /\ [Next]_vars => ExitInv'
<1> SUFFICES ASSUME PcOK, HoldersOnly, ExitInv, [Next]_vars PROVE ExitInv'
  BY DEF TypeOK
<1>1. CASE UNCHANGED vars
  BY <1>1 DEF vars, rootVars, outVars, ExitInv
<1>2. ASSUME Running, exited' = exited, UNCHANGED <<given, synced>>,
             \A f \in Goroutines : pc'[f] = "exit" => pc[f] = "exit"
      PROVE  ExitInv'
  BY <1>2 DEF ExitInv, Running
<1>3. ASSUME NEW p \in Procs, NEW l, l # "exit", Goto(p, l)
      PROVE  \A f \in Goroutines : pc'[f] = "exit" => pc[f] = "exit"
  BY <1>3 DEF Goto, PcOK, Procs
<1>4. ASSUME Running, NEW g \in Goroutines,
             \/ \E e \in Entries, l \in Levels, a \in {"log", "slog"} : LogCall(g, e, l, a)
             \/ SyncCall(g) \/ TimedReturn(g) \/ TimedOut(g)
             \/ CheckClosed(g) \/ CheckLevel(g) \/ Sample(g)
             \/ MiddlewareCall(g) \/ MiddlewareReturn(g) \/ Lock(g)
             \/ Panics(g) \/ CountError(g) \/ Fallback(g)
      PROVE  ExitInv'
  <2>1. exited' = exited /\ UNCHANGED <<given, synced>> /\ \E l : l # "exit" /\ Goto(g, l)
    BY <1>4, PanicUnwinds DEF LogCall, SyncCall, TimedReturn, TimedOut, TimedEnd, CheckClosed, CheckLevel,
                AfterLevel, Sample, MiddlewareCall, MiddlewareReturn, Lock, PanicIn,
                CountError, Fallback, filterUnchanged, Done, rootVars, outVars
  <2> QED
    BY <1>2, <1>3, <1>4, <2>1 DEF Procs
<1>5. ASSUME Running, NEW p \in Procs, StoreClosed(p) \/ LockSync(p) \/ HelperSend(p)
      PROVE  ExitInv'
  <2>1. exited' = exited /\ UNCHANGED <<given, synced>> /\ \E l : l # "exit" /\ Goto(p, l)
    BY <1>5 DEF StoreClosed, LockSync, HelperSend, Done, rootVars, outVars
  <2> QED
    BY <1>2, <1>3, <1>5, <2>1
<1>6. ASSUME Running, NEW g \in Goroutines, NEW h \in Helpers, TimedCall(g, h)
      PROVE  ExitInv'
  <2>1. exited' = exited /\ UNCHANGED <<given, synced>>
        /\ \A f \in Goroutines : pc'[f] \in {pc[f], "await", "close"}
    BY <1>6 DEF TimedCall, PcOK, Procs, rootVars, outVars
  <2> QED
    BY <1>2, <1>6, <2>1
<1>7. ASSUME Running, NEW p \in Procs, pc[p] \in Locked, pc[p] # "exit",
             NEW l, Goto(p, l), l = "exit" /\ OutIsSyncer => synced' = Len(given'),
             exited' = exited
      PROVE  ExitInv'
  <2>1. \A f \in Goroutines : pc'[f] = "exit" => f = p /\ l = "exit"
    BY <1>7 DEF Goto, PcOK, Procs, HoldersOnly, Locked, Writing
  <2> QED
    BY <1>7, <2>1 DEF ExitInv, Running
<1>8. ASSUME Running, NEW g \in Goroutines, WriteOk(g) \/ WriteErr(g)
      PROVE  ExitInv'
  <2>1. exited' = exited /\ pc[g] = "write" /\ \E l : l # "exit" /\ Goto(g, l)
    BY <1>8 DEF WriteOk, WriteErr, rootVars
  <2> QED
    BY <1>7, <1>8, <2>1 DEF Procs, Locked, Writing
<1>9. ASSUME Running, NEW g \in Goroutines, RunHooks(g)
      PROVE  ExitInv'
  <2>1. exited' = exited /\ pc[g] = "hooks"
        /\ \E l : (l = "exit" => ~OutIsSyncer) /\ Goto(g, l)
    BY <1>9 DEF RunHooks, HookOutcomes, AfterHooks, Done, rootVars
  <2> QED
    BY <1>7, <1>9, <2>1 DEF Procs, Locked, Writing
<1>10. ASSUME Running, NEW g \in Goroutines, FlushReturn(g)
       PROVE  ExitInv'
  <2>1. exited' = exited /\ pc[g] = "flush" /\ Goto(g, "exit") /\ synced' = Len(given')
    BY <1>10 DEF FlushReturn, rootVars
  <2> QED
    BY <1>7, <1>10, <2>1 DEF Procs, Locked, Writing
<1>11. ASSUME Running, NEW p \in Procs, OutSync(p)
       PROVE  ExitInv'
  <2>1. exited' = exited /\ pc[p] = "sync" /\ \E l : l # "exit" /\ Goto(p, l)
    BY <1>11 DEF OutSync, SyncReturn, SyncPanic, Done, rootVars
  <2> QED
    BY <1>7, <1>11, <2>1 DEF Locked
<1>12. ASSUME NEW g \in Goroutines, Exit(g)
       PROVE  ExitInv'
  BY <1>12 DEF Exit, outVars, ExitInv
<1>13. ASSUME Running, OutHang \/ \E g \in Goroutines, l \in MinLevels : SetLevel(g, l)
       PROVE  ExitInv'
  BY <1>2, <1>13 DEF OutHang, SetLevel, outVars
<1> QED
  BY <1>1, <1>4, <1>5, <1>6, <1>8, <1>9, <1>10, <1>11, <1>12, <1>13
  DEF Next, Calls, Step, Inner, OutWrite, Stopped

(* The process ends on a flushed writer: nothing is written between the    *)
(* Sync of a FATAL entry and os.Exit.                                      *)
THEOREM ExitIsFlushed == Spec => []ExitFlushed
<1>1. Init => ExitInv
  BY DEF Init, ExitInv, Procs
<1>2. ExitInv => ExitFlushed
  BY DEF ExitInv, ExitFlushed
<1> QED
  BY <1>1, <1>2, ExitStep, LoggerTypes, HoldersInit, HoldersStep, PTL DEF Spec

----
(* An entry on its way to the writer is nobody else's and has not been     *)
(* given to it yet.                                                        *)
OnItsWay == Checking \union {"write"}
GivenInv ==
  /\ \A i, j \in DOMAIN given : given[i] = given[j] => i = j
  /\ \A i \in DOMAIN given : given[i] \in logged
  /\ \A g \in Goroutines : pc[g] \in OnItsWay =>
       /\ cur[g] \in logged
       /\ \A i \in DOMAIN given : given[i] # cur[g]
       /\ \A h \in Goroutines : h # g /\ pc[h] \in OnItsWay => cur[h] # cur[g]

LEMMA GivenInit == Init => GivenInv
  BY DEF Init, GivenInv, OnItsWay, Checking, Procs

LEMMA GivenStep == TypeOK /\ GivenInv /\ [Next]_vars => GivenInv'
<1> SUFFICES ASSUME PcOK, EntryOK, OutOK, GivenInv, [Next]_vars PROVE GivenInv'
  BY DEF TypeOK
<1> USE DEF OnItsWay, Procs
<1>0. pc \in [Procs -> {"idle", "close", "lockSync", "sync", "send", "await"}
                         \union Checking \union Writing]
  BY DEF PcOK
<1>1. ASSUME UNCHANGED <<given, cur, logged>>,
             \A g \in Goroutines : pc'[g] \in OnItsWay => pc[g] \in OnItsWay
      PROVE  GivenInv'
  BY <1>1 DEF GivenInv
<1>2. ASSUME NEW g \in Goroutines, NEW e \in Entries, NEW l \in Levels,
             NEW a \in {"log", "slog"}, LogCall(g, e, l, a)
      PROVE  GivenInv'
  <2>1. /\ e \notin logged /\ logged' = logged \union {e} /\ UNCHANGED given
        /\ \A h \in Goroutines : /\ cur'[h] = IF h = g THEN e ELSE cur[h]
                                 /\ h # g => pc'[h] = pc[h]
    BY <1>0, <1>2 DEF LogCall, Goto, outVars, EntryOK
  <2> QED
    BY <2>1 DEF GivenInv
<1>3. ASSUME NEW g \in Goroutines, WriteOk(g) \/ WriteErr(g) PROVE GivenInv'
  <2>1. /\ pc[g] = "write" /\ given' = Append(given, cur[g]) /\ UNCHANGED <<cur, logged>>
        /\ \A h \in Goroutines : h # g => pc'[h] = pc[h]
        /\ pc'[g] \notin OnItsWay
    BY <1>0, <1>3 DEF WriteOk, WriteErr, Goto, entryVars, callVars, Checking
  <2>2. cur[g] \in logged /\ \A i \in DOMAIN given : given[i] # cur[g]
    BY <2>1 DEF GivenInv
  <2>3. /\ DOMAIN given = 1 .. Len(given) /\ Len(given) \in Nat
        /\ DOMAIN given' = 1 .. Len(given) + 1
        /\ \A i \in DOMAIN given : given'[i] = given[i]
        /\ given'[Len(given) + 1] = cur[g]
    BY <2>1 DEF OutOK
  <2>4. \A i \in DOMAIN given' : i \in DOMAIN given \/ i = Len(given) + 1
    BY <2>3
  <2>5. \A h \in Goroutines : pc'[h] \in OnItsWay => h # g /\ pc[h] \in OnItsWay
    BY <2>1
  <2>6. \A h \in Goroutines : h # g /\ pc[h] \in OnItsWay => cur[h] # cur[g]
    BY <2>1 DEF GivenInv
  <2>7. \A i, j \in DOMAIN given' : given'[i] = given'[j] => i = j
    BY <2>2, <2>3, <2>4 DEF GivenInv
  <2>8. \A i \in DOMAIN given' : given'[i] \in logged
    BY <2>2, <2>3, <2>4 DEF GivenInv
  <2>9. \A h \in Goroutines : pc'[h] \in OnItsWay => \A i \in DOMAIN given' : given'[i] # cur[h]
    BY <2>3, <2>4, <2>5, <2>6 DEF GivenInv
  <2> QED
    BY <2>1, <2>5, <2>7, <2>8, <2>9 DEF GivenInv
<1>4. ASSUME NEW g \in Goroutines, NEW l \in MinLevels, SetLevel(g, l) PROVE GivenInv'
  BY <1>1, <1>4 DEF SetLevel, outVars, callVars
<1>5. ASSUME NEW g \in Goroutines,
             \/ SyncCall(g) \/ (\E h \in Helpers : TimedCall(g, h))
             \/ TimedReturn(g) \/ TimedOut(g) \/ Exit(g)
      PROVE  GivenInv'
  BY <1>0, <1>1, <1>5 DEF SyncCall, TimedCall, TimedReturn, TimedOut, TimedEnd, Exit, Done,
       Goto, outVars, entryVars, callVars, Checking
<1>6. ASSUME NEW g \in Goroutines,
             \/ CheckClosed(g) \/ CheckLevel(g) \/ Sample(g)
             \/ MiddlewareCall(g) \/ MiddlewareReturn(g) \/ Lock(g)
      PROVE  GivenInv'
  BY <1>0, <1>1, <1>6 DEF CheckClosed, CheckLevel, AfterLevel, Sample, MiddlewareCall,
       MiddlewareReturn, Lock, filterUnchanged, Done, Goto, outVars, entryVars, callVars, Checking
<1>7. ASSUME NEW g \in Goroutines,
             Panics(g) \/ CountError(g) \/ Fallback(g) \/ RunHooks(g) \/ FlushReturn(g)
      PROVE  GivenInv'
  BY <1>0, <1>1, <1>7, PanicUnwinds DEF PanicIn, CountError, Fallback, RunHooks, HookOutcomes, AfterHooks,
       FlushReturn, Done, Goto, outVars, entryVars, callVars, Checking
<1>8. ASSUME NEW p \in Procs, StoreClosed(p) \/ LockSync(p) \/ OutSync(p) \/ HelperSend(p)
      PROVE  GivenInv'
  BY <1>0, <1>1, <1>8 DEF StoreClosed, LockSync, OutSync, SyncReturn, SyncPanic, HelperSend, Done, Goto,
       outVars, entryVars, callVars, Checking
<1>9. CASE OutHang \/ UNCHANGED vars
  BY <1>1, <1>9 DEF OutHang, vars, outVars, entryVars, callVars
<1> QED
  BY <1>2, <1>3, <1>4, <1>5, <1>6, <1>7, <1>8, <1>9
  DEF Next, Stopped, Calls, Step, Inner, OutWrite

(* Whatever fails, panics or is retried, no entry is given to the writer   *)
(* twice (Logger.writeEntry).                                              *)
THEOREM EachGivenOnce == Spec => []GivenInv
  BY GivenInit, GivenStep, LoggerTypes, PTL DEF Spec

----
LEMMA Appended ==
  ASSUME NEW s \in Seq(Entries), NEW e \in Entries
  PROVE  /\ DOMAIN s = 1 .. Len(s) /\ Len(s) \in Nat
         /\ DOMAIN Append(s, e) = 1 .. Len(s) + 1
         /\ \A i \in DOMAIN s : Append(s, e)[i] = s[i]
         /\ Append(s, e)[Len(s) + 1] = e
         /\ \A i \in DOMAIN Append(s, e) : i \in DOMAIN s \/ i = Len(s) + 1
  OBVIOUS

(* What is within a sequence stays so when that grows, and when both grow  *)
(* by the same entry.                                                      *)
LEMMA WithinLonger ==
  ASSUME NEW a \in Seq(Entries), NEW s \in Seq(Entries), NEW e \in Entries, Within(a, s)
  PROVE  Within(a, Append(s, e))
<1>1. PICK at \in [DOMAIN a -> DOMAIN s] :
        \A i, j \in DOMAIN a : a[i] = s[at[i]] /\ (i < j => at[i] < at[j])
  BY DEF Within
<1>2. at \in [DOMAIN a -> DOMAIN Append(s, e)]
  BY Appended
<1>3. \A i \in DOMAIN a : a[i] = Append(s, e)[at[i]]
  BY <1>1, Appended
<1> QED
  BY <1>1, <1>2, <1>3 DEF Within

LEMMA WithinBoth ==
  ASSUME NEW a \in Seq(Entries), NEW s \in Seq(Entries), NEW e \in Entries, Within(a, s)
  PROVE  Within(Append(a, e), Append(s, e))
<1>1. PICK at \in [DOMAIN a -> DOMAIN s] :
        \A i, j \in DOMAIN a : a[i] = s[at[i]] /\ (i < j => at[i] < at[j])
  BY DEF Within
<1> DEFINE a1 == Append(a, e)
           s1 == Append(s, e)
           to == [i \in DOMAIN a1 |-> IF i \in DOMAIN a THEN at[i] ELSE Len(s) + 1]
<1>2. /\ DOMAIN a = 1 .. Len(a) /\ Len(a) \in Nat /\ DOMAIN a1 = 1 .. Len(a) + 1
      /\ DOMAIN s = 1 .. Len(s) /\ Len(s) \in Nat /\ DOMAIN s1 = 1 .. Len(s) + 1
      /\ \A i \in DOMAIN a : a1[i] = a[i]
      /\ \A i \in DOMAIN s : s1[i] = s[i]
      /\ a1[Len(a) + 1] = e /\ s1[Len(s) + 1] = e
      /\ \A i \in DOMAIN a1 : i \in DOMAIN a \/ i = Len(a) + 1
  BY Appended
<1> HIDE DEF a1, s1
<1>3. /\ DOMAIN to = DOMAIN a1
      /\ \A i \in DOMAIN a : to[i] = at[i] /\ to[i] \in 1 .. Len(s)
      /\ to[Len(a) + 1] = Len(s) + 1
  BY <1>2
<1>4. to \in [DOMAIN a1 -> DOMAIN s1]
  BY <1>2, <1>3
<1> HIDE DEF to
<1>5. \A i \in DOMAIN a1 : a1[i] = s1[to[i]]
  BY <1>1, <1>2, <1>3
<1>6. \A i, j \in DOMAIN a1 : i < j => to[i] < to[j]
  BY <1>1, <1>2, <1>3
<1> QED
  BY <1>4, <1>5, <1>6 DEF Within, a1, s1

LEMMA RangeGrows ==
  ASSUME NEW s \in Seq(Entries), NEW e \in Entries
  PROVE  Range(Append(s, e)) = Range(s) \union {e}
  BY Appended DEF Range

(* The hooks have seen all of s but what the fallback has panicked on.     *)
HooksSeen(s) == /\ Within(hooked, s)
                /\ Range(s) = Range(hooked) \union Unhooked
                /\ Range(hooked) \intersect Unhooked = {}

(* They have seen all that was given, or all but the entry of the holder,  *)
(* who is on the way from its write to its hooks.                          *)
AfterWrite == {"count", "fallback", "hooks"}
InTurn(g) == /\ g \in Goroutines
             /\ \E s \in Seq(Entries) : /\ given = Append(s, cur[g])
                                        /\ cur[g] \notin Range(s)
                                        /\ HooksSeen(s)
HooksInv == IF mu # NoProc /\ pc[mu] \in AfterWrite THEN InTurn(mu) ELSE HooksSeen(given)

LEMMA HooksStep ==
  TypeOK /\ HoldersOnly /\ GivenInv /\ HooksInv /\ [Next]_vars => HooksInv'
<1> SUFFICES ASSUME StateOK, PcOK, EntryOK, OutOK, HoldersOnly, GivenInv, HooksInv,
                    [Next]_vars
             PROVE HooksInv'
  BY DEF TypeOK
<1>0. ASSUME UNCHANGED <<given, hooked, Unhooked>>
      PROVE  /\ HooksSeen(given) => HooksSeen(given)'
             /\ \A g \in Goroutines : cur'[g] = cur[g] /\ InTurn(g) => InTurn(g)'
  BY <1>0 DEF HooksSeen, InTurn, Within
<1>1. ASSUME NEW p \in Procs, NEW l, Goto(p, l), l \notin AfterWrite,
             pc[p] \notin AfterWrite, UNCHANGED <<given, hooked, Unhooked>>,
             mu' = mu, \A g \in Goroutines : pc[g] \in Writing => cur'[g] = cur[g]
      PROVE  HooksInv'
  <2>1. \A q \in Procs : pc'[q] \in AfterWrite <=> pc[q] \in AfterWrite
    BY <1>1 DEF Goto, PcOK
  <2>2. InTurn(mu) /\ pc[mu] \in AfterWrite => cur'[mu] = cur[mu]
    BY <1>1 DEF InTurn, AfterWrite, Writing
  <2> QED
    BY <1>0, <1>1, <2>1, <2>2 DEF StateOK, HooksInv, InTurn
<1>2. ASSUME NEW g \in Goroutines, NEW e \in Entries, NEW l \in Levels,
             NEW a \in {"log", "slog"}, LogCall(g, e, l, a)
      PROVE  HooksInv'
  <2>1. /\ pc[g] = "idle" /\ \E m \in {"level", "closed"} : Goto(g, m)
        /\ mu' = mu /\ UNCHANGED <<given, hooked, Unhooked>>
        /\ cur' = [cur EXCEPT ![g] = e]
    BY <1>2 DEF LogCall, outVars, Unhooked
  <2>2. \A f \in Goroutines : pc[f] \in Writing => cur'[f] = cur[f]
    BY <2>1 DEF EntryOK, Writing
  <2> QED
    BY <1>1, <2>1, <2>2 DEF Procs, AfterWrite
<1>3. ASSUME NEW g \in Goroutines,
             \/ SyncCall(g) \/ TimedReturn(g) \/ TimedOut(g)
             \/ CheckClosed(g) \/ CheckLevel(g) \/ Sample(g)
             \/ MiddlewareCall(g) \/ MiddlewareReturn(g)
             \/ FlushReturn(g)
      PROVE  HooksInv'
  <2>1. /\ pc[g] \notin AfterWrite /\ \E l : l \notin AfterWrite /\ Goto(g, l)
        /\ UNCHANGED <<mu, given, hooked, panicked, cur>>
    BY <1>3 DEF SyncCall, TimedReturn, TimedOut, TimedEnd, CheckClosed, CheckLevel,
                AfterLevel, Sample, MiddlewareCall, MiddlewareReturn, filterUnchanged,
                FlushReturn, Done, AfterWrite, entryVars, outVars
  <2> QED
    BY <1>1, <2>1 DEF Procs, Unhooked
<1>4. ASSUME NEW p \in Procs, StoreClosed(p) \/ HelperSend(p)
      PROVE  HooksInv'
  <2>1. /\ pc[p] \notin AfterWrite /\ \E l : l \notin AfterWrite /\ Goto(p, l)
        /\ UNCHANGED <<mu, given, hooked, panicked, cur>>
    BY <1>4 DEF StoreClosed, HelperSend, Done, AfterWrite, entryVars, outVars
  <2> QED
    BY <1>1, <2>1 DEF Unhooked
<1>5. ASSUME NEW g \in Goroutines, NEW h \in Helpers, TimedCall(g, h)
      PROVE  HooksInv'
  <2>1. /\ \A p \in Procs : p \notin {g, h} => pc'[p] = pc[p]
        /\ pc'[g] = "await" /\ pc'[h] = "close"
        /\ pc[g] = "idle" /\ pc[h] = "idle"
        /\ UNCHANGED <<mu, given, hooked, panicked, cur>>
    BY <1>5, ProcAssumption DEF TimedCall, Free, PcOK, Procs, entryVars, outVars
  <2>2. \A p \in Procs : pc'[p] \in AfterWrite <=> pc[p] \in AfterWrite
    BY <2>1 DEF AfterWrite
  <2> QED
    BY <1>0, <2>1, <2>2 DEF StateOK, HooksInv, InTurn, Unhooked
<1>6. ASSUME NEW p \in Procs,
             \/ p \in Goroutines /\ (Lock(p) \/ WritePanic(p) \/ FlushPanic(p))
             \/ LockSync(p) \/ OutSync(p)
      PROVE  HooksInv'
  <2>1. /\ \E l : l \notin AfterWrite /\ Goto(p, l)
        /\ mu = NoProc \/ pc[p] \in {"write", "flush", "sync"}
        /\ mu' \in {p, NoProc}
        /\ UNCHANGED <<given, hooked>>
    BY <1>6 DEF Lock, LockSync, SyncMutex, Acquire, WritePanic, FlushPanic, PanicIn, Unwind,
                OutSync, SyncReturn, SyncPanic, Release, Done, AfterWrite, outVars
  <2>2. Unhooked' = Unhooked
    <3>1. \/ panicked' = panicked
          \/ \E call \in {"write", "flush"} : \E e : panicked' = panicked \union {<<call, e>>}
      BY <1>6 DEF Lock, LockSync, WritePanic, FlushPanic, PanicIn, OutSync, SyncReturn,
                  SyncPanic, outVars
    <3> QED
      BY <3>1 DEF Unhooked
  <2>3. HooksSeen(given)
    BY <2>1 DEF HooksInv, HoldersOnly, Locked, Writing, AfterWrite
  <2>4. pc'[p] \notin AfterWrite
    BY <2>1 DEF Goto, PcOK
  <2> QED
    BY <1>0, <2>1, <2>2, <2>3, <2>4 DEF HooksInv
<1>7. ASSUME NEW g \in Goroutines, WriteOk(g) \/ WriteErr(g)
      PROVE  HooksInv'
  <2>1. /\ pc[g] = "write" /\ \E l \in {"hooks", "count"} : Goto(g, l)
        /\ given' = Append(given, cur[g]) /\ UNCHANGED <<mu, hooked, panicked, cur>>
    BY <1>7 DEF WriteOk, KeepLock, WriteErr, entryVars
  <2>2. mu = g /\ HooksSeen(given) /\ given \in Seq(Entries)
    BY <2>1 DEF HooksInv, HoldersOnly, Locked, Writing, AfterWrite, OutOK, Procs
  <2>3. cur[g] \notin Range(given)
    BY <2>1 DEF GivenInv, OnItsWay, Range
  <2>4. HooksSeen(given) => /\ Within(hooked', given)
                           /\ Range(given) = Range(hooked') \union Unhooked'
                           /\ Range(hooked') \intersect Unhooked' = {}
    BY <2>1 DEF HooksSeen, Unhooked
  <2>5. InTurn(g)'
    BY <2>1, <2>2, <2>3, <2>4 DEF InTurn, HooksSeen
  <2> QED
    BY <2>1, <2>2, <2>5, ProcAssumption DEF Goto, PcOK, HooksInv, AfterWrite, Procs
<1>8. ASSUME NEW g \in Goroutines, CountError(g) \/ Fallback(g)
      PROVE  HooksInv'
  <2>1. /\ pc[g] \in AfterWrite /\ \E l \in AfterWrite : Goto(g, l)
        /\ UNCHANGED <<mu, given, hooked, panicked, cur>>
    BY <1>8 DEF CountError, Fallback, AfterWrite, entryVars, outVars
  <2>2. mu = g
    BY <2>1 DEF HoldersOnly, Locked, Writing, AfterWrite, Procs
  <2>3. InTurn(g) => InTurn(g)'
    BY <1>0, <2>1 DEF Unhooked
  <2> QED
    BY <2>1, <2>2, <2>3, ProcAssumption DEF Goto, PcOK, HooksInv, Procs
<1>9. ASSUME NEW g \in Goroutines, RunHooks(g) \/ FallbackPanic(g)
      PROVE  HooksInv'
  <2>1. /\ pc[g] \in {"hooks", "fallback"} /\ \E l \in {"idle", "flush", "exit"} : Goto(g, l)
        /\ mu' \in {mu, NoProc} /\ UNCHANGED given
    BY <1>9 DEF RunHooks, HookOutcomes, AfterHooks, FatalLock, Release, FallbackPanic,
                PanicIn, Unwind, Done
  <2>2. mu = g /\ InTurn(g)
    BY <2>1, ProcAssumption DEF HooksInv, HoldersOnly, Locked, Writing, AfterWrite, Procs
  <2>3. PICK s \in Seq(Entries) : /\ given = Append(s, cur[g]) /\ cur[g] \notin Range(s)
                                  /\ HooksSeen(s)
    BY <2>2 DEF InTurn
  <2>4. cur[g] \in Entries /\ hooked \in Seq(Entries)
    BY <2>1 DEF EntryOK, OutOK, Writing
  <2>5. Range(given) = Range(s) \union {cur[g]}
    BY <2>3, <2>4, RangeGrows
  <2>6. ASSUME RunHooks(g) PROVE HooksSeen(given)'
    <3>1. hooked' = Append(hooked, cur[g]) /\ UNCHANGED panicked
      BY <2>6 DEF RunHooks
    <3>2. Within(hooked', given)
      BY <2>3, <2>4, <3>1, WithinBoth DEF HooksSeen
    <3>3. Range(hooked') = Range(hooked) \union {cur[g]}
      BY <2>4, <3>1, RangeGrows
    <3>4. Within(hooked, given)' /\ Unhooked' = Unhooked
      BY <2>1, <3>1, <3>2 DEF Within, Unhooked
    <3> QED
      BY <2>1, <2>3, <2>5, <3>3, <3>4 DEF HooksSeen
  <2>7. ASSUME FallbackPanic(g) PROVE HooksSeen(given)'
    <3>1. panicked' = panicked \union {<<"fallback", cur[g]>>} /\ UNCHANGED hooked
      BY <2>7 DEF FallbackPanic, PanicIn
    <3>2. Unhooked' = Unhooked \union {cur[g]}
      BY <2>4, <3>1 DEF Unhooked
    <3>3. Within(hooked, given)
      BY <2>3, <2>4, WithinLonger DEF HooksSeen
    <3>4. Within(hooked, given)'
      BY <2>1, <3>1, <3>3 DEF Within
    <3> QED
      BY <2>1, <2>3, <2>5, <3>1, <3>2, <3>4 DEF HooksSeen
  <2>8. HooksSeen(given)'
    BY <1>9, <2>6, <2>7
  <2> QED
    BY <2>1, <2>2, <2>8 DEF Goto, PcOK, HooksInv, AfterWrite, Procs
<1>10. ASSUME UNCHANGED <<mu, pc, given, hooked, panicked, cur>> PROVE HooksInv'
  BY <1>0, <1>10 DEF HooksInv, InTurn, Unhooked
<1>11. ASSUME NEW g \in Goroutines, Exit(g) \/ \E l \in MinLevels : SetLevel(g, l)
       PROVE  HooksInv'
  BY <1>10, <1>11 DEF Exit, SetLevel, entryVars, outVars
<1>12. CASE OutHang \/ UNCHANGED vars
  BY <1>10, <1>12 DEF OutHang, vars, entryVars, outVars
<1> QED
  BY <1>2, <1>3, <1>4, <1>5, <1>6, <1>7, <1>8, <1>9, <1>11, <1>12
  DEF Next, Calls, Step, Inner, OutWrite, Panics, Stopped, Procs

(* Hooks see the entries given to the writer in the order they were given, *)
(* all but those on which the fallback writer panicked, whatever the       *)
(* writer answers and however many goroutines log (writeEntry).            *)
THEOREM HooksInOrder == Spec => []HooksFollowWrites
<1>1. Init => HooksInv
  <2> SUFFICES ASSUME Init PROVE HooksSeen(given)
    BY DEF Init, HooksInv
  <2>1. given = <<>> /\ hooked = <<>> /\ panicked = {}
    BY DEF Init
  <2>2. [i \in DOMAIN hooked |-> i] \in [DOMAIN hooked -> DOMAIN given]
    BY <2>1
  <2> QED
    BY <2>1, <2>2 DEF HooksSeen, Unhooked, Within, Range
<1>2. TypeOK /\ HooksInv => HooksFollowWrites
  <2> SUFFICES ASSUME TypeOK, HooksInv PROVE HooksFollowWrites
    OBVIOUS
  <2>1. CASE mu # NoProc /\ pc[mu] \in AfterWrite
    <3>1. PICK s \in Seq(Entries) : /\ given = Append(s, cur[mu])
                                    /\ cur[mu] \notin Range(s) /\ HooksSeen(s)
      BY <2>1 DEF HooksInv, InTurn
    <3>2. mu \in Goroutines /\ cur[mu] \in Entries /\ hooked \in Seq(Entries)
      BY <2>1 DEF HooksInv, InTurn, TypeOK, EntryOK, OutOK, AfterWrite, Writing
    <3>3. InWork = {cur[mu]}
      BY <2>1, <3>2 DEF InWork, AfterWrite
    <3>4. Range(given) = Range(s) \union {cur[mu]} /\ Within(hooked, given)
      BY <3>1, <3>2, RangeGrows, WithinLonger DEF HooksSeen
    <3> QED
      BY <3>1, <3>3, <3>4 DEF HooksSeen, HooksFollowWrites
  <2>2. CASE ~(mu # NoProc /\ pc[mu] \in AfterWrite)
    <3>1. InWork = {}
      BY <2>2, ProcAssumption DEF InWork, AfterWrite, Procs
    <3> QED
      BY <2>2, <3>1 DEF HooksInv, HooksSeen, HooksFollowWrites
  <2> QED
    BY <2>1, <2>2
<1> QED
  BY <1>1, <1>2, HooksStep, GivenStep, GivenInit, LoggerTypes, HoldersInit, HoldersStep,
     PTL DEF Spec

----
(* What a goroutine has established at each point of its checks: which     *)
(* checks are behind it depends on the path it came by.                    *)
Passed == {"assemble", "middleware", "lock"} \union Writing
OpenSeen(g) == pc[g] \in Passed \union {"sample"} \/ (pc[g] = "level" /\ api[g] = "log")
LevelSeen(g) == pc[g] \in Passed \union {"sample"} \/ (pc[g] = "closed" /\ api[g] = "slog")
AdmitInv ==
  /\ late # {} => closed
  /\ \A g \in Goroutines :
       /\ pc[g] \in Checking \union Writing => floor[g] <= minLevel
       /\ pc[g] = "sample" => api[g] = "log"
       /\ OpenSeen(g) => cur[g] \notin late
       /\ LevelSeen(g) => lvl[g] >= floor[g]

LEMMA AdmitStep == TypeOK /\ AdmitInv /\ [Next]_vars => AdmitInv'
<1> SUFFICES ASSUME StateOK, PcOK, EntryOK, AdmitInv, [Next]_vars PROVE AdmitInv'
  BY DEF TypeOK
<1> USE DEF OpenSeen, LevelSeen, Passed, Checking, Writing
<1>0. /\ minLevel \in Int
      /\ \A g \in Goroutines : floor[g] \in Int /\ lvl[g] \in Int
  BY LevelAssumption DEF StateOK, EntryOK, FATAL
<1>1. ASSUME UNCHANGED <<EntryVars, minLevel>>, closed' \in {closed, TRUE},
             \A g \in Goroutines :
               /\ pc'[g] \in Checking \union Writing => pc[g] \in Checking \union Writing
               /\ pc'[g] = "sample" => api[g] = "log"
               /\ OpenSeen(g)' => OpenSeen(g) \/ ~closed
               /\ LevelSeen(g)' => LevelSeen(g) \/ lvl[g] >= minLevel
      PROVE  AdmitInv'
  <2>1. UNCHANGED <<cur, lvl, api, floor, late>>
    BY <1>1 DEF EntryVars, entryVars, callVars
  <2>2. late' # {} => closed'
    <3>1. late' # {} => late # {}
      BY <2>1
    <3>2. late # {} => closed
      BY DEF AdmitInv
    <3>3. closed => closed'
      BY <1>1, Zenon
    <3> QED
      BY <3>1, <3>2, <3>3
  <2> SUFFICES ASSUME NEW g \in Goroutines
               PROVE  /\ pc'[g] \in Checking \union Writing => floor'[g] <= minLevel'
                      /\ pc'[g] = "sample" => api'[g] = "log"
                      /\ OpenSeen(g)' => cur'[g] \notin late'
                      /\ LevelSeen(g)' => lvl'[g] >= floor'[g]
    BY <2>2 DEF AdmitInv
  <2>3. pc'[g] \in Checking \union Writing => floor'[g] <= minLevel'
    BY <1>1, <2>1 DEF AdmitInv
  <2>4. OpenSeen(g)' => cur'[g] \notin late'
    BY <1>1, <2>1 DEF AdmitInv
  <2>5. LevelSeen(g)' => pc'[g] \in Checking \union Writing
    OBVIOUS
  <2>6. LevelSeen(g)' => lvl'[g] >= floor'[g]
    <3>1. LevelSeen(g)' => LevelSeen(g) \/ (lvl[g] >= minLevel /\ floor[g] <= minLevel)
      BY <1>1, <2>5 DEF AdmitInv
    <3>2. LevelSeen(g) => lvl[g] >= floor[g]
      BY DEF AdmitInv
    <3> QED
      BY <3>1, <3>2, <2>1, <1>0
  <2> QED
    BY <1>1, <2>1, <2>3, <2>4, <2>6
<1>2. ASSUME NEW g \in Goroutines, NEW e \in Entries, NEW l \in Levels,
             NEW a \in {"log", "slog"}, LogCall(g, e, l, a)
      PROVE  AdmitInv'
  <2>1. /\ e \notin logged
        /\ late' = IF closed THEN late \union {e} ELSE late
        /\ cur' = [cur EXCEPT ![g] = e] /\ api' = [api EXCEPT ![g] = a]
        /\ floor' = [floor EXCEPT ![g] = minLevel]
        /\ closed' = closed /\ minLevel' = minLevel
        /\ Goto(g, IF a = "slog" THEN "level" ELSE "closed")
    BY <1>2 DEF LogCall, rootVars
  <2>2. \A f \in Goroutines : f # g => lvl'[f] = lvl[f]
    BY <1>2 DEF LogCall, EntryOK
  <2>3. \A f \in Goroutines : f # g => pc'[f] = pc[f]
    BY <2>1 DEF Goto, PcOK, Procs
  <2>4. pc'[g] = (IF a = "slog" THEN "level" ELSE "closed") /\ api'[g] = a
    BY <2>1 DEF Goto, PcOK, EntryOK, Procs
  <2>5. \A f \in Goroutines : pc[f] \in Checking \union Writing => cur[f] # e
    BY <2>1 DEF EntryOK
  <2>6. \A f \in Goroutines : f # g => /\ cur'[f] = cur[f] /\ api'[f] = api[f]
                                       /\ floor'[f] = floor[f]
    BY <2>1 DEF EntryOK
  <2>7. late' # {} => closed'
    BY <2>1 DEF AdmitInv
  <2>8. ASSUME NEW f \in Goroutines, f # g
        PROVE  /\ pc'[f] \in Checking \union Writing => floor'[f] <= minLevel'
               /\ pc'[f] = "sample" => api'[f] = "log"
               /\ OpenSeen(f)' => cur'[f] \notin late'
               /\ LevelSeen(f)' => lvl'[f] >= floor'[f]
    BY <2>1, <2>2, <2>3, <2>5, <2>6, <2>8 DEF AdmitInv
  <2>9. floor'[g] = minLevel /\ ~OpenSeen(g)' /\ ~LevelSeen(g)' /\ pc'[g] # "sample"
    BY <2>1, <2>4 DEF EntryOK
  <2>10. floor'[g] <= minLevel'
    BY <2>1, <2>9, <1>0
  <2> QED
    BY <2>7, <2>8, <2>9, <2>10 DEF AdmitInv
<1>3. ASSUME NEW g \in Goroutines, NEW l \in MinLevels, SetLevel(g, l)
      PROVE  AdmitInv'
  <2>1. /\ minLevel' = l /\ UNCHANGED <<closed, pc, cur, lvl, api, late>>
        /\ floor' = [f \in Goroutines |-> IF l < floor[f] THEN l ELSE floor[f]]
    BY <1>3 DEF SetLevel, callVars
  <2>2. l \in Int
    BY LevelAssumption DEF FATAL
  <2>3. \A f \in Goroutines : floor'[f] <= l /\ floor'[f] <= floor[f] /\ floor'[f] \in Int
    BY <2>1, <2>2, <1>0
  <2>4. \A f \in Goroutines : lvl[f] >= floor[f] => lvl'[f] >= floor'[f]
    BY <2>1, <2>3, <1>0
  <2> QED
    BY <2>1, <2>3, <2>4 DEF AdmitInv
<1>4. ASSUME NEW g \in Goroutines, CheckClosed(g)
      PROVE  AdmitInv'
  <2>1. /\ UNCHANGED <<EntryVars, minLevel, closed>> /\ pc[g] = "closed"
        /\ \/ Goto(g, "idle")
           \/ ~closed /\ Goto(g, IF api[g] = "slog" THEN "assemble" ELSE "level")
    BY <1>4 DEF CheckClosed, Done, filterUnchanged, rootVars, EntryVars
  <2> QED
    BY <1>1, <2>1 DEF Goto, PcOK, Procs, EntryVars, entryVars, AdmitInv
<1>5. ASSUME NEW g \in Goroutines, CheckLevel(g)
      PROVE  AdmitInv'
  <2>1. /\ UNCHANGED <<EntryVars, minLevel, closed>> /\ pc[g] = "level"
        /\ \/ Goto(g, "idle")
           \/ lvl[g] >= minLevel /\ Goto(g, IF api[g] = "slog" THEN "closed" ELSE "sample")
        /\ api[g] \in {"log", "slog"}
    BY <1>5 DEF CheckLevel, AfterLevel, Done, filterUnchanged, rootVars, EntryVars, EntryOK
  <2> QED
    BY <1>1, <2>1 DEF Goto, PcOK, Procs, EntryVars, entryVars, AdmitInv
<1>6. ASSUME NEW p \in Procs, NEW l, Goto(p, l), UNCHANGED <<EntryVars, minLevel>>,
             closed' \in {closed, TRUE},
             l \notin Checking \union Writing \/ (pc[p] \in Passed \union {"sample"} /\ l \in Passed)
      PROVE  AdmitInv'
  <2>1. /\ UNCHANGED <<cur, lvl, api, floor, late, minLevel>> /\ \A q \in Procs \ {p} : pc'[q] = pc[q]
        /\ pc'[p] = l
    BY <1>6 DEF Goto, PcOK, EntryVars, entryVars, callVars
  <2>2. late' # {} => closed'
    <3>1. late # {} => closed
      BY DEF AdmitInv
    <3>2. closed => closed'
      BY <1>6
    <3> QED
      BY <2>1, <3>1, <3>2
  <2>3. ASSUME NEW f \in Goroutines, f # p PROVE pc'[f] = pc[f]
    BY <2>1, <2>3 DEF Procs
  <2>4. ASSUME NEW f \in Goroutines
        PROVE  /\ pc'[f] \in Checking \union Writing => floor'[f] <= minLevel'
               /\ pc'[f] = "sample" => api'[f] = "log"
               /\ OpenSeen(f)' => cur'[f] \notin late'
               /\ LevelSeen(f)' => lvl'[f] >= floor'[f]
    <3>1. CASE f # p
      BY <2>1, <2>3, <3>1 DEF AdmitInv
    <3>2. CASE f = p
      BY <1>6, <2>1, <3>2 DEF AdmitInv
    <3> QED
      BY <3>1, <3>2
  <2> QED
    BY <2>2, <2>4 DEF AdmitInv
<1>7. ASSUME NEW g \in Goroutines,
             Sample(g) \/ MiddlewareCall(g) \/ MiddlewareReturn(g) \/ Lock(g)
      PROVE  AdmitInv'
  <2>1. /\ UNCHANGED <<EntryVars, minLevel, closed>>
        /\ pc[g] \in Passed \union {"sample"} /\ \E l \in Passed \union {"idle"} : Goto(g, l)
    BY <1>7 DEF Sample, MiddlewareCall, MiddlewareReturn, Lock, Done, filterUnchanged,
                rootVars, EntryVars
  <2> QED
    BY <1>6, <2>1 DEF Procs
<1>8. ASSUME NEW g \in Goroutines,
             \/ OutWrite(g) \/ CountError(g) \/ Fallback(g) \/ RunHooks(g) \/ FlushReturn(g)
             \/ Panics(g)
      PROVE  AdmitInv'
  <2>1. /\ UNCHANGED <<EntryVars, minLevel, closed>>
        /\ pc[g] \in Passed /\ \E l \in Passed \union {"idle"} : Goto(g, l)
    BY <1>8, PanicUnwinds DEF OutWrite, WriteOk, WriteErr, CountError, Fallback, RunHooks,
                HookOutcomes, AfterHooks, FlushReturn, PanicIn, Done, rootVars, EntryVars
  <2> QED
    BY <1>6, <2>1 DEF Procs
<1>9. ASSUME NEW p \in Procs,
             \/ StoreClosed(p) \/ LockSync(p) \/ OutSync(p) \/ HelperSend(p)
             \/ p \in Goroutines /\ (SyncCall(p) \/ TimedReturn(p) \/ TimedOut(p))
      PROVE  AdmitInv'
  <2>1. /\ UNCHANGED <<EntryVars, minLevel>> /\ closed' \in {closed, TRUE}
        /\ \E l \in {"idle", "close", "lockSync", "sync", "send"} : Goto(p, l)
    BY <1>9 DEF StoreClosed, LockSync, OutSync, SyncReturn, SyncPanic, HelperSend, SyncCall,
                TimedReturn, TimedOut, TimedEnd, Done, rootVars, EntryVars
  <2>2. PICK l \in {"idle", "close", "lockSync", "sync", "send"} : Goto(p, l)
    BY <2>1
  <2>3. l \notin Checking \union Writing
    OBVIOUS
  <2> QED
    BY <1>6, <2>1, <2>2, <2>3
<1>10. ASSUME NEW g \in Goroutines, NEW h \in Helpers, TimedCall(g, h)
       PROVE  AdmitInv'
  <2>1. UNCHANGED <<EntryVars, minLevel, closed>>
        /\ \A f \in Goroutines : pc'[f] \in {pc[f], "await", "close"}
    BY <1>10 DEF TimedCall, PcOK, Procs, rootVars, EntryVars
  <2> QED
    BY <1>1, <2>1 DEF EntryVars, entryVars, AdmitInv
<1>11. ASSUME UNCHANGED <<EntryVars, minLevel, closed, pc>> PROVE AdmitInv'
  BY <1>1, <1>11 DEF EntryVars, entryVars, AdmitInv
<1>12. CASE OutHang \/ (\E g \in Goroutines : Exit(g)) \/ UNCHANGED vars
  BY <1>11, <1>12 DEF OutHang, Exit, vars, rootVars, EntryVars
<1> QED
  BY <1>2, <1>3, <1>4, <1>5, <1>7, <1>8, <1>9, <1>10, <1>12
  DEF Next, Calls, Step, Inner, Stopped, Procs

(* An entry gets past the checks only if its call began before closed was  *)
(* set and its level was, at some moment of the call, high enough: on both *)
(* paths, under any interleaving with SetLevel and Sync.                   *)
THEOREM OnlyAdmitted == Spec => []Admitted
<1>1. Init => AdmitInv
  BY DEF Init, AdmitInv, OpenSeen, LevelSeen, Passed, Checking, Writing, Procs
<1>2. AdmitInv => Admitted
  BY DEF AdmitInv, Admitted, OpenSeen, LevelSeen, Passed
<1> QED
  BY <1>1, <1>2, AdmitStep, LoggerTypes, PTL DEF Spec

----
(* An answer on its way, at a helper or in its channel, already covers     *)
(* what its caller asked for; a mark never lies ahead of the writes.       *)
Answered(h) == pc[h] = "send" \/ reply[h] # <<>>
CoverInv == \A g \in Goroutines :
              /\ mark[g] <= Len(given)
              /\ OutIsSyncer /\ ret[g] \in {"nil", "err"} => synced >= mark[g]
              /\ OutIsSyncer /\ waitsOn[g] # NoProc /\ Answered(waitsOn[g]) => synced >= mark[g]

LEMMA CoverStep == TypeOK /\ CoverInv /\ [Next]_vars => CoverInv'
<1> SUFFICES ASSUME PcOK, EntryOK, TimerOK, OutOK, CoverInv, [Next]_vars PROVE CoverInv'
  BY DEF TypeOK
<1>0. /\ Len(given) \in Nat /\ synced \in Nat /\ synced <= Len(given)
      /\ \A g \in Goroutines : mark[g] \in Nat
  BY LenProperties DEF OutOK
<1>1. ASSUME UNCHANGED <<mark, waitsOn, given, synced>>,
             \A g \in Goroutines : ret'[g] \in {"nil", "err"} => ret[g] \in {"nil", "err"},
             \A h \in Helpers : Answered(h)' => Answered(h)
      PROVE  CoverInv'
  BY <1>1 DEF CoverInv, TimerOK
<1>2. ASSUME NEW p \in Procs, NEW l, l # "send", Goto(p, l),
             UNCHANGED <<ret, reply, mark, waitsOn, given, synced>>
      PROVE  CoverInv'
  <2>1. \A h \in Helpers : Answered(h)' => Answered(h)
    BY <1>2 DEF Goto, PcOK, Procs, Answered
  <2> QED
    BY <1>1, <1>2, <2>1
<1>3. ASSUME NEW g \in Goroutines,
             \/ CheckClosed(g) \/ CheckLevel(g) \/ Sample(g)
             \/ MiddlewareCall(g) \/ MiddlewareReturn(g) \/ Lock(g)
             \/ Panics(g) \/ CountError(g) \/ Fallback(g) \/ RunHooks(g)
      PROVE  CoverInv'
  <2>1. /\ \E l : l # "send" /\ Goto(g, l)
        /\ UNCHANGED <<ret, reply, mark, waitsOn, given, synced>>
    BY <1>3, PanicUnwinds DEF CheckClosed, CheckLevel, AfterLevel, Sample, MiddlewareCall,
                MiddlewareReturn, Lock, PanicIn, CountError, Fallback, RunHooks,
                HookOutcomes, AfterHooks, filterUnchanged, Done, timerVars, outVars
  <2> QED
    BY <1>2, <2>1 DEF Procs
<1>4. ASSUME NEW p \in Procs, StoreClosed(p) \/ LockSync(p) \/ SyncPanic(p)
      PROVE  CoverInv'
  <2>1. /\ \E l : l # "send" /\ Goto(p, l)
        /\ UNCHANGED <<ret, reply, mark, waitsOn, given, synced>>
    BY <1>4 DEF StoreClosed, LockSync, SyncPanic, Done, timerVars, outVars
  <2> QED
    BY <1>2, <2>1
<1>5. ASSUME NEW g \in Goroutines, NEW e \in Entries, NEW l \in Levels,
             NEW a \in {"log", "slog"}, LogCall(g, e, l, a)
      PROVE  CoverInv'
  <2>1. /\ ret' = [ret EXCEPT ![g] = "none"] /\ \E m : m # "send" /\ Goto(g, m)
        /\ UNCHANGED <<reply, mark, waitsOn, given, synced>>
    BY <1>5 DEF LogCall, timerVars, outVars
  <2>2. \A f \in Goroutines : ret'[f] \in {"nil", "err"} => ret[f] \in {"nil", "err"}
    BY <2>1 DEF TimerOK, Procs
  <2>3. \A h \in Helpers : Answered(h)' => Answered(h)
    BY <2>1 DEF Goto, PcOK, Procs, Answered
  <2> QED
    BY <1>1, <2>1, <2>2, <2>3
<1>6. ASSUME NEW g \in Goroutines, WriteOk(g) \/ WriteErr(g)
      PROVE  CoverInv'
  <2>1. /\ given' = Append(given, cur[g]) /\ cur[g] \in Entries
        /\ \E l : l # "send" /\ Goto(g, l)
        /\ UNCHANGED <<ret, reply, mark, waitsOn, synced>>
    BY <1>6 DEF WriteOk, WriteErr, timerVars, EntryOK, Writing
  <2>2. Len(given') = Len(given) + 1
    BY <2>1, AppendEntry DEF OutOK
  <2>3. \A f \in Goroutines : mark[f] <= Len(given')
    BY <1>0, <2>2 DEF CoverInv
  <2>4. \A h \in Helpers : Answered(h)' => Answered(h)
    BY <2>1 DEF Goto, PcOK, Procs, Answered
  <2> QED
    BY <2>1, <2>3, <2>4 DEF CoverInv, TimerOK
<1>7. ASSUME synced' = Len(given) \/ ~OutIsSyncer, UNCHANGED <<mark, given>>
      PROVE  CoverInv'
  BY <1>7 DEF CoverInv
<1>8. ASSUME NEW p \in Procs, (p \in Goroutines /\ FlushReturn(p)) \/ OutSync(p)
      PROVE  CoverInv'
  BY <1>4, <1>7, <1>8 DEF FlushReturn, OutSync, SyncReturn, timerVars
<1>9. ASSUME NEW g \in Goroutines, SyncCall(g)
      PROVE  CoverInv'
  <2>1. /\ ret' = [ret EXCEPT ![g] = "none"] /\ mark' = [mark EXCEPT ![g] = Len(given)]
        /\ Goto(g, "close") /\ UNCHANGED <<reply, waitsOn, given, synced>>
    BY <1>9 DEF SyncCall, outVars
  <2>2. waitsOn[g] = NoProc
    BY <1>9 DEF SyncCall, PcOK
  <2>3. \A h \in Helpers : Answered(h)' => Answered(h)
    BY <2>1 DEF Goto, PcOK, Procs, Answered
  <2>4. ret'[g] = "none" /\ mark'[g] = Len(given)
    BY <2>1 DEF TimerOK, OutOK, Procs
  <2>5. \A f \in Goroutines : f # g => ret'[f] = ret[f] /\ mark'[f] = mark[f]
    BY <2>1 DEF TimerOK, OutOK, Procs
  <2> QED
    BY <1>0, <2>1, <2>2, <2>3, <2>4, <2>5 DEF CoverInv, TimerOK
<1>10. ASSUME NEW g \in Goroutines, NEW h \in Helpers, TimedCall(g, h)
       PROVE  CoverInv'
  <2>1. /\ pc' = [pc EXCEPT ![g] = "await", ![h] = "close"]
        /\ ret' = [ret EXCEPT ![g] = "none", ![h] = "none"]
        /\ waitsOn' = [waitsOn EXCEPT ![g] = h] /\ reply' = [reply EXCEPT ![h] = <<>>]
        /\ mark' = [mark EXCEPT ![g] = Len(given)] /\ UNCHANGED <<given, synced>>
    BY <1>10 DEF TimedCall, NewChannel, outVars
  <2>2. h \notin Goroutines /\ \A f \in Goroutines : waitsOn[f] # h
    BY <1>10, ProcAssumption DEF TimedCall, Free
  <2>3. \A k \in Helpers : k # h => (Answered(k)' <=> Answered(k))
    BY <2>1, ProcAssumption DEF Answered, PcOK, TimerOK, Procs
  <2>4. ~Answered(h)'
    BY <2>1, <2>2 DEF Answered, PcOK, TimerOK, Procs
  <2>5. ret'[g] = "none" /\ mark'[g] = Len(given) /\ waitsOn'[g] = h
    BY <2>1, <2>2 DEF TimerOK, OutOK, Procs
  <2>6. \A f \in Goroutines : f # g => /\ ret'[f] = ret[f] /\ mark'[f] = mark[f]
                                       /\ waitsOn'[f] = waitsOn[f]
    BY <2>1, <2>2 DEF TimerOK, OutOK, Procs
  <2>7. ASSUME NEW f \in Goroutines, f # g
        PROVE  /\ mark'[f] <= Len(given')
               /\ OutIsSyncer /\ ret'[f] \in {"nil", "err"} => synced' >= mark'[f]
               /\ OutIsSyncer /\ waitsOn'[f] # NoProc /\ Answered(waitsOn[f])' => synced' >= mark'[f]
    BY <2>1, <2>2, <2>3, <2>6, <2>7 DEF CoverInv, TimerOK
  <2>8. mark'[g] <= Len(given')
    BY <1>0, <2>1, <2>5
  <2> QED
    BY <2>4, <2>5, <2>6, <2>7, <2>8 DEF CoverInv
<1>11. ASSUME NEW h \in Helpers, HelperSend(h)
       PROVE  CoverInv'
  <2>1. /\ pc[h] = "send" /\ reply' = [reply EXCEPT ![h] = <<ret[h]>>] /\ Goto(h, "idle")
        /\ UNCHANGED <<ret, mark, waitsOn, given, synced>>
    BY <1>11 DEF HelperSend, Done, outVars
  <2>2. \A k \in Helpers : Answered(k)' => Answered(k)
    BY <2>1 DEF Goto, PcOK, TimerOK, Procs, Answered
  <2> QED
    BY <1>1, <2>1, <2>2
<1>12. ASSUME NEW g \in Goroutines, TimedReturn(g) \/ TimedOut(g)
       PROVE  CoverInv'
  <2>1. PICK r : ret' = [ret EXCEPT ![g] = r] /\ (TimedReturn(g) \/ r = "timeout")
    BY <1>12 DEF TimedReturn, TimedOut, TimedEnd
  <2>2. /\ waitsOn' = [waitsOn EXCEPT ![g] = NoProc] /\ Goto(g, "idle")
        /\ UNCHANGED <<reply, mark, given, synced>>
    BY <1>12 DEF TimedReturn, TimedOut, TimedEnd, Done, outVars
  <2>3. \A h \in Helpers : Answered(h)' => Answered(h)
    BY <2>2 DEF Goto, PcOK, Procs, Answered
  <2>4. TimedReturn(g) => waitsOn[g] # NoProc /\ Answered(waitsOn[g])
    BY DEF TimedReturn, PcOK, Answered
  <2>5. OutIsSyncer /\ ret'[g] \in {"nil", "err"} => synced >= mark[g]
    BY <2>1, <2>4 DEF CoverInv, TimerOK, Procs
  <2>6. waitsOn'[g] = NoProc
    BY <2>2 DEF TimerOK
  <2>7. \A f \in Goroutines : f # g => ret'[f] = ret[f] /\ waitsOn'[f] = waitsOn[f]
    BY <2>1, <2>2 DEF TimerOK, Procs
  <2> QED
    BY <2>2, <2>3, <2>5, <2>6, <2>7 DEF CoverInv, TimerOK
<1>13. ASSUME UNCHANGED <<pc, ret, reply, mark, waitsOn, given, synced>> PROVE CoverInv'
  BY <1>1, <1>13 DEF Answered
<1>14. ASSUME NEW g \in Goroutines, Exit(g) \/ \E l \in MinLevels : SetLevel(g, l)
       PROVE  CoverInv'
  BY <1>13, <1>14 DEF Exit, SetLevel, timerVars, outVars
<1>15. CASE OutHang \/ UNCHANGED vars
  BY <1>13, <1>15 DEF OutHang, vars, timerVars, outVars
<1> QED
  BY <1>3, <1>4, <1>5, <1>6, <1>8, <1>9, <1>10, <1>11, <1>12, <1>14, <1>15
  DEF Next, Calls, Step, Inner, OutWrite, Stopped, Procs

(* A Sync or SyncWithTimeout that answers covers every entry given to the  *)
(* writer before it was called, retries and late answers included.         *)
THEOREM AnswersCover == Spec => []SyncCovers
<1>1. Init => CoverInv
  <2> SUFFICES ASSUME Init PROVE CoverInv
    OBVIOUS
  <2>1. Len(given) = 0 /\ \A g \in Goroutines : mark[g] = 0
    BY DEF Init
  <2>2. \A g \in Goroutines : ret[g] = "none" /\ waitsOn[g] = NoProc
    BY DEF Init, Procs
  <2>3. \A g \in Goroutines : mark[g] <= Len(given)
    <3>1. 0 <= 0
      OBVIOUS
    <3> QED
      BY <2>1, <3>1, Zenon
  <2>4. \A g \in Goroutines : ret[g] \notin {"nil", "err"}
    BY <2>2
  <2> QED
    BY <2>2, <2>3, <2>4, Zenon DEF CoverInv
<1>2. CoverInv => SyncCovers
  BY DEF CoverInv, SyncCovers
<1> QED
  BY <1>1, <1>2, CoverStep, LoggerTypes, PTL DEF Spec

----
(* The failure that is not yet counted, or not yet rescued, is the entry   *)
(* of the one goroutine that is about to do so.                            *)
Uncounted == {g \in Goroutines : pc[g] = "count"}
Unrescued == {g \in Goroutines : pc[g] \in {"count", "fallback"}}
FailInv ==
  /\ Len(failed) = IF Uncounted = {} THEN writeErrors ELSE writeErrors + 1
  /\ HasFallback => /\ Unrescued = {} => failed = rescued
                    /\ \A g \in Unrescued : failed = Append(rescued, cur[g])

LEMMA FailStep == TypeOK /\ HoldersOnly /\ FailInv /\ [Next]_vars => FailInv'
<1> SUFFICES ASSUME StateOK, PcOK, EntryOK, OutOK, HoldersOnly, FailInv, [Next]_vars
             PROVE  FailInv'
  BY DEF TypeOK
<1>1. ASSUME NEW g \in Goroutines, pc[g] \in Writing
      PROVE  \A f \in Goroutines : f # g => f \notin Unrescued
  BY <1>1 DEF HoldersOnly, Locked, Writing, Unrescued, Procs
<1>2. ASSUME UNCHANGED <<failed, rescued, writeErrors>>,
             Uncounted' = Uncounted, Unrescued' = Unrescued,
             \A g \in Unrescued : cur'[g] = cur[g]
      PROVE  FailInv'
  BY <1>2 DEF FailInv
<1>3. ASSUME NEW p \in Procs, NEW l, Goto(p, l), l \notin {"count", "fallback"},
             pc[p] \notin {"count", "fallback"},
             UNCHANGED <<failed, rescued, writeErrors>>,
             \A g \in Goroutines : pc[g] \in Writing => cur'[g] = cur[g]
      PROVE  FailInv'
  <2>1. \A f \in Goroutines : pc'[f] # pc[f] => f = p /\ pc'[f] = l
    BY <1>3 DEF Goto, PcOK, Procs
  <2>2. Uncounted' = Uncounted /\ Unrescued' = Unrescued
    BY <1>3, <2>1 DEF Uncounted, Unrescued
  <2> QED
    BY <1>2, <1>3, <2>2 DEF Unrescued, Writing
<1>4. ASSUME NEW g \in Goroutines, NEW e \in Entries, NEW l \in Levels,
             NEW a \in {"log", "slog"}, LogCall(g, e, l, a)
      PROVE  FailInv'
  <2>1. /\ pc[g] = "idle" /\ \E m \in {"level", "closed"} : Goto(g, m)
        /\ UNCHANGED <<failed, rescued, writeErrors>>
        /\ cur' = [cur EXCEPT ![g] = e]
    BY <1>4 DEF LogCall, rootVars, outVars
  <2>2. \A f \in Goroutines : pc[f] \in Writing => cur'[f] = cur[f]
    BY <2>1 DEF EntryOK, Writing
  <2> QED
    BY <1>3, <2>1, <2>2 DEF Procs
<1>5. ASSUME NEW g \in Goroutines,
             \/ SyncCall(g) \/ TimedReturn(g) \/ TimedOut(g)
             \/ CheckClosed(g) \/ CheckLevel(g) \/ Sample(g)
             \/ MiddlewareCall(g) \/ MiddlewareReturn(g)
             \/ Lock(g) \/ WriteOk(g) \/ WritePanic(g) \/ FlushPanic(g) \/ RunHooks(g) \/ FlushReturn(g)
      PROVE  FailInv'
  <2>1. /\ pc[g] \notin {"count", "fallback"}
        /\ \E l : l \notin {"count", "fallback"} /\ Goto(g, l)
        /\ UNCHANGED <<failed, rescued, writeErrors, cur>>
    BY <1>5 DEF SyncCall, TimedReturn, TimedOut, TimedEnd, CheckClosed, CheckLevel,
                AfterLevel, Sample, MiddlewareCall, MiddlewareReturn, Lock, WriteOk,
                WritePanic, FlushPanic, PanicIn, RunHooks, HookOutcomes, AfterHooks, FlushReturn, Done,
                filterUnchanged, rootVars, entryVars, outVars
  <2> QED
    BY <1>3, <2>1 DEF Procs
<1>6. ASSUME NEW p \in Procs, StoreClosed(p) \/ LockSync(p) \/ OutSync(p) \/ HelperSend(p)
      PROVE  FailInv'
  <2>1. /\ pc[p] \notin {"count", "fallback"}
        /\ \E l : l \notin {"count", "fallback"} /\ Goto(p, l)
        /\ UNCHANGED <<failed, rescued, writeErrors, cur>>
    BY <1>6 DEF StoreClosed, LockSync, OutSync, SyncReturn, SyncPanic, HelperSend, Done,
                rootVars, entryVars, outVars
  <2> QED
    BY <1>3, <2>1
<1>7. ASSUME NEW g \in Goroutines, NEW h \in Helpers, TimedCall(g, h)
      PROVE  FailInv'
  <2>1. /\ pc[g] = "idle" /\ pc' = [pc EXCEPT ![g] = "await", ![h] = "close"]
        /\ UNCHANGED <<failed, rescued, writeErrors, cur>>
    BY <1>7 DEF TimedCall, rootVars, entryVars, outVars
  <2>2. \A f \in Goroutines : pc'[f] # pc[f] => pc[f] = "idle" /\ pc'[f] = "await"
    BY <2>1, ProcAssumption DEF PcOK, Procs
  <2>3. Uncounted' = Uncounted /\ Unrescued' = Unrescued
    BY <2>1, <2>2 DEF Uncounted, Unrescued
  <2> QED
    BY <1>2, <2>1, <2>3
<1>8. ASSUME NEW g \in Goroutines, WriteErr(g)
      PROVE  FailInv'
  <2>1. /\ pc[g] = "write" /\ Goto(g, "count") /\ cur[g] \in Entries
        /\ failed' = Append(failed, cur[g]) /\ UNCHANGED <<rescued, writeErrors, cur>>
    BY <1>8 DEF WriteErr, rootVars, entryVars, EntryOK, Writing
  <2>2. Unrescued = {} /\ Uncounted = {}
    BY <1>1, <2>1 DEF Unrescued, Uncounted, Writing
  <2>3. Unrescued' = {g} /\ Uncounted' = {g}
    BY <2>1, <2>2 DEF Goto, PcOK, Procs, Unrescued, Uncounted
  <2>4. Len(failed') = Len(failed) + 1
    BY <2>1, AppendEntry DEF OutOK
  <2>5. Len(failed) = writeErrors
    BY <2>2 DEF FailInv
  <2>6. Len(failed') = writeErrors' + 1
    BY <2>1, <2>4, <2>5
  <2>7. HasFallback => failed' = Append(rescued', cur'[g])
    BY <2>1, <2>2 DEF FailInv
  <2> QED
    BY <2>3, <2>6, <2>7 DEF FailInv
<1>9. ASSUME NEW g \in Goroutines, CountError(g)
      PROVE  FailInv'
  <2>1. /\ pc[g] = "count" /\ Goto(g, IF HasFallback THEN "fallback" ELSE "hooks")
        /\ writeErrors' = writeErrors + 1 /\ UNCHANGED <<failed, rescued, cur>>
    BY <1>9 DEF CountError, ErrorCount, entryVars, outVars
  <2>2. Unrescued = {g} /\ Uncounted = {g}
    BY <1>1, <2>1 DEF Unrescued, Uncounted, Writing
  <2>3. Uncounted' = {} /\ (HasFallback => Unrescued' = {g})
    BY <2>1, <2>2 DEF Goto, PcOK, Procs, Unrescued, Uncounted
  <2>4. Len(failed') = writeErrors'
    BY <2>1, <2>2 DEF FailInv
  <2>5. HasFallback => failed' = Append(rescued', cur'[g])
    BY <2>1, <2>2 DEF FailInv
  <2> QED
    BY <2>3, <2>4, <2>5 DEF FailInv
<1>10. ASSUME NEW g \in Goroutines, Fallback(g) \/ FallbackPanic(g)
       PROVE  FailInv'
  <2>1. /\ pc[g] = "fallback" /\ (\E l \in {"hooks", "idle"} : Goto(g, l))
        /\ rescued' = Append(rescued, cur[g]) /\ UNCHANGED <<failed, writeErrors, cur>>
    BY <1>10 DEF Fallback, FallbackPanic, PanicIn, Done, rootVars, entryVars
  <2>2. Unrescued = {g} /\ Uncounted = {}
    BY <1>1, <2>1 DEF Unrescued, Uncounted, Writing
  <2>3. Uncounted' = {} /\ Unrescued' = {}
    BY <2>1, <2>2 DEF Goto, PcOK, Procs, Unrescued, Uncounted
  <2>4. HasFallback => failed' = rescued'
    BY <2>1, <2>2 DEF FailInv
  <2> QED
    BY <2>1, <2>2, <2>3, <2>4 DEF FailInv
<1>11. ASSUME UNCHANGED <<pc, failed, rescued, writeErrors, cur>> PROVE FailInv'
  BY <1>2, <1>11 DEF Uncounted, Unrescued
<1>12. ASSUME NEW g \in Goroutines, Exit(g) \/ \E l \in MinLevels : SetLevel(g, l)
       PROVE  FailInv'
  BY <1>11, <1>12 DEF Exit, SetLevel, entryVars, outVars
<1>13. CASE OutHang \/ UNCHANGED vars
  BY <1>11, <1>13 DEF OutHang, vars, rootVars, entryVars, outVars
<1> QED
  BY <1>4, <1>5, <1>6, <1>7, <1>8, <1>9, <1>10, <1>12, <1>13
  DEF Next, Calls, Step, Inner, OutWrite, Panics, Stopped, Procs

LEMMA DropLast ==
  \A s \in Seq(Entries), e \in Entries :
    SubSeq(Append(s, e), 1, Len(Append(s, e)) - 1) = s
  OBVIOUS

(* Every failed write is counted, and rescued in order where there is a    *)
(* fallback, each once, under any interleaving of failures.                *)
THEOREM FailuresSettled == Spec => []FailuresAccounted
<1>1. Init => FailInv
  BY DEF Init, FailInv, Uncounted, Unrescued, Procs
<1>2. TypeOK /\ HoldersOnly /\ FailInv => FailuresAccounted
  <2> SUFFICES ASSUME TypeOK, HoldersOnly, FailInv PROVE FailuresAccounted
    OBVIOUS
  <2>1. /\ failed \in Seq(Entries) /\ rescued \in Seq(Entries) /\ writeErrors \in Nat
        /\ \A g \in Unrescued : cur[g] \in Entries
    BY DEF TypeOK, OutOK, StateOK, EntryOK, Unrescued, Writing
  <2>2. Len(failed) = writeErrors + (IF \E g \in Goroutines : pc[g] \in {"count"} THEN 1 ELSE 0)
    BY <2>1 DEF FailInv, Uncounted
  <2>3. ASSUME HasFallback
        PROVE  rescued = SubSeq(failed, 1, Len(failed) -
                 (IF \E g \in Goroutines : pc[g] \in {"count", "fallback"} THEN 1 ELSE 0))
    <3>1. CASE Unrescued = {}
      <4>1. Len(failed) - 0 = Len(failed) /\ SubSeq(failed, 1, Len(failed)) = failed
        BY <2>1, LenProperties, SubSeqFull
      <4> QED
        BY <2>3, <3>1, <4>1 DEF FailInv, Unrescued
    <3>2. CASE Unrescued # {}
      <4>1. PICK g \in Unrescued : failed = Append(rescued, cur[g])
        BY <2>3, <3>2 DEF FailInv
      <4>2. rescued = SubSeq(failed, 1, Len(failed) - 1)
        BY <2>1, <4>1, DropLast
      <4> QED
        BY <3>2, <4>2 DEF Unrescued
    <3> QED
      BY <3>1, <3>2
  <2> QED
    BY <2>2, <2>3 DEF FailuresAccounted
<1> QED
  BY <1>1, <1>2, FailStep, LoggerTypes, HoldersInit, HoldersStep, PTL DEF Spec

====
