---- MODULE AsyncLoggerProofs ----
(***************************************************************************)
(* Theorems about AsyncLogger: it is a Logger, it is an AsyncWriter, and   *)
(* so keeps what either promises; a Sync of the one is a flush of the      *)
(* other; entries keep their order from the logger to the destination; and *)
(* a shutdown costs no goroutine more than one of them.                    *)
(***************************************************************************)
EXTENDS AsyncLogger, LoggerProofs, FiniteSetTheorems

(* The writer once more, with the theorems about it. *)
Buffered == INSTANCE AsyncWriterProofs
              WITH Callers <- Procs \union Closers, Messages <- Entries,
                   NoMsg <- NoEntry, pc <- wpc, ret <- wret

----
(* The steps of a log call, or the start of a call, without the writer.    *)
Alone(g) == LoggerCall(g) \/ LoggerAlone(g)

(* Every step of the two is one of the logger, or leaves it alone.         *)
LEMMA LoggerSide == AllNext => [Next]_vars
<1> SUFFICES ASSUME AllNext PROVE [Next]_vars
  OBVIOUS
<1> USE DEF Procs
<1>1. CASE ~Running /\ UNCHANGED allVars
  BY <1>1 DEF allVars
<1>2. ASSUME Running, NEW g \in Goroutines, LogStep(g) PROVE Next
  BY <1>2 DEF LogStep, LogWrite, LogWriteReturn, LogHooks, LogFlushed, Next, Step,
              Inner, OutWrite, Panics
<1>3. ASSUME Running, NEW g \in Goroutines, Alone(g) PROVE Next
  BY <1>3 DEF Alone, LoggerCall, LoggerAlone, Next, Step, Inner
<1>4. ASSUME Running, NEW p \in Procs, SyncStep(p) PROVE Next
  <2>1. CASE LogSync(p)
    BY <1>4, <2>1 DEF LogSync, Next, Step
  <2>2. CASE LogSyncReturn(p)
    BY <1>4, <2>2 DEF LogSyncReturn, Next, Step, OutSync
  <2>3. CASE SyncAlone(p)
    BY <1>4, <2>3 DEF SyncAlone, Next, Step
  <2> QED
    BY <1>4, <2>1, <2>2, <2>3 DEF SyncStep
<1>5. ASSUME NEW c \in Procs \union Closers, WriterAlone(c) PROVE UNCHANGED vars
  BY <1>5 DEF WriterAlone
<1>6. ASSUME NEW c \in Closers, DirectClose(c) PROVE UNCHANGED vars
  BY <1>6 DEF DirectClose
<1>7. ASSUME DrainAlone \/ DestHang PROVE UNCHANGED vars
  BY <1>7 DEF DrainAlone, DestHang
<1> QED
  BY <1>1, <1>2, <1>3, <1>4, <1>5, <1>6, <1>7 DEF AllNext, Alone

(* The composition implements the logger with its writer left open: an     *)
(* AsyncWriter is one of the writers Logger allows, so that each theorem   *)
(* about Logger is one about it (New over NewAsyncWriter).                 *)
THEOREM IsLogger == AllSpec => Spec
<1>1. AllInit => Init
  BY DEF AllInit
<1>2. [AllNext]_allVars => [Next]_vars
  BY LoggerSide DEF allVars
<1> QED
  BY <1>1, <1>2, PTL DEF AllSpec, Spec

----
(* A step of Writer and the same step of Buffered say the same.            *)
LEMMA SameWrites ==
  ASSUME NEW c \in Procs \union Closers
  PROVE  /\ \A m \in Entries : Writer!WriteCall(c, m) => Buffered!WriteCall(c, m)
         /\ Writer!WriteSend(c) => Buffered!WriteSend(c)
         /\ Writer!WriteFull(c) => Buffered!WriteFull(c)
         /\ Writer!WriteDrop(c) => Buffered!WriteDrop(c)
         /\ Writer!WriteClosed(c) => Buffered!WriteClosed(c)
<1> USE DEF Writer!chanVars, Buffered!chanVars, Writer!destVars, Buffered!destVars,
            Writer!fateVars, Buffered!fateVars, Writer!Goto, Buffered!Goto,
            Writer!Return, Buffered!Return
<1>1. \A m \in Entries : Writer!WriteCall(c, m) => Buffered!WriteCall(c, m)
  <2>1. Writer!Settled = Buffered!Settled
    BY DEF Writer!Settled, Buffered!Settled, Writer!Range, Buffered!Range
  <2>2. Writer!InFlight = Buffered!InFlight
    BY DEF Writer!InFlight, Buffered!InFlight
  <2> QED
    BY <2>1, <2>2 DEF Writer!WriteCall, Buffered!WriteCall
<1>2. Writer!WriteSend(c) => Buffered!WriteSend(c)
  BY DEF Writer!WriteSend, Buffered!WriteSend, Writer!Slice, Buffered!Slice
<1>3. Writer!WriteFull(c) => Buffered!WriteFull(c)
  BY DEF Writer!WriteFull, Buffered!WriteFull, Writer!Full, Buffered!Full
<1>4. Writer!WriteDrop(c) => Buffered!WriteDrop(c)
  BY DEF Writer!WriteDrop, Buffered!WriteDrop, Writer!CountDrop, Buffered!CountDrop
<1>5. Writer!WriteClosed(c) => Buffered!WriteClosed(c)
  BY DEF Writer!WriteClosed, Buffered!WriteClosed
<1> QED
  BY <1>1, <1>2, <1>3, <1>4, <1>5

LEMMA SameCloses ==
  ASSUME NEW c \in Procs \union Closers
  PROVE  /\ Writer!CloseCall(c) => Buffered!CloseCall(c)
         /\ Writer!CloseFirst(c) => Buffered!CloseFirst(c)
         /\ Writer!CloseFinish(c) => Buffered!CloseFinish(c)
         /\ Writer!CloseLater(c) => Buffered!CloseLater(c)
<1> USE DEF Writer!chanVars, Buffered!chanVars, Writer!destVars, Buffered!destVars,
            Writer!fateVars, Buffered!fateVars, Writer!Goto, Buffered!Goto,
            Writer!Return, Buffered!Return
<1>1. Writer!CloseCall(c) => Buffered!CloseCall(c)
  BY DEF Writer!CloseCall, Buffered!CloseCall
<1>2. Writer!CloseFirst(c) => Buffered!CloseFirst(c)
  BY DEF Writer!CloseFirst, Buffered!CloseFirst, Writer!CloseChannel, Buffered!CloseChannel
<1>3. Writer!CloseFinish(c) => Buffered!CloseFinish(c)
  BY DEF Writer!CloseFinish, Buffered!CloseFinish, Writer!Drained, Buffered!Drained,
         Writer!SyncDest, Buffered!SyncDest
<1>4. Writer!CloseLater(c) => Buffered!CloseLater(c)
  BY DEF Writer!CloseLater, Buffered!CloseLater, Writer!OnceDone, Buffered!OnceDone
<1> QED
  BY <1>1, <1>2, <1>3, <1>4

LEMMA SameDrain == /\ Writer!Drain => Buffered!Drain
                   /\ Writer!DestHang => Buffered!DestHang
<1> USE DEF Writer!chanVars, Buffered!chanVars, Writer!destVars, Buffered!destVars,
            Writer!fateVars, Buffered!fateVars, Writer!callVars, Buffered!callVars
<1>1. Writer!DrainRecv => Buffered!DrainRecv
  BY DEF Writer!DrainRecv, Buffered!DrainRecv, Writer!Receivable, Buffered!Receivable
<1>2. Writer!DrainWrite => Buffered!DrainWrite
  BY DEF Writer!DrainWrite, Buffered!DrainWrite, Writer!Bytes, Buffered!Bytes
<1>3. Writer!DrainExit => Buffered!DrainExit
  BY DEF Writer!DrainExit, Buffered!DrainExit
<1>4. Writer!DestHang => Buffered!DestHang
  BY DEF Writer!DestHang, Buffered!DestHang, Writer!InSync, Buffered!InSync
<1> QED
  BY <1>1, <1>2, <1>3, <1>4 DEF Writer!Drain, Buffered!Drain

LEMMA SameVars == UNCHANGED writerVars => UNCHANGED Buffered!vars
  BY DEF writerVars, Buffered!vars, Buffered!chanVars, Buffered!destVars,
         Buffered!fateVars, Buffered!callVars

(* Every step of the two is one of the writer, or leaves it alone; an      *)
(* entry about to be written is an entry.                                  *)
LEMMA WriterSide == TypeOK /\ AllNext => [Buffered!Next]_(Buffered!vars)
<1> SUFFICES ASSUME TypeOK, AllNext PROVE Buffered!Next \/ UNCHANGED Buffered!vars
  OBVIOUS
<1> DEFINE C == Procs \union Closers
<1>1. ASSUME NEW c \in C,
             \/ \E m \in Entries : Writer!WriteCall(c, m)
             \/ Writer!WriteSend(c) \/ Writer!WriteFull(c) \/ Writer!WriteDrop(c)
             \/ Writer!WriteClosed(c)
      PROVE  Buffered!Next
  BY <1>1, SameWrites DEF Buffered!Next, Buffered!WriteStep
<1>2. ASSUME NEW c \in C,
             \/ Writer!CloseCall(c) \/ Writer!CloseFirst(c) \/ Writer!CloseFinish(c)
             \/ Writer!CloseLater(c)
      PROVE  Buffered!Next
  BY <1>2, SameCloses DEF Buffered!Next, Buffered!CloseStep
<1>3. ASSUME Writer!Drain \/ Writer!DestHang PROVE Buffered!Next
  BY <1>3, SameDrain DEF Buffered!Next
<1>4. CASE ~Running /\ UNCHANGED allVars
  BY <1>4, SameVars DEF allVars
<1>5. ASSUME NEW g \in Goroutines, LogStep(g) PROVE Buffered!Next \/ UNCHANGED Buffered!vars
  <2>1. g \in C
    BY DEF Procs
  <2>2. CASE LogWrite(g)
    <3>1. cur[g] \in Entries
      BY <2>2 DEF LogWrite, Lock, TypeOK, EntryOK, Checking
    <3> QED
      BY <1>1, <2>1, <2>2, <3>1 DEF LogWrite
  <2>3. CASE LogWriteReturn(g)
    BY <1>1, <2>1, <2>3 DEF LogWriteReturn
  <2>4. CASE LogHooks(g)
    BY <1>2, <2>1, <2>4, SameVars DEF LogHooks
  <2>5. CASE LogFlushed(g)
    BY <1>2, <2>1, <2>5 DEF LogFlushed
  <2> QED
    BY <1>5, <2>2, <2>3, <2>4, <2>5 DEF LogStep
<1>6. ASSUME NEW g \in Goroutines, Alone(g) PROVE UNCHANGED Buffered!vars
  BY <1>6, SameVars DEF Alone, LoggerCall, LoggerAlone
<1>7. ASSUME NEW p \in Procs, SyncStep(p) PROVE Buffered!Next \/ UNCHANGED Buffered!vars
  BY <1>2, <1>7, SameVars DEF SyncStep, LogSync, LogSyncReturn, SyncAlone
<1>8. ASSUME NEW c \in C, WriterAlone(c) PROVE Buffered!Next
  BY <1>1, <1>2, <1>8 DEF WriterAlone
<1>9. ASSUME NEW c \in Closers, DirectClose(c) PROVE Buffered!Next
  BY <1>2, <1>9 DEF DirectClose
<1>10. ASSUME DrainAlone \/ DestHang PROVE Buffered!Next
  BY <1>3, <1>10 DEF DrainAlone, DestHang
<1> QED
  BY <1>4, <1>5, <1>6, <1>7, <1>8, <1>9, <1>10 DEF AllNext, Alone

(* The composition implements the AsyncWriter: the logger is one of the    *)
(* programs that may call it.                                              *)
THEOREM IsWriter == AllSpec => Buffered!Spec
<1>1. AllInit => Buffered!Init
  BY DEF AllInit, Writer!Init, Buffered!Init
<1>2. TypeOK /\ [AllNext]_allVars => [Buffered!Next]_(Buffered!vars)
  BY WriterSide, SameVars DEF allVars
<1> QED
  BY <1>1, <1>2, IsLogger, LoggerTypes, PTL DEF AllSpec, Buffered!Spec

----
(* Wherever an answer of Sync is, or a process about to exit, the writer's *)
(* shutdown is over: in a caller's hands, in a helper's channel, and after *)
(* the flush of a FATAL entry.                                             *)
Over == once = "done"
FlushInv == /\ \A p \in Procs : ret[p] \in {"nil", "err"} => Over
            /\ \A h \in Helpers : reply[h] # <<>> => Over
            /\ \A g \in Goroutines : pc[g] = "exit" => Over
            /\ exited => Over

LEMMA OverStays == [Buffered!Next]_(Buffered!vars) /\ Over => Over'
<1> USE DEF Over
<1>1. ASSUME NEW c \in Procs \union Closers, Buffered!WriteStep(c) PROVE once' = once
  BY <1>1 DEF Buffered!WriteStep, Buffered!WriteSend, Buffered!WriteFull,
              Buffered!WriteDrop, Buffered!WriteClosed
<1>2. ASSUME NEW c \in Procs \union Closers, Buffered!CloseStep(c), once = "done"
      PROVE once' = "done"
  BY <1>2 DEF Buffered!CloseStep, Buffered!CloseFirst, Buffered!CloseFinish,
              Buffered!CloseLater
<1>3. ASSUME NEW c \in Procs \union Closers,
             (\E m \in Entries : Buffered!WriteCall(c, m)) \/ Buffered!CloseCall(c)
      PROVE once' = once
  BY <1>3 DEF Buffered!WriteCall, Buffered!CloseCall
<1>4. ASSUME Buffered!Drain \/ Buffered!DestHang PROVE once' = once
  BY <1>4 DEF Buffered!Drain, Buffered!DrainRecv, Buffered!DrainWrite,
              Buffered!DrainExit, Buffered!DestHang
<1>5. ASSUME UNCHANGED Buffered!vars PROVE once' = once
  BY <1>5 DEF Buffered!vars
<1> QED
  BY <1>1, <1>2, <1>3, <1>4, <1>5 DEF Buffered!Next

LEMMA ReturnIsOver ==
  ASSUME NEW c \in Procs \union Closers, Writer!CloseFinish(c) \/ Writer!CloseLater(c)
  PROVE  Over'
  BY DEF Writer!CloseFinish, Writer!CloseLater, Writer!OnceDone, Over

LEMMA FlushStep ==
  TypeOK /\ FlushInv /\ [Buffered!Next]_(Buffered!vars) /\ [AllNext]_allVars => FlushInv'
<1> SUFFICES ASSUME TypeOK, FlushInv, Over => Over', [AllNext]_allVars PROVE FlushInv'
  BY OverStays
<1> USE DEF Procs
<1>1. ASSUME \A p \in Procs : ret'[p] \in {"nil", "err"} => ret[p] \in {"nil", "err"} \/ Over',
             \A h \in Helpers : reply'[h] # <<>> => reply[h] # <<>> \/ Over',
             \A g \in Goroutines : pc'[g] = "exit" => pc[g] = "exit" \/ Over',
             exited' => exited \/ Over'
      PROVE  FlushInv'
  BY <1>1 DEF FlushInv
<1>2. ASSUME UNCHANGED vars PROVE FlushInv'
  BY <1>1, <1>2 DEF vars, rootVars, timerVars
<1>3. ASSUME NEW g \in Goroutines, LogStep(g) PROVE FlushInv'
  <2>1. CASE LogWrite(g) \/ LogWriteReturn(g)
    BY <1>1, <2>1 DEF LogWrite, LogWriteReturn, Lock, WriteOk, Goto, timerVars, rootVars,
                      TypeOK, PcOK
  <2>2. CASE LogHooks(g)
    BY <1>1, <2>2, AsyncIsSyncer
    DEF LogHooks, RunHooks, HookOutcomes, AfterHooks, Done, Goto, timerVars, rootVars,
        TypeOK, PcOK
  <2>3. CASE LogFlushed(g)
    BY <1>1, <2>3, ReturnIsOver DEF LogFlushed, FlushReturn, Goto, timerVars, rootVars,
                                    TypeOK, PcOK
  <2> QED
    BY <1>3, <2>1, <2>2, <2>3 DEF LogStep
<1>4. ASSUME NEW g \in Goroutines, Alone(g) PROVE FlushInv'
  <2>1. ASSUME NEW e \in Entries, NEW l \in Levels, NEW a \in {"log", "slog"},
               LogCall(g, e, l, a)
        PROVE  FlushInv'
    BY <1>1, <2>1 DEF LogCall, Goto, timerVars, rootVars, TypeOK, PcOK, TimerOK
  <2>2. ASSUME NEW l \in MinLevels, SetLevel(g, l) PROVE FlushInv'
    BY <1>1, <2>2 DEF SetLevel, timerVars
  <2>3. CASE SyncCall(g)
    BY <1>1, <2>3 DEF SyncCall, Goto, rootVars, TypeOK, PcOK, TimerOK
  <2>4. ASSUME NEW h \in Helpers, TimedCall(g, h) PROVE FlushInv'
    BY <1>1, <2>4 DEF TimedCall, NewChannel, rootVars, TypeOK, PcOK, TimerOK
  <2>5. CASE CheckClosed(g) \/ CheckLevel(g) \/ Sample(g) \/ MiddlewareCall(g)
             \/ MiddlewareReturn(g)
    BY <1>1, <2>5 DEF CheckClosed, CheckLevel, AfterLevel, Sample, MiddlewareCall,
         MiddlewareReturn, filterUnchanged, Done, Goto, timerVars, rootVars, TypeOK, PcOK
  <2>6. CASE Exit(g)
    BY <1>1, <2>6 DEF Exit, FlushInv, timerVars
  <2>7. CASE TimedReturn(g)
    <3>1. waitsOn[g] \in Helpers
      BY <2>7 DEF TimedReturn, TypeOK, PcOK, TimerOK
    <3>2. Over
      BY <2>7, <3>1 DEF TimedReturn, FlushInv
    <3> QED
      BY <1>1, <2>7, <3>2 DEF TimedReturn, TimedEnd, Done, Goto, rootVars, TypeOK, PcOK
  <2>8. CASE TimedOut(g)
    BY <1>1, <2>8 DEF TimedOut, TimedEnd, Done, Goto, rootVars, TypeOK, PcOK, TimerOK
  <2> QED
    BY <1>4, <2>1, <2>2, <2>3, <2>4, <2>5, <2>6, <2>7, <2>8 DEF Alone, LoggerCall, LoggerAlone, Calls
<1>5. ASSUME NEW p \in Procs, SyncStep(p) PROVE FlushInv'
  <2>1. CASE LogSync(p)
    BY <1>1, <2>1 DEF LogSync, LockSync, Goto, timerVars, rootVars, TypeOK, PcOK
  <2>2. CASE LogSyncReturn(p)
    <3>1. Over'
      BY <2>2, ReturnIsOver DEF LogSyncReturn
    <3> QED
      BY <3>1 DEF FlushInv
  <2>3. CASE StoreClosed(p)
    BY <1>1, <2>3 DEF StoreClosed, Goto, timerVars, TypeOK, PcOK
  <2>4. CASE p \in Helpers /\ HelperSend(p)
    <3>1. ret[p] \in {"nil", "err"}
      BY <2>4 DEF HelperSend, TypeOK, TimerOK
    <3>2. Over
      BY <3>1 DEF FlushInv
    <3> QED
      BY <1>1, <2>4, <3>2 DEF HelperSend, Done, Goto, rootVars, TypeOK, PcOK
  <2> QED
    BY <1>5, <2>1, <2>2, <2>3, <2>4 DEF SyncStep, SyncAlone
<1>6. CASE (~Running /\ UNCHANGED allVars) \/ UNCHANGED allVars
  BY <1>2, <1>6 DEF allVars
<1> QED
  BY <1>2, <1>3, <1>4, <1>5, <1>6 DEF AllNext, Alone, WriterAlone, DirectClose, DrainAlone, DestHang

(* When the writer's shutdown is over, drain is gone and has left nothing. *)
LEMMA OverIsFlushed ==
  Buffered!TypeOK /\ Buffered!InOrder /\ Buffered!Shutdown /\ Over
    => done /\ handed = accepted
<1> SUFFICES ASSUME Buffered!TypeOK, Buffered!InOrder, Buffered!Shutdown, Over
             PROVE  done /\ handed = accepted
  OBVIOUS
<1>1. done /\ ch = <<>> /\ inHand = <<>>
  BY DEF Over, Buffered!Shutdown, Buffered!FinishedDrained, Buffered!ExitedEmpty
<1>2. handed \in Seq(Entries)
  BY DEF Buffered!TypeOK, Buffered!HistoryOK
<1>3. handed \o (<<>> \o <<>>) = handed
  BY <1>2, EmptySeq, ConcatEmptySeq
<1> QED
  BY <1>1, <1>3 DEF Buffered!InOrder

(* When Sync or SyncWithTimeout has answered, or the process has exited on *)
(* a FATAL entry, everything buffered has reached the destination.         *)
THEOREM SyncIsFlush == AllSpec => []Flushed
<1>1. AllInit => FlushInv
  BY ProcAssumption DEF AllInit, Init, FlushInv, Procs
<1>2. TypeOK /\ [AllNext]_allVars => [Buffered!Next]_(Buffered!vars)
  BY WriterSide, SameVars DEF allVars
<1>3. Buffered!Spec => [](Buffered!TypeOK /\ Buffered!InOrder /\ Buffered!Shutdown)
  <2>1. Buffered!Init => Buffered!TypeOK /\ Buffered!InOrder /\ Buffered!Shutdown
    BY WriterAssumption, CloserAssumption, Buffered!TypeInit, Buffered!OrderInit, Buffered!ShutdownInit
  <2>2. Buffered!TypeOK /\ Buffered!InOrder /\ Buffered!Shutdown
          /\ [Buffered!Next]_(Buffered!vars)
          => (Buffered!TypeOK /\ Buffered!InOrder /\ Buffered!Shutdown)'
    BY WriterAssumption, CloserAssumption, Buffered!TypeStep, Buffered!OrderStep, Buffered!ShutdownStep
  <2> QED
    BY <2>1, <2>2, PTL DEF Buffered!Spec
<1>4. Buffered!TypeOK /\ Buffered!InOrder /\ Buffered!Shutdown /\ FlushInv => Flushed
  BY OverIsFlushed DEF FlushInv, Flushed, Synced, Procs
<1> QED
  BY <1>1, <1>2, <1>3, <1>4, FlushStep, IsLogger, IsWriter, LoggerTypes, PTL DEF AllSpec

----
(* A sync that panics takes its caller out of the logger, and nothing else *)
(* of what counts below with it.                                           *)
LEMMA SyncPanics ==
  ASSUME NEW p, FlushPanic(p) \/ SyncPanic(p)
  PROVE  /\ UNCHANGED <<closed, given, cur, api>>
         /\ pc[p] \in {"flush", "sync"}
         /\ pc' = [pc EXCEPT ![p] = "idle"]
  BY DEF FlushPanic, PanicIn, SyncPanic, Done, Goto, rootVars, entryVars, outVars

(* The entry in a goroutine's Write is in the writer's hands: at the       *)
(* select, or refused and about to be counted.                             *)
PassInv == /\ \A g \in Goroutines : pc[g] = "write" =>
                /\ buf[g] = cur[g]
                /\ wpc[g] = "select" \/ (wpc[g] = "drop" /\ buf[g] \in dropped)
           /\ \A c \in Closers : wpc[c] \notin {"select", "drop"}
           /\ Range(given) \subseteq Range(accepted) \union dropped \union lost

LEMMA PassStep ==
  TypeOK /\ Buffered!TypeOK /\ PassInv /\ [AllNext]_allVars => PassInv'
<1> SUFFICES ASSUME TypeOK, Buffered!TypeOK, PassInv, [AllNext]_allVars PROVE PassInv'
  OBVIOUS
<1> USE DEF Procs
<1> DEFINE C == Procs \union Closers
           busy == {"select", "drop"}
<1>0. /\ wpc \in [C -> {"idle", "select", "drop", "once", "await"}]
      /\ buf \in [C -> Entries \union {NoEntry}]
      /\ \A c \in C : wpc[c] = "select" => buf[c] \in Entries
      /\ pc \in [Procs -> {"idle", "close", "lockSync", "sync", "send", "await"}
                            \union Checking \union Writing]
      /\ cur \in [Goroutines -> Entries \union {NoEntry}] /\ accepted \in Seq(Entries)
      /\ given \in Seq(Entries) /\ \A g \in Goroutines : pc[g] = "write" => cur[g] \in Entries
  BY DEF TypeOK, PcOK, EntryOK, OutOK, Writing, Buffered!TypeOK, Buffered!CallOK,
         Buffered!HistoryOK
<1> HIDE DEF C, busy
(* What keeps clear of every Write under way.                              *)
<1>1. ASSUME UNCHANGED <<buf, given, accepted, dropped, lost>>,
             \A g \in Goroutines : pc'[g] = "write" => pc[g] = "write" /\ cur'[g] = cur[g],
             \A c \in C : /\ wpc[c] \in {"select", "drop"} => wpc'[c] = wpc[c]
                          /\ wpc'[c] \in {"select", "drop"} => wpc[c] = wpc'[c]
      PROVE  PassInv'
  <2>1. \A g \in Goroutines : g \in C
    BY DEF C
  <2>2. \A c \in Closers : c \in C
    BY DEF C
  <2> QED
    BY <1>1, <2>1, <2>2 DEF PassInv
<1>2. ASSUME UNCHANGED writerVars, UNCHANGED given,
             \A g \in Goroutines : pc'[g] = "write" => pc[g] = "write" /\ cur'[g] = cur[g]
      PROVE  PassInv'
  BY <1>1, <1>2 DEF writerVars
<1>3. ASSUME UNCHANGED vars, UNCHANGED <<buf, accepted, dropped, lost>>,
             \A c \in C : /\ wpc[c] \in {"select", "drop"} => wpc'[c] = wpc[c]
                          /\ wpc'[c] \in {"select", "drop"} => wpc[c] = wpc'[c]
      PROVE  PassInv'
  BY <1>1, <1>3 DEF vars, outVars, entryVars
<1>4. ASSUME NEW c \in C, Writer!CloseCall(c) \/ Writer!CloseFirst(c)
                            \/ Writer!CloseFinish(c) \/ Writer!CloseLater(c)
      PROVE  /\ UNCHANGED <<buf, accepted, dropped, lost>>
             /\ \A d \in C : /\ wpc[d] \in {"select", "drop"} => wpc'[d] = wpc[d]
                             /\ wpc'[d] \in {"select", "drop"} => wpc[d] = wpc'[d]
  BY <1>0, <1>4 DEF Writer!CloseCall, Writer!CloseFirst, Writer!CloseFinish,
       Writer!CloseLater, Writer!SyncDest, Writer!Goto, Writer!Return, Writer!fateVars
<1>5. ASSUME NEW g \in Goroutines, LogWrite(g) PROVE PassInv'
  <2>1. /\ g \in C /\ pc' = [pc EXCEPT ![g] = "write"]
        /\ wpc' = [wpc EXCEPT ![g] = "select"] /\ buf' = [buf EXCEPT ![g] = cur[g]]
        /\ UNCHANGED <<cur, given, accepted, dropped, lost>>
    BY <1>5 DEF C, LogWrite, Lock, Goto, entryVars, outVars, Writer!WriteCall,
                Writer!Goto, Writer!fateVars
  <2>2. g \notin Closers
    BY CloserAssumption
  <2>3. \A h \in Goroutines : h # g => /\ h \in C /\ pc'[h] = pc[h]
                                       /\ wpc'[h] = wpc[h] /\ buf'[h] = buf[h]
    BY <1>0, <2>1 DEF C
  <2>4. \A c \in Closers : wpc'[c] = wpc[c]
    BY <1>0, <2>1, <2>2 DEF C
  <2>5. wpc'[g] = "select" /\ buf'[g] = cur[g]
    BY <1>0, <2>1
  <2> QED
    BY <2>1, <2>3, <2>4, <2>5 DEF PassInv
<1>6. ASSUME NEW g \in Goroutines, LogWriteReturn(g) PROVE PassInv'
  <2>1. /\ g \in C /\ pc[g] = "write" /\ pc' = [pc EXCEPT ![g] = "hooks"]
        /\ given' = Append(given, cur[g]) /\ UNCHANGED cur
    BY <1>6 DEF C, LogWriteReturn, WriteOk, Goto, entryVars
  <2>2. cur[g] = buf[g] /\ cur[g] \in Entries
    BY <1>0, <2>1 DEF PassInv
  <2>3. wpc' = [wpc EXCEPT ![g] = "idle"] /\ UNCHANGED buf
    BY <1>6 DEF LogWriteReturn, Writer!WriteSend, Writer!WriteDrop, Writer!WriteClosed,
                Writer!Return
  <2>4. /\ dropped \subseteq dropped'
        /\ Range(accepted) \union dropped \union lost \union {cur[g]}
             \subseteq Range(accepted') \union dropped' \union lost'
    <3>1. CASE Writer!WriteSend(g)
      <4>1. accepted' = Append(accepted, buf[g]) /\ UNCHANGED <<dropped, lost>>
        BY <3>1 DEF Writer!WriteSend
      <4>2. Range(accepted') = Range(accepted) \union {cur[g]}
        BY <1>0, <2>2, <4>1, RangeGrows
      <4> QED
        BY <4>1, <4>2
    <3>2. CASE Writer!WriteDrop(g)
      <4>1. wpc[g] = "drop" /\ UNCHANGED <<accepted, dropped, lost>>
        BY <3>2 DEF Writer!WriteDrop, Writer!fateVars
      <4>2. cur[g] \in dropped
        BY <2>1, <2>2, <4>1 DEF PassInv
      <4> QED
        BY <4>1, <4>2
    <3>3. CASE Writer!WriteClosed(g)
      BY <2>2, <3>3 DEF Writer!WriteClosed
    <3> QED
      BY <1>6, <3>1, <3>2, <3>3 DEF LogWriteReturn
  <2>5. Range(given') = Range(given) \union {cur[g]}
    BY <1>0, <2>1, <2>2, RangeGrows
  <2>6. pc'[g] # "write" /\ \A h \in Goroutines : h # g => pc'[h] = pc[h] /\ wpc'[h] = wpc[h]
    BY <1>0, <2>1, <2>3 DEF C
  <2>7. \A c \in Closers : wpc'[c] \notin {"select", "drop"}
    BY <1>0, <2>1, <2>3 DEF C, PassInv
  <2> QED
    BY <2>1, <2>3, <2>4, <2>5, <2>6, <2>7 DEF PassInv
<1>7. ASSUME NEW c \in C, Writer!WriteFull(c), UNCHANGED vars PROVE PassInv'
  <2>1. /\ wpc[c] = "select" /\ wpc' = [wpc EXCEPT ![c] = "drop"]
        /\ dropped' = dropped \union {buf[c]} /\ UNCHANGED <<buf, accepted, lost>>
    BY <1>7 DEF Writer!WriteFull, Writer!Goto
  <2>2. UNCHANGED <<pc, cur, given>>
    BY <1>7 DEF vars, entryVars, outVars
  <2>3. c \notin Closers
    BY <2>1 DEF PassInv
  <2>4. \A d \in C : wpc'[d] = IF d = c THEN "drop" ELSE wpc[d]
    BY <1>0, <2>1
  <2>5. (\A g \in Goroutines : g \in C) /\ \A d \in Closers : d \in C
    BY DEF C
  <2> QED
    BY <2>1, <2>2, <2>3, <2>4, <2>5 DEF PassInv
<1>8. ASSUME NEW g \in Goroutines, LogHooks(g) \/ LogFlushed(g) PROVE PassInv'
  <2>1. /\ UNCHANGED <<given, cur>>
        /\ \A h \in Goroutines : pc'[h] = "write" => pc[h] = "write"
    BY <1>0, <1>8, SyncPanics DEF LogHooks, RunHooks, HookOutcomes, AfterHooks, LogFlushed,
                      FlushReturn, Done, Goto, entryVars
  <2>2. CASE UNCHANGED writerVars
    BY <1>2, <2>1, <2>2
  <2>3. CASE Writer!CloseCall(g) \/ Writer!CloseFinish(g) \/ Writer!CloseLater(g)
    <3>1. g \in C
      BY DEF C
    <3> QED
      BY <1>1, <1>4, <2>1, <2>3, <3>1
  <2> QED
    BY <1>8, <2>2, <2>3 DEF LogHooks, LogFlushed
<1>9. ASSUME NEW g \in Goroutines, Alone(g) PROVE PassInv'
  <2>1. UNCHANGED writerVars
    BY <1>9 DEF Alone, LoggerCall, LoggerAlone
  <2>2. UNCHANGED given /\ \A h \in Goroutines :
                             pc'[h] = "write" => pc[h] = "write" /\ cur'[h] = cur[h]
    <3>1. ASSUME NEW e \in Entries, NEW l \in Levels, NEW a \in {"log", "slog"},
                 LogCall(g, e, l, a)
          PROVE  UNCHANGED given /\ \A h \in Goroutines :
                   pc'[h] = "write" => pc[h] = "write" /\ cur'[h] = cur[h]
      BY <1>0, <3>1 DEF LogCall, Goto, outVars
    <3>2. CASE \/ \E l \in MinLevels : SetLevel(g, l)
               \/ SyncCall(g) \/ \E h \in Helpers : TimedCall(g, h)
      BY <1>0, <3>2 DEF SetLevel, SyncCall, TimedCall, Goto, outVars, entryVars
    <3>3. CASE CheckClosed(g) \/ CheckLevel(g) \/ Sample(g) \/ MiddlewareCall(g)
               \/ MiddlewareReturn(g)
      BY <1>0, <3>3 DEF CheckClosed, CheckLevel, AfterLevel, Sample, MiddlewareCall,
           MiddlewareReturn, filterUnchanged, Done, Goto, outVars, entryVars
    <3>4. CASE Exit(g) \/ TimedReturn(g) \/ TimedOut(g)
      BY <1>0, <3>4 DEF Exit, TimedReturn, TimedOut, TimedEnd, Done, Goto, outVars, entryVars
    <3> QED
      BY <1>9, <3>1, <3>2, <3>3, <3>4 DEF Alone, LoggerCall, LoggerAlone, Calls
  <2> QED
    BY <1>2, <2>1, <2>2
<1>10. ASSUME NEW p \in Procs, SyncStep(p) PROVE PassInv'
  <2>1. /\ UNCHANGED <<given, cur>>
        /\ \A h \in Goroutines : pc'[h] = "write" => pc[h] = "write"
    BY <1>0, <1>10, SyncPanics DEF SyncStep, LogSync, LockSync, LogSyncReturn, SyncReturn, SyncAlone,
                       StoreClosed, HelperSend, Done, Goto, entryVars, outVars
  <2>2. CASE UNCHANGED writerVars
    BY <1>2, <2>1, <2>2
  <2>3. CASE Writer!CloseCall(p) \/ Writer!CloseFinish(p) \/ Writer!CloseLater(p)
    <3>1. p \in C
      BY DEF C
    <3> QED
      BY <1>1, <1>4, <2>1, <2>3, <3>1
  <2> QED
    BY <1>10, <2>2, <2>3 DEF SyncStep, LogSync, LogSyncReturn, SyncAlone
<1>11. ASSUME NEW c \in C, WriterAlone(c) PROVE PassInv'
  BY <1>3, <1>4, <1>7, <1>11 DEF WriterAlone
<1>12. ASSUME NEW c \in Closers, DirectClose(c) PROVE PassInv'
  <2>1. c \in C
    BY DEF C
  <2> QED
    BY <1>3, <1>4, <1>12, <2>1 DEF DirectClose
<1>13. CASE DrainAlone \/ DestHang
  <2>1. UNCHANGED vars /\ UNCHANGED <<buf, accepted, dropped, lost, wpc>>
    BY <1>13 DEF DrainAlone, DestHang, Writer!Drain, Writer!DrainRecv, Writer!DrainWrite,
         Writer!DrainExit, Writer!DestHang, Writer!fateVars, Writer!callVars
  <2> QED
    BY <1>3, <2>1
<1>14. CASE UNCHANGED allVars
  <2>1. UNCHANGED <<pc, cur, given, buf, wpc, accepted, dropped, lost>>
    BY <1>14 DEF allVars, vars, writerVars, entryVars, outVars
  <2> QED
    BY <2>1 DEF PassInv
<1> QED
  BY <1>5, <1>6, <1>8, <1>9, <1>10, <1>11, <1>12, <1>13, <1>14 DEF AllNext, Alone, LogStep, C

(* No entry vanishes: each one given to the writer is accepted, dropped    *)
(* and counted, or refused by the closed channel.                          *)
THEOREM NoneVanishes == AllSpec => []EntriesAccounted
<1>1. AllInit => PassInv
  BY DEF AllInit, Init, Writer!Init, PassInv, Range, Procs
<1>2. Buffered!Spec => []Buffered!TypeOK
  BY Buffered!TypeCorrect, WriterAssumption, CloserAssumption
<1>3. Buffered!Spec => []Buffered!Accounted
  BY Buffered!NothingUncounted, WriterAssumption, CloserAssumption
<1>4. PassInv /\ Buffered!Accounted => EntriesAccounted
  <2> SUFFICES ASSUME PassInv, Buffered!Accounted PROVE EntriesAccounted
    OBVIOUS
  <2>1. {c \in Procs \union Closers : wpc[c] = "drop"} = {p \in Procs : wpc[p] = "drop"}
    BY DEF PassInv
  <2>2. Buffered!Cardinality(dropped)
          = dropCnt + Buffered!Cardinality({c \in Procs \union Closers : wpc[c] = "drop"})
    BY DEF Buffered!Accounted
  <2>3. ASSUME NEW S PROVE Buffered!Cardinality(S) = Cardinality(S)
    BY DEF Buffered!Cardinality, Cardinality
  <2>4. Cardinality(dropped) = dropCnt + Cardinality({p \in Procs : wpc[p] = "drop"})
    BY <2>1, <2>2, <2>3
  <2> QED
    BY <2>4 DEF PassInv, EntriesAccounted
<1> QED
  BY <1>1, <1>2, <1>3, <1>4, PassStep, IsLogger, IsWriter, LoggerTypes, PTL DEF AllSpec

----
(* The moves of a goroutine by itself, as far as shutdown is concerned: it *)
(* leaves no call of the writer's.                                         *)
LEMMA AloneMoves ==
  ASSUME TypeOK, NEW g \in Goroutines, Alone(g)
  PROVE  /\ UNCHANGED <<closed, given, chClosed, lost, accepted, handed, wpc, wret, buf>>
         /\ pc[g] \in {"idle", "await", "exit"} \union Checking
         /\ pc[g] = "exit" => pc'[g] = "exit"
         /\ pc[g] # "exit" => pc'[g] \in {"idle", "close", "await"} \union Checking
         /\ \A p \in Procs : p # g => pc'[p] = pc[p] \/ (pc[p] = "idle" /\ pc'[p] = "close")
<1> USE DEF Procs
<1>0. /\ UNCHANGED writerVars
      /\ pc \in [Procs -> {"idle", "close", "lockSync", "sync", "send", "await"}
                            \union Checking \union Writing]
  BY DEF Alone, LoggerCall, LoggerAlone, TypeOK, PcOK
<1>1. UNCHANGED <<chClosed, lost, accepted, handed, wpc, wret, buf>>
  BY <1>0 DEF writerVars
<1>2. ASSUME NEW e \in Entries, NEW l \in Levels, NEW a \in {"log", "slog"}, LogCall(g, e, l, a)
      PROVE  /\ UNCHANGED <<closed, given>> /\ pc[g] = "idle"
             /\ \E m \in {"level", "closed"} : Goto(g, m)
  BY <1>2 DEF LogCall, rootVars, outVars
<1>3. ASSUME NEW l \in MinLevels, SetLevel(g, l)
      PROVE  UNCHANGED <<closed, given, pc>> /\ pc[g] = "idle"
  BY <1>3 DEF SetLevel, outVars
<1>4. ASSUME SyncCall(g)
      PROVE  UNCHANGED <<closed, given>> /\ pc[g] = "idle" /\ Goto(g, "close")
  BY <1>4 DEF SyncCall, rootVars, outVars
<1>5. ASSUME NEW h \in Helpers, TimedCall(g, h)
      PROVE  /\ UNCHANGED <<closed, given>> /\ pc[g] = "idle" /\ pc[h] = "idle"
             /\ pc' = [pc EXCEPT ![g] = "await", ![h] = "close"]
  BY <1>5 DEF TimedCall, Free, rootVars, outVars
<1>6. ASSUME CheckClosed(g) \/ CheckLevel(g) \/ Sample(g) \/ MiddlewareCall(g)
             \/ MiddlewareReturn(g)
      PROVE  /\ UNCHANGED <<closed, given>> /\ pc[g] \in Checking
             /\ \E m \in {"idle"} \union Checking : Goto(g, m)
  BY <1>6 DEF CheckClosed, CheckLevel, AfterLevel, Sample, MiddlewareCall,
       MiddlewareReturn, filterUnchanged, Done, rootVars, outVars, Checking
<1>7. ASSUME Exit(g)
      PROVE  UNCHANGED <<closed, given, pc>> /\ pc[g] = "exit"
  BY <1>7 DEF Exit, outVars
<1>8. ASSUME TimedReturn(g) \/ TimedOut(g)
      PROVE  UNCHANGED <<closed, given>> /\ pc[g] = "await" /\ Goto(g, "idle")
  BY <1>8 DEF TimedReturn, TimedOut, TimedEnd, Done, rootVars, outVars
<1>9. g \notin Helpers
  BY ProcAssumption
<1> QED
  BY <1>0, <1>1, <1>2, <1>3, <1>4, <1>5, <1>6, <1>7, <1>8, <1>9
  DEF Alone, LoggerCall, LoggerAlone, Calls, Goto, Checking

(* Nobody has closed the writer directly, and no flush of a FATAL entry    *)
(* has panicked and left it closed.                                        *)
Clean == Untouched /\ FlushPanicked = {}

(* Who closes the writer: a Sync of the logger, which has set closed, or   *)
(* the flush of a FATAL entry, which then keeps the mutex for good.        *)
ShutInv == /\ \A p \in Procs : wpc[p] \in {"once", "await"} => pc[p] \in {"sync", "flush"}
           /\ \A p \in Procs : pc[p] \in {"lockSync", "sync", "send"} => closed
           /\ Clean /\ chClosed =>
                closed \/ \E g \in Goroutines : pc[g] \in {"flush", "exit"}

(* No panic is forgotten.                                                  *)
LEMMA PanicsStay == [Next]_vars => panicked \subseteq panicked'
<1> SUFFICES ASSUME [Next]_vars PROVE panicked \subseteq panicked'
  OBVIOUS
<1>1. ASSUME UNCHANGED vars PROVE panicked' = panicked
  BY <1>1 DEF vars, outVars
<1>2. ASSUME NEW g \in Goroutines, Calls(g) PROVE panicked' = panicked
  BY <1>2 DEF Calls, LogCall, SetLevel, SyncCall, TimedCall, outVars
<1>3. ASSUME NEW g \in Goroutines, Inner(g) \/ Lock(g) \/ OutWrite(g) \/ FlushReturn(g)
      PROVE  panicked' = panicked
  BY <1>3 DEF Inner, CheckClosed, CheckLevel, Sample, MiddlewareCall, MiddlewareReturn,
       filterUnchanged, CountError, Fallback, RunHooks, Exit, TimedReturn, TimedOut, TimedEnd,
       Lock, OutWrite, WriteOk, WriteErr, FlushReturn, outVars
<1>4. ASSUME NEW g \in Goroutines, Panics(g) PROVE panicked \subseteq panicked'
  BY <1>4, PanicUnwinds DEF PanicIn
<1>5. ASSUME NEW p \in Procs,
             StoreClosed(p) \/ LockSync(p) \/ OutSync(p) \/ HelperSend(p)
      PROVE  panicked' = panicked
  BY <1>5 DEF StoreClosed, LockSync, OutSync, SyncReturn, SyncPanic, HelperSend, outVars
<1>6. ASSUME OutHang PROVE panicked' = panicked
  BY <1>6 DEF OutHang, outVars
<1> QED
  BY <1>1, <1>2, <1>3, <1>4, <1>5, <1>6 DEF Next, Step, Stopped

(* Nobody can undo a direct Close, and each step of one shows.             *)
LEMMA TouchedStays ==
  ASSUME Buffered!TypeOK, [AllNext]_allVars, Untouched'
  PROVE  /\ Untouched
         /\ \A c \in Closers : ~DirectClose(c) /\ ~WriterAlone(c)
<1>0. wpc \in [Procs \union Closers -> {"idle", "select", "drop", "once", "await"}]
      /\ DOMAIN wret = Procs \union Closers
  BY DEF Buffered!TypeOK, Buffered!CallOK
<1>1. ASSUME NEW c \in Closers, DirectClose(c) PROVE FALSE
  BY <1>0, <1>1 DEF DirectClose, Writer!CloseCall, Writer!CloseFinish, Writer!CloseLater,
       Writer!SyncDest, Writer!Goto, Writer!Return, Untouched
<1>2. ASSUME NEW c \in Closers, WriterAlone(c) PROVE FALSE
  BY <1>0, <1>2 DEF WriterAlone, Writer!WriteFull, Writer!CloseFirst, Writer!Goto, Untouched
<1>3. ASSUME NEW p \in Procs,
             \/ wpc' = wpc /\ wret' = wret
             \/ \E l : wpc' = [wpc EXCEPT ![p] = l] /\ wret' = wret
             \/ \E l, r : wpc' = [wpc EXCEPT ![p] = l] /\ wret' = [wret EXCEPT ![p] = r]
      PROVE  Untouched
  <2>1. \A c \in Closers : c # p
    BY CloserAssumption
  <2> QED
    BY <1>0, <1>3, <2>1 DEF Untouched
<1>4. ASSUME NEW g \in Goroutines, LogStep(g) PROVE Untouched
  <2>1. g \in Procs
    BY DEF Procs
  <2>2. CASE LogWrite(g)
    BY <1>3, <2>1, <2>2 DEF LogWrite, Writer!WriteCall, Writer!Goto
  <2>3. CASE LogWriteReturn(g)
    BY <1>3, <2>1, <2>3
    DEF LogWriteReturn, Writer!WriteSend, Writer!WriteDrop, Writer!WriteClosed, Writer!Return
  <2>4. CASE LogHooks(g)
    BY <1>3, <2>1, <2>4 DEF LogHooks, writerVars, Writer!CloseCall, Writer!Goto
  <2>5. CASE LogFlushed(g)
    BY <1>3, <2>1, <2>5
    DEF LogFlushed, Writer!CloseFinish, Writer!CloseLater, Writer!SyncDest, Writer!Return
  <2> QED
    BY <1>4, <2>2, <2>3, <2>4, <2>5 DEF LogStep
<1>5. ASSUME NEW p \in Procs, SyncStep(p) \/ WriterAlone(p) PROVE Untouched
  BY <1>3, <1>5
  DEF SyncStep, LogSync, LogSyncReturn, SyncAlone, WriterAlone, writerVars,
      Writer!WriteFull, Writer!CloseFirst,
      Writer!CloseCall, Writer!CloseFinish, Writer!CloseLater,
      Writer!SyncDest, Writer!Goto, Writer!Return
<1>6. ASSUME UNCHANGED <<wpc, wret>> PROVE Untouched
  BY <1>6 DEF Untouched
<1>7. ASSUME NEW g \in Goroutines, Alone(g) PROVE UNCHANGED <<wpc, wret>>
  BY <1>7 DEF Alone, LoggerCall, LoggerAlone, writerVars
<1>8. ASSUME DrainAlone \/ DestHang PROVE UNCHANGED <<wpc, wret>>
  BY <1>8 DEF DrainAlone, DestHang, Writer!Drain, Writer!DrainRecv, Writer!DrainWrite,
       Writer!DrainExit, Writer!DestHang, Writer!callVars
<1>9. ASSUME UNCHANGED allVars PROVE UNCHANGED <<wpc, wret>>
  BY <1>9 DEF allVars, writerVars
<1>10. Untouched
  BY <1>1, <1>2, <1>4, <1>5, <1>6, <1>7, <1>8, <1>9 DEF AllNext, Alone
<1> QED
  BY <1>1, <1>2, <1>10

(* Nor can anything undo a panic of a flush.                               *)
LEMMA CleanStays ==
  ASSUME TypeOK, Buffered!TypeOK, [AllNext]_allVars, Clean'
  PROVE  /\ Clean
         /\ \A c \in Closers : ~DirectClose(c) /\ ~WriterAlone(c)
         /\ \A g \in Goroutines : ~FlushPanic(g)
<1>1. Untouched /\ \A c \in Closers : ~DirectClose(c) /\ ~WriterAlone(c)
  BY TouchedStays DEF Clean
<1>2. [Next]_vars
  BY LoggerSide DEF allVars
<1>3. panicked \subseteq panicked'
  BY <1>2, PanicsStay
<1>4. FlushPanicked = {}
  BY <1>3 DEF FlushPanicked, Clean
<1>5. ASSUME NEW g \in Goroutines, FlushPanic(g) PROVE FALSE
  <2>1. cur[g] \in Entries /\ <<"flush", cur[g]>> \in panicked'
    BY <1>5 DEF FlushPanic, PanicIn, TypeOK, EntryOK, Writing
  <2> QED
    BY <2>1 DEF FlushPanicked, Clean
<1> QED
  BY <1>1, <1>4, <1>5 DEF Clean

LEMMA ShutStep == TypeOK /\ Buffered!TypeOK /\ ShutInv /\ [AllNext]_allVars => ShutInv'
<1> SUFFICES ASSUME TypeOK, Buffered!TypeOK, ShutInv, [AllNext]_allVars PROVE ShutInv'
  OBVIOUS
<1>0. /\ wpc \in [Procs \union Closers -> {"idle", "select", "drop", "once", "await"}]
      /\ pc \in [Procs -> {"idle", "close", "lockSync", "sync", "send", "await"}
                            \union Checking \union Writing]
      /\ \A h \in Helpers : pc[h] # "flush"
      /\ chClosed \in BOOLEAN /\ closed \in BOOLEAN
      /\ Goroutines \subseteq Procs /\ Helpers \subseteq Procs /\ Procs = Goroutines \union Helpers
  BY DEF TypeOK, PcOK, StateOK, Buffered!TypeOK, Buffered!CallOK, Buffered!FlagOK, Procs
<1>1. Clean' => /\ Clean
                /\ \A c \in Closers : ~DirectClose(c) /\ ~WriterAlone(c)
                /\ \A g \in Goroutines : ~FlushPanic(g)
  BY CleanStays
(* A process moves, and the writer for it: what it must not forget.        *)
<1>2. ASSUME NEW p \in Procs, NEW l, NEW w,
             pc' = [pc EXCEPT ![p] = l], wpc' = [wpc EXCEPT ![p] = w], UNCHANGED chClosed,
             closed => closed', w \in {"once", "await"} => l \in {"sync", "flush"},
             l \in {"lockSync", "sync", "send"} => closed',
             pc[p] \in {"flush", "exit"} => l \in {"flush", "exit"}
      PROVE  ShutInv'
  <2>1. \A q \in Procs : pc'[q] = (IF q = p THEN l ELSE pc[q])
                         /\ wpc'[q] = (IF q = p THEN w ELSE wpc[q])
    BY <1>0, <1>2
  <2>2. Clean' /\ chClosed' =>
          closed' \/ \E g \in Goroutines : pc'[g] \in {"flush", "exit"}
    BY <1>0, <1>1, <1>2, <2>1 DEF ShutInv
  <2> QED
    BY <1>2, <2>1, <2>2 DEF ShutInv
<1>3. ASSUME UNCHANGED <<closed, chClosed, pc>>,
             \A p \in Procs : wpc'[p] \in {"once", "await"} => wpc[p] \in {"once", "await"}
      PROVE  ShutInv'
  BY <1>1, <1>3 DEF ShutInv
<1>4. ASSUME NEW g \in Goroutines, LogStep(g) PROVE ShutInv'
  <2>1. CASE LogWrite(g)
    BY <1>0, <1>2, <2>1 DEF LogWrite, Lock, Goto, rootVars, Writer!WriteCall, Writer!Goto,
                            Writer!chanVars
  <2>2. CASE LogWriteReturn(g)
    BY <1>0, <1>2, <2>2 DEF LogWriteReturn, WriteOk, Goto, rootVars, Writer!WriteSend,
         Writer!WriteDrop, Writer!WriteClosed, Writer!Return, Writer!chanVars
  <2>3. CASE LogHooks(g)
    <3>1. /\ pc[g] = "hooks" /\ UNCHANGED closed
          /\ \/ pc' = [pc EXCEPT ![g] = "flush"]
             \/ pc' = [pc EXCEPT ![g] = "idle"]
      BY <2>3, AsyncIsSyncer DEF LogHooks, RunHooks, HookOutcomes, AfterHooks, Done, Goto, rootVars
    <3>2. CASE pc' = [pc EXCEPT ![g] = "flush"]
      <4>1. pc'[g] = "flush"
        BY <1>0, <3>2
      <4>2. wpc' = [wpc EXCEPT ![g] = "once"] /\ UNCHANGED chClosed
        BY <2>3, <4>1 DEF LogHooks, Writer!CloseCall, Writer!Goto, Writer!chanVars
      <4> QED
        BY <1>0, <1>2, <3>1, <3>2, <4>2
    <3>3. CASE pc' = [pc EXCEPT ![g] = "idle"]
      <4>1. pc'[g] # "flush"
        BY <1>0, <3>3
      <4>2. wpc' = [wpc EXCEPT ![g] = wpc[g]] /\ UNCHANGED chClosed
        BY <1>0, <2>3, <4>1 DEF LogHooks, writerVars
      <4>3. wpc[g] \notin {"once", "await"}
        BY <1>0, <3>1 DEF ShutInv
      <4> QED
        BY <1>0, <1>2, <3>1, <3>3, <4>2, <4>3
    <3> QED
      BY <3>1, <3>2, <3>3
  <2>4. CASE LogFlushed(g)
    <3>1. (\E w \in {"idle"} : wpc' = [wpc EXCEPT ![g] = w]) /\ UNCHANGED chClosed
      BY <2>4 DEF LogFlushed, Writer!CloseFinish, Writer!CloseLater, Writer!SyncDest,
                  Writer!Return, Writer!chanVars
    <3>2. CASE FlushReturn(g)
      BY <1>0, <1>2, <3>1, <3>2 DEF FlushReturn, Goto, rootVars
    <3>3. CASE FlushPanic(g)
      <4>1. ~Clean' /\ UNCHANGED closed /\ pc' = [pc EXCEPT ![g] = "idle"]
        BY <1>1, <3>3, SyncPanics
      <4> QED
        BY <1>0, <3>1, <4>1 DEF ShutInv
    <3> QED
      BY <2>4, <3>2, <3>3 DEF LogFlushed
  <2> QED
    BY <1>4, <2>1, <2>2, <2>3, <2>4 DEF LogStep
<1>5. ASSUME NEW g \in Goroutines, Alone(g) PROVE ShutInv'
  <2>1. /\ UNCHANGED <<closed, chClosed, wpc>>
        /\ pc[g] \in {"idle", "await", "exit"} \union Checking
        /\ pc[g] = "exit" => pc'[g] = "exit"
        /\ pc[g] # "exit" => pc'[g] \in {"idle", "close", "await"} \union Checking
        /\ \A p \in Procs : p # g => pc'[p] = pc[p] \/ (pc[p] = "idle" /\ pc'[p] = "close")
    BY <1>5, AloneMoves
  <2>2. \A p \in Procs : /\ pc[p] \in {"sync", "flush"} => pc'[p] = pc[p]
                         /\ pc'[p] \in {"lockSync", "sync", "send"} => pc'[p] = pc[p]
                         /\ pc[p] \in {"flush", "exit"} => pc'[p] = pc[p]
    BY <2>1 DEF Checking
  <2> QED
    BY <1>0, <1>1, <2>1, <2>2 DEF ShutInv
<1>6. ASSUME NEW p \in Procs, SyncStep(p) PROVE ShutInv'
  <2>1. CASE LogSync(p)
    BY <1>0, <1>2, <2>1 DEF LogSync, LockSync, Goto, rootVars, Writer!CloseCall, Writer!Goto,
                            Writer!chanVars, ShutInv
  <2>2. CASE LogSyncReturn(p)
    <3>1. wpc' = [wpc EXCEPT ![p] = "idle"] /\ UNCHANGED chClosed
      BY <2>2 DEF LogSyncReturn, Writer!CloseFinish, Writer!CloseLater, Writer!SyncDest,
                  Writer!Return, Writer!chanVars
    <3>2. /\ pc[p] = "sync" /\ UNCHANGED closed /\ closed
          /\ \E l \in {"send", "idle"} : pc' = [pc EXCEPT ![p] = l]
      BY <1>0, <2>2, SyncPanics DEF LogSyncReturn, SyncReturn, SyncPanic, Done, Goto, rootVars,
                                    ShutInv
    <3> QED
      BY <1>0, <1>2, <3>1, <3>2
  <2>3. CASE SyncAlone(p)
    <3>1. /\ UNCHANGED <<chClosed, wpc>> /\ (closed => closed')
          /\ \/ pc[p] = "close" /\ pc' = [pc EXCEPT ![p] = "lockSync"] /\ closed'
             \/ pc[p] = "send" /\ pc' = [pc EXCEPT ![p] = "idle"]
      BY <2>3 DEF SyncAlone, StoreClosed, HelperSend, Done, Goto, rootVars, writerVars
    <3>2. wpc' = [wpc EXCEPT ![p] = wpc[p]] /\ wpc[p] \notin {"once", "await"}
      BY <1>0, <3>1 DEF ShutInv
    <3> QED
      BY <1>0, <1>2, <3>1, <3>2
  <2> QED
    BY <1>6, <2>1, <2>2, <2>3 DEF SyncStep
<1>7. ASSUME NEW c \in Procs \union Closers, WriterAlone(c) PROVE ShutInv'
  <2>1. UNCHANGED <<closed, pc>>
    BY <1>7 DEF WriterAlone, vars, rootVars
  <2>2. CASE Writer!WriteFull(c)
    <3>1. wpc' = [wpc EXCEPT ![c] = "drop"] /\ UNCHANGED chClosed
      BY <2>2 DEF Writer!WriteFull, Writer!Goto, Writer!chanVars
    <3> QED
      BY <1>0, <1>3, <2>1, <3>1
  <2>3. CASE Writer!CloseFirst(c)
    <3>1. wpc' = [wpc EXCEPT ![c] = "await"] /\ wpc[c] = "once"
      BY <2>3 DEF Writer!CloseFirst, Writer!Goto
    <3>2. \A p \in Procs : wpc'[p] \in {"once", "await"} => wpc[p] \in {"once", "await"}
      BY <1>0, <3>1
    <3>3. Clean' => closed \/ \E g \in Goroutines : pc[g] \in {"flush", "exit"}
      <4>1. Clean' => c \in Procs
        BY <1>1, <1>7
      <4>2. c \in Procs => closed \/ (c \in Goroutines /\ pc[c] = "flush")
        BY <1>0, <3>1 DEF ShutInv
      <4> QED
        BY <4>1, <4>2
    <3> QED
      BY <2>1, <3>2, <3>3 DEF ShutInv
  <2> QED
    BY <1>7, <2>2, <2>3 DEF WriterAlone
<1>8. ASSUME NEW c \in Closers, DirectClose(c) PROVE ShutInv'
  <2>1. UNCHANGED <<closed, pc, chClosed>>
    BY <1>8 DEF DirectClose, vars, rootVars, Writer!CloseCall, Writer!CloseFinish,
                Writer!CloseLater, Writer!chanVars
  <2>2. \A p \in Procs : wpc'[p] = wpc[p]
    <3>1. \A p \in Procs : p # c
      BY CloserAssumption
    <3>2. \E l : wpc' = [wpc EXCEPT ![c] = l]
      BY <1>8 DEF DirectClose, Writer!CloseCall, Writer!CloseFinish, Writer!CloseLater,
           Writer!SyncDest, Writer!Goto, Writer!Return
    <3> QED
      BY <1>0, <3>1, <3>2
  <2> QED
    BY <1>3, <2>1, <2>2
<1>9. CASE DrainAlone \/ DestHang
  BY <1>3, <1>9 DEF DrainAlone, DestHang, Writer!Drain, Writer!DrainRecv, Writer!DrainWrite,
       Writer!DrainExit, Writer!DestHang, Writer!callVars, Writer!chanVars, vars, rootVars
<1>10. CASE UNCHANGED allVars
  BY <1>3, <1>10 DEF allVars, vars, rootVars, writerVars
<1> QED
  BY <1>4, <1>5, <1>6, <1>7, <1>8, <1>9, <1>10 DEF AllNext, Alone

(* Only a goroutine that found closed unset can still lose its entry, and  *)
(* it loses one; while closed is unset nothing has been lost, and once it  *)
(* is set no goroutine joins those.                                        *)
FoundOpen == {g \in Goroutines :
                \/ pc[g] \in {"sample", "assemble", "middleware", "lock", "write"}
                \/ pc[g] = "level" /\ api[g] = "log"}
LossInv == Clean =>
             /\ ~closed => lost = {}
             /\ IsFiniteSet(lost)
             /\ Cardinality(lost) + Cardinality(FoundOpen) <= Cardinality(Goroutines)

(* How one goroutine's move bears on who has found closed unset.           *)
LEMMA FoundOpenMoves ==
  ASSUME TypeOK, NEW g \in Goroutines, NEW l,
         pc' = [pc EXCEPT ![g] = l], UNCHANGED api
  PROVE  /\ l \notin {"level", "sample", "assemble", "middleware", "lock", "write"}
              => FoundOpen' = FoundOpen \ {g}
         /\ g \in FoundOpen => FoundOpen' \subseteq FoundOpen
BY DEF TypeOK, PcOK, FoundOpen, Procs

LEMMA LossStep ==
  ASSUME IsFiniteSet(Goroutines)
  PROVE  TypeOK /\ Buffered!TypeOK /\ HoldersOnly /\ ShutInv /\ LossInv /\ [AllNext]_allVars
           => LossInv'
<1> SUFFICES ASSUME TypeOK, Buffered!TypeOK, HoldersOnly, ShutInv, LossInv, [AllNext]_allVars,
                    Clean'
             PROVE  LossInv'
  BY DEF LossInv
<1>0. /\ pc \in [Procs -> {"idle", "close", "lockSync", "sync", "send", "await"}
                            \union Checking \union Writing]
      /\ closed \in BOOLEAN /\ api \in [Goroutines -> {"log", "slog"}]
      /\ Goroutines \subseteq Procs /\ Procs = Goroutines \union Helpers
  BY DEF TypeOK, PcOK, StateOK, EntryOK, Procs
<1>1. Clean
  BY CleanStays
<1>2. /\ IsFiniteSet(lost) /\ Cardinality(lost) \in Nat /\ Cardinality(Goroutines) \in Nat
      /\ \A S \in SUBSET Goroutines : /\ IsFiniteSet(S) /\ Cardinality(S) \in Nat
                                      /\ Cardinality(S) <= Cardinality(Goroutines)
  BY <1>1, FS_Subset, FS_CardinalityType DEF LossInv
<1>3. ASSUME lost' = lost, closed => closed', ~closed \/ FoundOpen' \subseteq FoundOpen
      PROVE  LossInv'
  <2>1. FoundOpen \subseteq Goroutines /\ FoundOpen' \subseteq Goroutines
    BY DEF FoundOpen
  <2>2. CASE ~closed
    <3>1. lost = {} /\ Cardinality(lost) = 0
      BY <1>1, <2>2, FS_EmptySet DEF LossInv
    <3> QED
      BY <1>2, <1>3, <2>1, <3>1 DEF LossInv
  <2>3. CASE FoundOpen' \subseteq FoundOpen
    <3>1. Cardinality(FoundOpen') <= Cardinality(FoundOpen)
          /\ Cardinality(FoundOpen') \in Nat /\ Cardinality(FoundOpen) \in Nat
      BY <1>2, <2>1, <2>3, FS_Subset
    <3> QED
      BY <1>1, <1>2, <1>3, <3>1 DEF LossInv
  <2> QED
    BY <1>3, <2>2, <2>3
<1>4. ASSUME NEW g \in FoundOpen, FoundOpen' = FoundOpen \ {g}, closed, closed',
             NEW e, lost' = lost \union {e}
      PROVE  LossInv'
  <2>1. Cardinality(lost') \in Nat /\ IsFiniteSet(lost') /\ Cardinality(lost') <= Cardinality(lost) + 1
    <3>1. CASE e \in lost
      <4>1. lost' = lost
        BY <1>4, <3>1
      <4> QED
        BY <1>2, <4>1
    <3>2. CASE e \notin lost
      <4>1. IsFiniteSet(lost \union {e}) /\ Cardinality(lost \union {e}) = Cardinality(lost) + 1
        BY <1>2, <3>2, FS_AddElement
      <4> QED
        BY <1>2, <1>4, <4>1
    <3> QED
      BY <3>1, <3>2
  <2>2. /\ Cardinality(FoundOpen') = Cardinality(FoundOpen) - 1
        /\ Cardinality(FoundOpen) \in Nat
    <3>1. FoundOpen \subseteq Goroutines
      BY DEF FoundOpen
    <3> QED
      BY <1>2, <1>4, <3>1, FS_RemoveElement
  <2> QED
    BY <1>1, <1>2, <1>4, <2>1, <2>2 DEF LossInv
<1>5. ASSUME UNCHANGED <<closed, lost, pc, api>> PROVE LossInv'
  <2>1. FoundOpen' = FoundOpen
    BY <1>5 DEF FoundOpen
  <2> QED
    BY <1>3, <1>5, <2>1
<1>6. ASSUME NEW g \in Goroutines, LogStep(g) PROVE LossInv'
  <2>1. UNCHANGED <<closed, api>>
    BY <1>6, SyncPanics DEF LogStep, LogWrite, LogWriteReturn, LogHooks, LogFlushed, Lock, WriteOk,
                RunHooks, FlushReturn, rootVars, entryVars
  <2>2. CASE LogWrite(g)
    <3>1. pc[g] = "lock" /\ pc' = [pc EXCEPT ![g] = "write"] /\ UNCHANGED lost
      BY <2>2 DEF LogWrite, Lock, Goto, Writer!WriteCall, Writer!fateVars
    <3>2. g \in FoundOpen
      BY <3>1 DEF FoundOpen
    <3> QED
      BY <1>3, <2>1, <3>1, <3>2, FoundOpenMoves
  <2>3. CASE LogWriteReturn(g)
    <3>1. /\ pc[g] = "write" /\ pc' = [pc EXCEPT ![g] = "hooks"]
          /\ g \in FoundOpen /\ FoundOpen' = FoundOpen \ {g}
      <4>1. pc[g] = "write" /\ pc' = [pc EXCEPT ![g] = "hooks"]
        BY <2>3 DEF LogWriteReturn, WriteOk, Goto
      <4>2. g \in FoundOpen
        BY <4>1 DEF FoundOpen
      <4>3. FoundOpen' = FoundOpen \ {g}
        BY <1>0, <2>1, <4>1 DEF FoundOpen
      <4> QED
        BY <4>1, <4>2, <4>3
    <3>2. CASE Writer!WriteSend(g) \/ Writer!WriteDrop(g)
      <4>1. UNCHANGED lost
        BY <3>2 DEF Writer!WriteSend, Writer!WriteDrop, Writer!fateVars
      <4> QED
        BY <1>3, <2>1, <3>1, <4>1
    <3>3. CASE Writer!WriteClosed(g)
      <4>1. chClosed /\ lost' = lost \union {buf[g]}
        BY <3>3 DEF Writer!WriteClosed
      <4>2. \A f \in Goroutines : pc[f] \notin {"flush", "exit"}
        <5>1. mu = g
          BY <1>0, <3>1 DEF HoldersOnly, Locked, Writing
        <5> QED
          BY <1>0, <3>1, <5>1 DEF HoldersOnly, Locked, Writing
      <4>3. closed
        BY <1>1, <4>1, <4>2 DEF ShutInv
      <4> QED
        BY <1>4, <2>1, <3>1, <4>1, <4>3
    <3> QED
      BY <2>3, <3>2, <3>3 DEF LogWriteReturn
  <2>4. CASE LogHooks(g) \/ LogFlushed(g)
    <3>1. UNCHANGED lost
      BY <2>4 DEF LogHooks, LogFlushed, Writer!CloseCall, Writer!CloseFinish,
                  Writer!CloseLater, Writer!fateVars, writerVars
    <3>2. \E l \in {"flush", "exit", "idle"} : pc' = [pc EXCEPT ![g] = l]
      BY <2>4, AsyncIsSyncer, SyncPanics
      DEF LogHooks, RunHooks, HookOutcomes, AfterHooks, LogFlushed,
                                 FlushReturn, Done, Goto
    <3>3. FoundOpen' \subseteq FoundOpen
      BY <2>1, <3>2, FoundOpenMoves
    <3> QED
      BY <1>3, <2>1, <3>1, <3>3
  <2> QED
    BY <1>6, <2>2, <2>3, <2>4 DEF LogStep
<1>7. ASSUME NEW g \in Goroutines, Alone(g) PROVE LossInv'
  <2>1. UNCHANGED <<closed, lost>>
    BY <1>7, AloneMoves
  <2>2. ASSUME NEW e \in Entries, NEW l \in Levels, NEW a \in {"log", "slog"},
               LogCall(g, e, l, a)
        PROVE  FoundOpen' \subseteq FoundOpen
    BY <1>0, <2>2 DEF LogCall, Goto, FoundOpen
  <2>3. ASSUME SyncCall(g) \/ \E h \in Helpers : TimedCall(g, h)
        PROVE  FoundOpen' \subseteq FoundOpen
    BY <1>0, <2>3 DEF SyncCall, TimedCall, Goto, entryVars, FoundOpen
  <2>4. ASSUME Exit(g) \/ \E l \in MinLevels : SetLevel(g, l)
        PROVE  FoundOpen' \subseteq FoundOpen
    BY <2>4 DEF SetLevel, Exit, entryVars, FoundOpen
  <2>5. ASSUME CheckClosed(g) PROVE ~closed \/ FoundOpen' \subseteq FoundOpen
    BY <1>0, <2>5 DEF CheckClosed, filterUnchanged, Done, Goto, entryVars, FoundOpen
  <2>6. ASSUME CheckLevel(g) PROVE ~closed \/ FoundOpen' \subseteq FoundOpen
    BY <1>0, <2>6 DEF CheckLevel, AfterLevel, filterUnchanged, Done, Goto, entryVars, FoundOpen
  <2>7. ASSUME Sample(g) \/ MiddlewareCall(g) \/ MiddlewareReturn(g) PROVE ~closed \/ FoundOpen' \subseteq FoundOpen
    BY <1>0, <2>7 DEF Sample, MiddlewareCall, MiddlewareReturn, filterUnchanged, Done, Goto,
                      entryVars, FoundOpen
  <2>8. ASSUME TimedReturn(g) \/ TimedOut(g) PROVE ~closed \/ FoundOpen' \subseteq FoundOpen
    BY <1>0, <2>8 DEF TimedReturn, TimedOut, TimedEnd, Done, Goto, entryVars, FoundOpen
  <2>9. ~closed \/ FoundOpen' \subseteq FoundOpen
    BY <1>7, <2>2, <2>3, <2>4, <2>5, <2>6, <2>7, <2>8 DEF Alone, LoggerCall, LoggerAlone, Calls
  <2> QED
    BY <1>3, <2>1, <2>9
<1>8. ASSUME NEW p \in Procs, SyncStep(p) PROVE LossInv'
  <2>1. /\ closed => closed'
        /\ UNCHANGED <<lost, api>>
        /\ \E l \in {"lockSync", "sync", "send", "idle"} : pc' = [pc EXCEPT ![p] = l]
    BY <1>8, SyncPanics DEF SyncStep, LogSync, LockSync, LogSyncReturn, SyncReturn, SyncAlone,
                StoreClosed, HelperSend, Done, Goto, rootVars, entryVars, writerVars,
                Writer!CloseCall, Writer!CloseFinish, Writer!CloseLater, Writer!fateVars
  <2>2. FoundOpen' \subseteq FoundOpen
    BY <1>0, <2>1 DEF FoundOpen
  <2> QED
    BY <1>3, <2>1, <2>2
<1>9. ASSUME NEW c \in Procs \union Closers, WriterAlone(c) \/ DirectClose(c) PROVE LossInv'
  BY <1>5, <1>9 DEF WriterAlone, DirectClose, vars, rootVars, entryVars, Writer!WriteFull,
       Writer!CloseFirst, Writer!CloseCall, Writer!CloseFinish, Writer!CloseLater,
       Writer!fateVars
<1>10. CASE DrainAlone \/ DestHang
  BY <1>5, <1>10 DEF DrainAlone, DestHang, Writer!Drain, Writer!DrainRecv, Writer!DrainWrite,
       Writer!DrainExit, Writer!DestHang, Writer!fateVars, vars, rootVars, entryVars
<1>11. CASE UNCHANGED allVars
  BY <1>5, <1>11 DEF allVars, vars, rootVars, entryVars, writerVars
<1> QED
  BY <1>6, <1>7, <1>8, <1>9, <1>10, <1>11 DEF AllNext, Alone

(* As long as nobody closes the writer directly and no final sync of a     *)
(* FATAL entry panics, shutdown through the logger costs each goroutine    *)
(* one entry at most, the one it was logging, for any finite number of     *)
(* goroutines (Sync sets closed before it waits for the mutex;             *)
(* AsyncWriter.Write refuses silently once closed).                        *)
THEOREM ShutdownLoss ==
  ASSUME IsFiniteSet(Goroutines)
  PROVE  AllSpec => []LossBounded
<1>1. AllInit => ShutInv /\ LossInv
  <2> SUFFICES ASSUME AllInit PROVE ShutInv /\ LossInv
    OBVIOUS
  <2>1. ShutInv
    BY DEF AllInit, Init, Writer!Init, ShutInv, Procs
  <2>2. lost = {} /\ FoundOpen = {}
    BY DEF AllInit, Init, Writer!Init, FoundOpen, Procs
  <2>3. IsFiniteSet(lost) /\ Cardinality(lost) = 0 /\ Cardinality(FoundOpen) = 0
    BY <2>2, FS_EmptySet
  <2>4. Cardinality(Goroutines) \in Nat
    BY FS_CardinalityType
  <2> QED
    BY <2>1, <2>2, <2>3, <2>4 DEF LossInv
<1>2. LossInv => LossBounded
  <2> SUFFICES ASSUME LossInv, Clean PROVE Cardinality(lost) <= Cardinality(Goroutines)
    BY DEF LossBounded, Clean
  <2>1. FoundOpen \subseteq Goroutines
    BY DEF FoundOpen
  <2>2. Cardinality(FoundOpen) \in Nat /\ Cardinality(lost) \in Nat /\ Cardinality(Goroutines) \in Nat
    BY <2>1, FS_Subset, FS_CardinalityType DEF LossInv
  <2> QED
    BY <2>2 DEF LossInv
<1>3. Buffered!Spec => []Buffered!TypeOK
  BY Buffered!TypeCorrect, WriterAssumption, CloserAssumption
<1>4. Spec => []HoldersOnly
  BY LoggerTypes, HoldersInit, HoldersStep, PTL DEF Spec
<1> QED
  BY <1>1, <1>2, <1>3, <1>4, ShutStep, LossStep, IsLogger, IsWriter, LoggerTypes, PTL DEF AllSpec

----
(* What comes first of a sequence within another is within it too.         *)
LEMMA WithinShorter ==
  ASSUME NEW h \in Seq(Entries), NEW r \in Seq(Entries), NEW s \in Seq(Entries),
         Within(h \o r, s)
  PROVE  Within(h, s)
<1>1. PICK at \in [DOMAIN (h \o r) -> DOMAIN s] :
        \A i, j \in DOMAIN (h \o r) : (h \o r)[i] = s[at[i]] /\ (i < j => at[i] < at[j])
  BY DEF Within
<1>2. /\ \A i \in DOMAIN h : i \in DOMAIN (h \o r)
      /\ \A i \in DOMAIN h : (h \o r)[i] = h[i]
  BY ConcatProperties, LenProperties
<1> DEFINE to == [i \in DOMAIN h |-> at[i]]
<1>3. to \in [DOMAIN h -> DOMAIN s]
  BY <1>2
<1>4. \A i, j \in DOMAIN h : h[i] = s[to[i]] /\ (i < j => to[i] < to[j])
  BY <1>1, <1>2
<1> HIDE DEF to
<1> QED
  BY <1>3, <1>4 DEF Within

(* In a sequence without doubles each entry has one place, and so has it   *)
(* in what is within.                                                      *)
LEMMA WithinOnce ==
  ASSUME NEW a \in Seq(Entries), NEW s \in Seq(Entries), Within(a, s),
         \A i, j \in DOMAIN s : s[i] = s[j] => i = j
  PROVE  IsInjective(a)
<1>1. PICK at \in [DOMAIN a -> DOMAIN s] :
        \A i, j \in DOMAIN a : a[i] = s[at[i]] /\ (i < j => at[i] < at[j])
  BY DEF Within
<1>2. DOMAIN a \subseteq Nat /\ DOMAIN s \subseteq Nat
  BY LenProperties
<1>3. ASSUME NEW i \in DOMAIN a, NEW j \in DOMAIN a, i < j PROVE a[i] # a[j]
  BY <1>1, <1>2, <1>3
<1>4. \A i, j \in DOMAIN a : i = j \/ i < j \/ j < i
  BY <1>2
<1> QED
  BY <1>3, <1>4 DEF IsInjective

----
(* Each entry the channel accepts is the latest given, and the mutex lets  *)
(* nobody in between the two.                                              *)
LEMMA OrderKeptStep ==
  TypeOK /\ Buffered!TypeOK /\ PassInv /\ Within(accepted, given) /\ [AllNext]_allVars
    => Within(accepted, given)'
<1> SUFFICES ASSUME TypeOK, Buffered!TypeOK, PassInv, Within(accepted, given), [AllNext]_allVars
             PROVE  Within(accepted', given')
  BY DEF Within
<1>1. CASE UNCHANGED <<accepted, given>>
  BY <1>1
<1>2. ASSUME NEW g \in Goroutines, LogWriteReturn(g) PROVE Within(accepted', given')
  <2>1. /\ given' = Append(given, cur[g]) /\ cur[g] \in Entries /\ buf[g] = cur[g]
        /\ accepted \in Seq(Entries) /\ given \in Seq(Entries)
    BY <1>2 DEF LogWriteReturn, WriteOk, PassInv, TypeOK, EntryOK, OutOK, Writing,
                Buffered!TypeOK, Buffered!HistoryOK
  <2>2. accepted' = accepted \/ accepted' = Append(accepted, buf[g])
    BY <1>2 DEF LogWriteReturn, Writer!WriteSend, Writer!WriteDrop, Writer!WriteClosed,
                Writer!fateVars
  <2> QED
    BY <2>1, <2>2, WithinLonger, WithinBoth
<1>3. ASSUME NEW g \in Goroutines, LogStep(g), ~LogWriteReturn(g)
      PROVE  UNCHANGED <<accepted, given>>
  BY <1>3, SyncPanics
  DEF LogStep, LogWrite, Lock, LogHooks, RunHooks, LogFlushed, FlushReturn, outVars,
       writerVars, Writer!WriteCall, Writer!CloseCall, Writer!CloseFinish,
       Writer!CloseLater, Writer!fateVars
<1>4. ASSUME NEW g \in Goroutines, Alone(g) PROVE UNCHANGED <<accepted, given>>
  BY <1>4, AloneMoves
<1>5. ASSUME NEW p \in Procs, SyncStep(p) PROVE UNCHANGED <<accepted, given>>
  BY <1>5, SyncPanics DEF SyncStep, LogSync, LockSync, LogSyncReturn, SyncReturn, SyncAlone,
       StoreClosed, HelperSend, outVars, writerVars,
       Writer!CloseCall, Writer!CloseFinish, Writer!CloseLater, Writer!fateVars
<1>6. ASSUME NEW c \in Procs \union Closers, WriterAlone(c) \/ DirectClose(c)
      PROVE  UNCHANGED <<accepted, given>>
  BY <1>6 DEF WriterAlone, DirectClose, vars, outVars, Writer!WriteFull,
       Writer!CloseFirst, Writer!CloseCall, Writer!CloseFinish, Writer!CloseLater,
       Writer!fateVars
<1>7. ASSUME DrainAlone \/ DestHang PROVE UNCHANGED <<accepted, given>>
  BY <1>7 DEF DrainAlone, DestHang, Writer!Drain, Writer!DrainRecv, Writer!DrainWrite,
       Writer!DrainExit, Writer!DestHang, Writer!fateVars, vars, outVars
<1>8. ASSUME UNCHANGED allVars PROVE UNCHANGED <<accepted, given>>
  BY <1>8 DEF allVars, vars, outVars, writerVars
<1> QED
  BY <1>1, <1>2, <1>3, <1>4, <1>5, <1>6, <1>7, <1>8 DEF AllNext, Alone

(* The destination sees entries in the order the mutex admitted them, each *)
(* once at most, whatever the buffer drops in between.                     *)
THEOREM OrderSurvives == AllSpec => []OrderKept
<1>1. AllInit => PassInv /\ Within(accepted, given)
  <2> SUFFICES ASSUME AllInit PROVE PassInv /\ Within(accepted, given)
    OBVIOUS
  <2>1. PassInv
    BY DEF AllInit, Init, Writer!Init, PassInv, Range, Procs
  <2>2. accepted = <<>> /\ given = <<>>
    BY DEF AllInit, Init, Writer!Init
  <2>3. [i \in DOMAIN accepted |-> i] \in [DOMAIN accepted -> DOMAIN given]
    BY <2>2
  <2> QED
    BY <2>1, <2>2, <2>3 DEF Within
<1>2. Buffered!Spec => [](Buffered!TypeOK /\ Buffered!InOrder)
  <2>1. Buffered!Init => Buffered!TypeOK /\ Buffered!InOrder
    BY WriterAssumption, CloserAssumption, Buffered!TypeInit, Buffered!OrderInit
  <2>2. Buffered!TypeOK /\ Buffered!InOrder /\ [Buffered!Next]_(Buffered!vars)
          => (Buffered!TypeOK /\ Buffered!InOrder)'
    BY WriterAssumption, CloserAssumption, Buffered!TypeStep, Buffered!OrderStep
  <2> QED
    BY <2>1, <2>2, PTL DEF Buffered!Spec
<1>3. TypeOK /\ GivenInv /\ Buffered!TypeOK /\ Buffered!InOrder /\ Within(accepted, given)
        => OrderKept
  <2> SUFFICES ASSUME TypeOK, GivenInv, Buffered!TypeOK, Buffered!InOrder,
                      Within(accepted, given)
               PROVE  OrderKept
    OBVIOUS
  <2>1. /\ handed \in Seq(Entries) /\ given \in Seq(Entries)
        /\ inHand \o ch \in Seq(Entries)
        /\ accepted = handed \o (inHand \o ch)
    BY DEF TypeOK, OutOK, Buffered!TypeOK, Buffered!HistoryOK, Buffered!QueueOK,
           Buffered!InOrder
  <2>2. Within(handed, given)
    BY <2>1, WithinShorter
  <2> QED
    BY <2>1, <2>2, WithinOnce DEF OrderKept, GivenInv
<1> QED
  BY <1>1, <1>2, <1>3, OrderKeptStep, PassStep, EachGivenOnce, IsLogger, IsWriter,
     LoggerTypes, PTL DEF AllSpec
====
