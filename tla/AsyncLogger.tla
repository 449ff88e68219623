---- MODULE AsyncLogger ----
(***************************************************************************)
(* A Logger whose out is an AsyncWriter: logger.go and writer_async.go     *)
(* together, as in New(NewAsyncWriter(dest, n), level).  Where Logger lets *)
(* out.Write and out.Sync return whatever they like, here they are calls   *)
(* into the AsyncWriter, taken jointly with its steps; it is the writer's  *)
(* destination that may hang.                                              *)
(***************************************************************************)
EXTENDS Logger, FiniteSets, SequencesExt

CONSTANTS Closers,      \* goroutines that close the writer themselves
          Capacity,     \* its buffer size
          DestIsSyncer  \* whether its destination implements Syncer

ASSUME AsyncIsSyncer == OutIsSyncer
ASSUME CloserAssumption == Closers \intersect (Procs \union {NoProc}) = {}
ASSUME WriterAssumption == /\ Capacity \in Nat \ {0} /\ DestIsSyncer \in BOOLEAN
                           /\ (Procs \union Closers \union {NoEntry}) \intersect Entries = {}
                           /\ NoEntry \notin Procs \union Closers

VARIABLES ch, chClosed, done, once, dropCnt, inHand, buf, destFailed, destSyncs,
          hung, issued, handed, accepted, dropped, lost,
          wpc, wret  \* pc and ret of the AsyncWriter's callers

Writer == INSTANCE AsyncWriter
            WITH Callers <- Procs \union Closers, Messages <- Entries, NoMsg <- NoEntry,
                 pc <- wpc, ret <- wret

writerVars == <<ch, chClosed, done, once, dropCnt, inHand, buf, destFailed, destSyncs,
                hung, issued, handed, accepted, dropped, lost, wpc, wret>>
allVars == <<vars, writerVars>>

AllInit == Init /\ Writer!Init

----
(* writeEntry takes the mutex and calls Write, whose results reach it as    *)
(* success: a full buffer and a closed channel both answer with no error.  *)
LogWrite(g) == Lock(g) /\ Writer!WriteCall(g, cur[g])

LogWriteReturn(g) ==
  /\ Writer!WriteSend(g) \/ Writer!WriteDrop(g) \/ Writer!WriteClosed(g)
  /\ WriteOk(g)

(* After the hooks a FATAL entry calls Sync, and exits when that returns;  *)
(* a panic of the destination's Sync reaches it through Close.             *)
LogHooks(g) ==
  /\ RunHooks(g)
  /\ IF pc'[g] = "flush" THEN Writer!CloseCall(g) ELSE UNCHANGED writerVars

LogFlushed(g) ==
  /\ Writer!CloseFinish(g) \/ Writer!CloseLater(g)
  /\ IF wret'[g] = "panic" THEN FlushPanic(g) ELSE FlushReturn(g)

(* Sync takes the mutex and calls the writer's; an error is benign or not. *)
LogSync(p) == LockSync(p) /\ Writer!CloseCall(p)

LogSyncReturn(p) ==
  /\ Writer!CloseFinish(p) \/ Writer!CloseLater(p)
  /\ \/ wret'[p] = "nil" /\ SyncReturn(p, "nil")
     \/ wret'[p] = "err" /\ \E r \in {"benign", "err"} : SyncReturn(p, r)
     \/ wret'[p] = "panic" /\ SyncPanic(p)

(* Steps of one side alone. *)
LoggerCall(g) == Calls(g) /\ UNCHANGED writerVars
LoggerAlone(g) ==
  /\ \/ CheckClosed(g) \/ CheckLevel(g) \/ Sample(g)
     \/ MiddlewareCall(g) \/ MiddlewareReturn(g)
     \/ Exit(g) \/ TimedReturn(g) \/ TimedOut(g)
  /\ UNCHANGED writerVars
SyncAlone(p) == /\ StoreClosed(p) \/ (p \in Helpers /\ HelperSend(p))
                /\ UNCHANGED writerVars
WriterAlone(c) == /\ Writer!WriteFull(c) \/ Writer!CloseFirst(c)
                  /\ UNCHANGED vars
DrainAlone == Writer!Drain /\ UNCHANGED vars
DestHang == Writer!DestHang /\ UNCHANGED vars

(* The application may also close the writer behind the logger's back.     *)
DirectClose(c) == /\ Writer!CloseCall(c) \/ Writer!CloseFinish(c) \/ Writer!CloseLater(c)
                  /\ UNCHANGED vars

LogStep(g) == LogWrite(g) \/ LogWriteReturn(g) \/ LogHooks(g) \/ LogFlushed(g)
SyncStep(p) == LogSync(p) \/ LogSyncReturn(p) \/ SyncAlone(p)

AllNext ==
  \/ /\ Running
     /\ \/ \E g \in Goroutines : LogStep(g) \/ LoggerCall(g) \/ LoggerAlone(g)
        \/ \E p \in Procs : SyncStep(p)
        \/ \E c \in Procs \union Closers : WriterAlone(c)
        \/ \E c \in Closers : DirectClose(c)
        \/ DrainAlone \/ DestHang
  \/ ~Running /\ UNCHANGED allVars

AllSpec == AllInit /\ [][AllNext]_allVars

(* Goroutines run, the drain among them, and the mutex is fair.            *)
Runs(p) == \/ /\ p \in Goroutines
              /\ LogWriteReturn(p) \/ LogHooks(p) \/ LogFlushed(p) \/ LoggerAlone(p)
           \/ LogSyncReturn(p) \/ SyncAlone(p) \/ WriterAlone(p)
Locks(p) == (p \in Goroutines /\ LogWrite(p)) \/ LogSync(p)

AllFairness ==
  /\ WF_allVars(Running /\ DrainAlone)
  /\ \A p \in Procs : WF_allVars(Running /\ Runs(p)) /\ SF_allVars(Running /\ Locks(p))
  /\ \A c \in Closers :
       WF_allVars(Running /\ wpc[c] # "idle" /\ (DirectClose(c) \/ WriterAlone(c)))

AllFairSpec == AllSpec /\ AllFairness

----
(* The destination sees entries in the order the mutex admitted them, each *)
(* at most once and as it was formatted, although the buffer they were     *)
(* formatted in goes back to the pool as soon as Write returns.            *)
OrderKept == Within(handed, given) /\ IsInjective(handed)

(* When the logger's Sync, or SyncWithTimeout, has answered, or the        *)
(* process has exited on a FATAL entry, all that was buffered is delivered.*)
Synced == \E g \in Goroutines : ret[g] \in {"nil", "err"}
Flushed == Synced \/ exited => done /\ handed = accepted

(* No entry vanishes: each one given to the writer is delivered, waiting,  *)
(* counted as dropped or refused by the closed channel.                    *)
EntriesAccounted ==
  /\ Range(given) \subseteq Range(accepted) \union dropped \union lost
  /\ Cardinality(dropped) = dropCnt + Cardinality({p \in Procs : wpc[p] = "drop"})

(* Shutdown through the logger costs each goroutine at most the entry it   *)
(* was logging when closed was set, as long as nobody closes the writer    *)
(* directly, and no final sync of a FATAL entry panics: that leaves the    *)
(* writer closed and the logger open.                                      *)
Untouched == \A c \in Closers : wpc[c] = "idle" /\ wret[c] = "none"
FlushPanicked == {e \in Entries : <<"flush", e>> \in panicked}
LossBounded == Untouched /\ FlushPanicked = {} => Cardinality(lost) <= Cardinality(Goroutines)

(* A destination that hangs does not stop log calls as long as nobody has  *)
(* asked for a flush ("the application is never stalled by log I/O"): they *)
(* return with the drain stuck and the buffer full.                        *)
Flushing == chClosed \/ \E p \in Procs \union Closers : wpc[p] = "once"
NeverStalled == \A g \in Goroutines :
                  pc[g] = "lock" ~> (pc[g] = "idle" \/ ~Running \/ Flushing)

(* A Fatal call whose entry reached the writer ends the process, whoever   *)
(* else is shutting down, the logger or the writer directly, unless the    *)
(* destination hangs or its Sync panics on this very entry.                *)
FatalEndsProcess ==
  \A e \in Entries :
    (\E g \in Goroutines : pc[g] = "hooks" /\ lvl[g] = FATAL /\ cur[g] = e)
      ~> (~Running \/ hung \/ e \in FlushPanicked)
====
