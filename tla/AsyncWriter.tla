---- MODULE AsyncWriter ----
(***************************************************************************)
(* The asynchronous writer of writer_async.go: goroutines call Write and   *)
(* Close (Sync is the same function) while the drain goroutine empties the *)
(* channel into the destination.                                           *)
(*                                                                         *)
(* A call is a call step, its atomic steps and a return to "idle".  Each   *)
(* channel operation, atomic addition and sync.Once transition of the code *)
(* is one step, so every interleaving the Go memory model allows is here.  *)
(*                                                                         *)
(* X_Fault, just before X, is X with a plausible bug in it: each property  *)
(* is shown to reject one.                                                 *)
(***************************************************************************)
EXTENDS Naturals, Sequences, FiniteSets, Functions

CONSTANTS Callers,       \* goroutines that use the writer
          Messages,      \* the byte strings written; each is written once
          Capacity,      \* bufferSize, after the <= 0 default
          DestIsSyncer,  \* whether dest implements Syncer
          NoMsg          \* content of a caller's buffer before its first call

ASSUME CapacityAssumption == Capacity \in Nat \ {0}
ASSUME SyncerAssumption == DestIsSyncer \in BOOLEAN
ASSUME DisjointAssumption == /\ Callers \intersect Messages = {}
                             /\ NoMsg \notin Callers \union Messages

VARIABLES
  ch,         \* aw.ch: the queued slices, oldest first
  chClosed,   \* close(aw.ch) has happened
  done,       \* close(aw.done) has happened: drain has returned
  once,       \* aw.once: "idle", "running" or "done"
  dropCnt,    \* aw.dropCnt
  inHand,     \* the slice drain has received and not yet written: <<>> or <<s>>
  pc,         \* where each caller is
  buf,        \* the buffer p each caller passes to Write; the caller reuses it
  ret,        \* what each caller's last call returned
  destFailed, \* what dest.Write answered with an error
  destSyncs,  \* calls of dest.Sync
  hung,       \* a call of dest never returns
  (* history *)
  issued,     \* the messages that Write was called with
  handed,     \* what dest.Write was given, in order
  accepted,   \* what was sent on the channel, in order
  dropped,    \* what Write refused because the channel was full
  lost        \* what Write refused because the channel was closed

chanVars == <<ch, chClosed, done, inHand>>
destVars == <<handed, destFailed, destSyncs, hung>>
fateVars == <<accepted, dropped, lost>>
callVars == <<pc, buf, ret, issued>>
vars == <<chanVars, destVars, fateVars, callVars, once, dropCnt>>

(* A message is in some caller's Write, past the copy and not yet settled. *)
InFlight == {buf[c] : c \in {d \in Callers : pc[d] = "select"}}
Settled == Range(accepted) \union dropped \union lost

Init == /\ ch = <<>> /\ chClosed = FALSE /\ done = FALSE /\ inHand = <<>>
        /\ once = "idle" /\ dropCnt = 0
        /\ pc = [c \in Callers |-> "idle"]
        /\ buf = [c \in Callers |-> NoMsg]
        /\ ret = [c \in Callers |-> "none"]
        /\ issued = {}
        /\ handed = <<>> /\ destFailed = {} /\ destSyncs = 0 /\ hung = FALSE
        /\ accepted = <<>> /\ dropped = {} /\ lost = {}

Goto(c, l) == pc' = [pc EXCEPT ![c] = l]

Return(c, r) == /\ pc' = [pc EXCEPT ![c] = "idle"]
                /\ ret' = [ret EXCEPT ![c] = r]

----
(* Write: the caller fills its own buffer and passes it in. *)
WriteCall(c, m) ==
  /\ pc[c] = "idle"
  /\ m \notin issued
  /\ issued' = issued \union {m}
  /\ Goto(c, "select")
  /\ buf' = [buf EXCEPT ![c] = m]
  /\ ret' = [ret EXCEPT ![c] = "none"]
  /\ UNCHANGED <<chanVars, destVars, fateVars, once, dropCnt>>

(* A slice is a private copy, which is its content for good, or the name   *)
(* of the caller whose buffer it shares, to be read when it is used.       *)
Slice_Alias(c) == c
Slice(c) == buf[c]
Bytes(s) == IF s \in Callers THEN buf[s] ELSE s

(* select: the send goes ahead when there is room... *)
WriteSend(c) ==
  /\ pc[c] = "select" /\ ~chClosed
  /\ Len(ch) < Capacity
  /\ ch' = Append(ch, Slice(c))
  /\ accepted' = Append(accepted, buf[c])
  /\ Return(c, "len(p), nil")
  /\ UNCHANGED <<chClosed, done, inHand, destVars, dropped, lost, buf, issued, once, dropCnt>>

(* ... and the default branch is taken when there is none. *)
Full_Early == Len(ch) + 1 >= Capacity
Full_Never == FALSE
Full == Len(ch) = Capacity

WriteFull(c) ==
  /\ pc[c] = "select" /\ ~chClosed
  /\ Full
  /\ dropped' = dropped \union {buf[c]}
  /\ Goto(c, "drop")
  /\ UNCHANGED <<chanVars, destVars, accepted, lost, buf, ret, issued, once, dropCnt>>

CountDrop_Missing == dropCnt' = dropCnt
CountDrop == dropCnt' = dropCnt + 1

WriteDrop(c) ==
  /\ pc[c] = "drop"
  /\ CountDrop
  /\ Return(c, "0, nil")
  /\ UNCHANGED <<chanVars, destVars, fateVars, buf, issued, once>>

(* A send on a closed channel panics, full or not; the deferred recover    *)
(* ends the call with zero results.                                        *)
WriteClosed(c) ==
  /\ pc[c] = "select" /\ chClosed
  /\ lost' = lost \union {buf[c]}
  /\ Return(c, "0, nil")
  /\ UNCHANGED <<chanVars, destVars, accepted, dropped, buf, issued, once, dropCnt>>

----
(* drain: receive, write, and exit once the channel is closed and empty. *)
Receivable_Open == ch # <<>> /\ ~chClosed
Receivable == ch # <<>>

DrainRecv ==
  /\ ~done /\ inHand = <<>> /\ Receivable
  /\ inHand' = <<Head(ch)>>
  /\ ch' = Tail(ch)
  /\ UNCHANGED <<chClosed, done, destVars, fateVars, callVars, once, dropCnt>>

(* The results of dest.Write are discarded. *)
DrainWrite ==
  /\ inHand # <<>> /\ ~hung
  /\ LET m == Bytes(Head(inHand)) IN
       /\ handed' = Append(handed, m)
       /\ destFailed' \in {destFailed, destFailed \union {m}}
  /\ inHand' = <<>>
  /\ UNCHANGED <<ch, chClosed, done, destSyncs, hung, fateVars, callVars, once, dropCnt>>

DrainExit ==
  /\ ~done /\ chClosed /\ inHand = <<>> /\ ch = <<>>
  /\ done' = TRUE
  /\ UNCHANGED <<ch, chClosed, inHand, destVars, fateVars, callVars, once, dropCnt>>

----
(* Close and Sync: the first caller through aw.once shuts the writer down, *)
(* every other caller waits in once.Do until that has finished.            *)
CloseCall(c) ==
  /\ pc[c] = "idle"
  /\ Goto(c, "once")
  /\ ret' = [ret EXCEPT ![c] = "none"]
  /\ UNCHANGED <<chanVars, destVars, fateVars, buf, issued, once, dropCnt>>

CloseChannel_Missing == chClosed' = chClosed
CloseChannel == chClosed' = TRUE

CloseFirst(c) ==
  /\ pc[c] = "once" /\ once = "idle"
  /\ once' = "running"
  /\ CloseChannel
  /\ Goto(c, "await")
  /\ UNCHANGED <<ch, done, inHand, destVars, fateVars, buf, ret, issued, dropCnt>>

(* dest.Sync may panic.  The panic leaves Close, but once is done all the  *)
(* same: sync.Once marks it in a deferred call.                            *)
SyncDest(c) ==
  IF DestIsSyncer
  THEN ~hung /\ destSyncs' = destSyncs + 1 /\ \E r \in {"nil", "err", "panic"} : Return(c, r)
  ELSE destSyncs' = destSyncs /\ Return(c, "nil")

Drained_NoWait == TRUE
Drained == done

CloseFinish(c) ==
  /\ pc[c] = "await" /\ Drained
  /\ SyncDest(c)
  /\ once' = "done"
  /\ UNCHANGED <<chanVars, handed, destFailed, hung, fateVars, buf, issued, dropCnt>>

OnceDone_Flag == once # "idle"
OnceDone == once = "done"

CloseLater(c) ==
  /\ pc[c] = "once" /\ OnceDone
  /\ Return(c, "nil")
  /\ UNCHANGED <<chanVars, destVars, fateVars, buf, issued, once, dropCnt>>

(* The call of dest under way, a Write of drain or the final Sync, blocks  *)
(* for ever.                                                               *)
InSync(c) == DestIsSyncer /\ pc[c] = "await" /\ done

DestHang ==
  /\ ~hung
  /\ inHand # <<>> \/ \E c \in Callers : InSync(c)
  /\ hung' = TRUE
  /\ UNCHANGED <<chanVars, handed, destFailed, destSyncs, fateVars, callVars, once, dropCnt>>

----
WriteStep(c) == WriteSend(c) \/ WriteFull(c) \/ WriteDrop(c) \/ WriteClosed(c)
CloseStep(c) == CloseFirst(c) \/ CloseFinish(c) \/ CloseLater(c)
Drain == DrainRecv \/ DrainWrite \/ DrainExit

Next == \/ \E c \in Callers : \/ \E m \in Messages : WriteCall(c, m)
                              \/ CloseCall(c)
                              \/ WriteStep(c)
                              \/ CloseStep(c)
        \/ Drain
        \/ DestHang

Spec == Init /\ [][Next]_vars

(* The Go scheduler runs every runnable goroutine: the drain and every     *)
(* call under way keep moving, except where dest hangs.                    *)
FairSpec == /\ Spec
            /\ WF_vars(Drain)
            /\ \A c \in Callers : WF_vars(WriteStep(c)) /\ WF_vars(CloseStep(c))

----
QueueOK == /\ ch \in Seq(Messages) /\ Len(ch) <= Capacity
           /\ inHand \in Seq(Messages) /\ Len(inHand) <= 1
FlagOK == chClosed \in BOOLEAN /\ done \in BOOLEAN /\ hung \in BOOLEAN
CountOK == /\ once \in {"idle", "running", "done"}
           /\ dropCnt \in Nat /\ destSyncs \in Nat
CallOK == /\ pc \in [Callers -> {"idle", "select", "drop", "once", "await"}]
          /\ buf \in [Callers -> Messages \union {NoMsg}]
          /\ ret \in [Callers -> {"none", "len(p), nil", "0, nil", "nil", "err", "panic"}]
          /\ \A c \in Callers : pc[c] = "select" => buf[c] \in Messages
HistoryOK == /\ issued \subseteq Messages
             /\ handed \in Seq(Messages) /\ accepted \in Seq(Messages)
             /\ destFailed \subseteq Messages
             /\ dropped \subseteq Messages /\ lost \subseteq Messages

(* What each variable may hold; the channel never exceeds its capacity and *)
(* a caller at the select has filled its buffer.                           *)
TypeOK == QueueOK /\ FlagOK /\ CountOK /\ CallOK /\ HistoryOK

(* What has been accepted and not handed to dest yet, as dest would now    *)
(* read it: a shared buffer shows what its owner last put there.           *)
Pending == [i \in 1 .. Len(inHand \o ch) |-> Bytes((inHand \o ch)[i])]

(* The destination gets the accepted messages whole and in order: none is  *)
(* skipped, doubled, reordered, or overwritten by the caller's next one    *)
(* while it waits ("Preserves log ordering", and the copy in Write).       *)
Intact == accepted = handed \o Pending

(* When any call of Close or Sync is over, the first or a later one, even  *)
(* by a panic, everything ever accepted has been handed to dest and drain  *)
(* is gone ("stops the background goroutine after draining all queued      *)
(* messages").                                                             *)
Returned == {c \in Callers : ret[c] \in {"nil", "err", "panic"}}
CloseFlushes == Returned # {} => done /\ handed = accepted

(* Nothing reaches the destination after its Sync, and it is synced once:  *)
(* a final fsync really is final.                                          *)
QuietAfterSync == [][destSyncs > 0 => UNCHANGED <<handed, destSyncs>>]_vars

(* Every Write ever issued is accepted, counted by DroppedCount, refused   *)
(* by a closed channel or still at its select, none has two fates, and no  *)
(* message has a fate that was not written.                                *)
Accounted ==
  LET inSelect == {c \in Callers : pc[c] = "select"}
      inDrop   == {c \in Callers : pc[c] = "drop"}
  IN /\ Cardinality(issued) = Len(accepted) + Cardinality(dropped) + Cardinality(lost)
                                 + Cardinality(inSelect)
     /\ issued = Settled \union InFlight
     /\ Cardinality(dropped) = dropCnt + Cardinality(inDrop)

(* The writer is a lossy buffer: it refuses a message only when Capacity   *)
(* of them wait or shutdown has begun, and reports shutdown complete only  *)
(* when nothing waits.                                                     *)
Buffer == INSTANCE LossyBuffer
            WITH pending <- Pending, delivered <- handed,
                 phase <- IF ~chClosed THEN "open"
                          ELSE IF once = "done" THEN "flushed" ELSE "closing"
ImplementsBuffer == Buffer!Spec

(* Unless the destination hangs, every Close and Sync returns, whoever is  *)
(* first, and what was accepted reaches it whether or not anyone closes.   *)
CloseReturns == \A c \in Callers : pc[c] \in {"once", "await"} ~> (pc[c] = "idle" \/ hung)
AcceptedHanded == \A m \in Messages : m \in Range(accepted) ~> (m \in Range(handed) \/ hung)

(* Write returns even when the destination hangs for ever: "the            *)
(* application is never stalled by log I/O".                               *)
WriteNeverStalls == \A c \in Callers : pc[c] = "select" ~> pc[c] = "idle"

(* "If the writer is already closed, ErrWriterClosed is returned."         *)
ClosedWriteReported ==
  [][\A c \in Callers : pc[c] = "select" /\ chClosed /\ pc'[c] = "idle"
                          => ret'[c] = "0, ErrWriterClosed"]_vars
====
