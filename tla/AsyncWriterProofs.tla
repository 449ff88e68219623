---- MODULE AsyncWriterProofs ----
(***************************************************************************)
(* Theorems about AsyncWriter, for any number of callers, any messages and *)
(* any capacity: its invariants, that it implements LossyBuffer, and that  *)
(* it loses nothing uncounted.                                             *)
(***************************************************************************)
EXTENDS AsyncWriter, SequenceTheorems, FiniteSetTheorems, TLAPS

----
(* The sequence facts the steps need, at the one element type they need.   *)
LEMMA AppendMessage ==
  \A s \in Seq(Messages), m \in Messages :
    Append(s, m) \in Seq(Messages) /\ Len(Append(s, m)) = Len(s) + 1
  OBVIOUS

LEMMA HeadTailMessage ==
  \A s \in Seq(Messages) : s # <<>> =>
    /\ Head(s) \in Messages /\ <<Head(s)>> \in Seq(Messages)
    /\ Tail(s) \in Seq(Messages) /\ Len(Tail(s)) = Len(s) - 1
  OBVIOUS

LEMMA EmptyMessages == <<>> \in Seq(Messages) /\ Len(<<>>) = 0
  OBVIOUS

----
(* Every variable keeps its type: the base case. *)
LEMMA TypeInit == Init => TypeOK
<1> SUFFICES ASSUME Init PROVE TypeOK
  OBVIOUS
<1>1. QueueOK
  BY EmptyMessages, CapacityAssumption DEF Init, QueueOK
<1>2. FlagOK
  BY Zenon DEF Init, FlagOK
<1>3. CountOK
  BY DEF Init, CountOK
<1>4. CallOK
  BY DEF Init, CallOK
<1>5. HistoryOK
  BY EmptyMessages DEF Init, HistoryOK
<1> QED
  BY <1>1, <1>2, <1>3, <1>4, <1>5 DEF TypeOK

(* Every variable keeps its type: the step. *)
LEMMA TypeStep == TypeOK /\ [Next]_vars => TypeOK'
<1> SUFFICES ASSUME TypeOK, [Next]_vars
             PROVE  TypeOK'
  OBVIOUS
<1> USE DEF TypeOK
<1>1. ASSUME NEW c \in Callers, NEW m \in Messages, WriteCall(c, m)
      PROVE  TypeOK'
  BY <1>1 DEF WriteCall, Goto, chanVars, destVars, fateVars,
              QueueOK, FlagOK, CountOK, CallOK, HistoryOK
<1>2. ASSUME NEW c \in Callers, WriteSend(c)
      PROVE  TypeOK'
  <2>1. /\ buf[c] \in Messages /\ Len(ch) < Capacity
        /\ ch' = Append(ch, buf[c]) /\ accepted' = Append(accepted, buf[c])
    BY <1>2 DEF WriteSend, Slice, CallOK
  <2>2. QueueOK' /\ HistoryOK'
    <3>1. /\ ch \in Seq(Messages) /\ accepted \in Seq(Messages)
          /\ UNCHANGED <<inHand, handed, destFailed, dropped, lost>>
      BY <1>2 DEF WriteSend, destVars, QueueOK, HistoryOK
    <3>2. issued' = issued /\ issued \subseteq Messages
      BY <1>2 DEF WriteSend, HistoryOK
    <3> QED
      BY <2>1, <3>1, <3>2, AppendMessage, CapacityAssumption DEF QueueOK, HistoryOK
  <2>3. FlagOK' /\ CountOK' /\ CallOK'
    BY <1>2 DEF WriteSend, Return, destVars, FlagOK, CountOK, CallOK
  <2> QED
    BY <2>2, <2>3
<1>3. ASSUME NEW c \in Callers, WriteFull(c)
      PROVE  TypeOK'
  BY <1>3 DEF WriteFull, Goto, chanVars, destVars,
              QueueOK, FlagOK, CountOK, CallOK, HistoryOK
<1>4. ASSUME NEW c \in Callers, WriteDrop(c)
      PROVE  TypeOK'
  <2>1. QueueOK' /\ FlagOK' /\ HistoryOK'
    BY <1>4 DEF WriteDrop, chanVars, destVars, fateVars, QueueOK, FlagOK, HistoryOK
  <2>2. CountOK'
    <3>1. dropCnt' = dropCnt + 1 /\ UNCHANGED <<once, destSyncs>>
      BY <1>4 DEF WriteDrop, CountDrop, destVars
    <3> QED
      BY <3>1 DEF CountOK
  <2>3. CallOK'
    BY <1>4 DEF WriteDrop, Return, CallOK
  <2> QED
    BY <2>1, <2>2, <2>3
<1>5. ASSUME NEW c \in Callers, WriteClosed(c)
      PROVE  TypeOK'
  BY <1>5 DEF WriteClosed, Return, chanVars, destVars,
              QueueOK, FlagOK, CountOK, CallOK, HistoryOK
<1>6. CASE DrainRecv
  <2>1. /\ ch \in Seq(Messages) /\ ch # <<>> /\ Len(ch) <= Capacity
        /\ inHand' = <<Head(ch)>> /\ ch' = Tail(ch)
    BY <1>6 DEF DrainRecv, Receivable, QueueOK
  <2>2. QueueOK'
    BY <2>1, HeadTailMessage, LenProperties, CapacityAssumption DEF QueueOK
  <2>3. FlagOK' /\ CountOK' /\ CallOK' /\ HistoryOK'
    BY <1>6 DEF DrainRecv, destVars, fateVars, callVars,
                FlagOK, CountOK, CallOK, HistoryOK
  <2> QED
    BY <2>2, <2>3
<1>7. CASE DrainWrite
  <2>1. Head(inHand) \in Messages /\ Bytes(Head(inHand)) = Head(inHand)
    BY <1>7, HeadTailMessage, DisjointAssumption DEF DrainWrite, QueueOK, Bytes
  <2>2. /\ handed' = Append(handed, Head(inHand)) /\ inHand' = <<>>
        /\ destFailed' \in {destFailed, destFailed \union {Head(inHand)}}
        /\ UNCHANGED <<ch, accepted, dropped, lost, issued>>
    BY <1>7, <2>1 DEF DrainWrite, fateVars, callVars
  <2>3. QueueOK'
    BY <2>2, EmptyMessages DEF QueueOK
  <2>4. HistoryOK'
    BY <2>1, <2>2, AppendMessage DEF HistoryOK
  <2>5. FlagOK' /\ CountOK' /\ CallOK'
    BY <1>7 DEF DrainWrite, callVars, FlagOK, CountOK, CallOK
  <2> QED
    BY <2>3, <2>4, <2>5
<1>8. CASE DrainExit
  BY <1>8 DEF DrainExit, destVars, fateVars, callVars,
              QueueOK, FlagOK, CountOK, CallOK, HistoryOK
<1>9. ASSUME NEW c \in Callers, CloseCall(c)
      PROVE  TypeOK'
  BY <1>9 DEF CloseCall, Goto, chanVars, destVars, fateVars,
              QueueOK, FlagOK, CountOK, CallOK, HistoryOK
<1>10. ASSUME NEW c \in Callers, CloseFirst(c)
       PROVE  TypeOK'
  BY <1>10 DEF CloseFirst, CloseChannel, Goto, destVars, fateVars,
               QueueOK, FlagOK, CountOK, CallOK, HistoryOK
<1>11. ASSUME NEW c \in Callers, CloseFinish(c)
       PROVE  TypeOK'
  <2>1. QueueOK' /\ FlagOK' /\ HistoryOK'
    BY <1>11 DEF CloseFinish, chanVars, fateVars, QueueOK, FlagOK, HistoryOK
  <2>2. PICK r \in {"nil", "err", "panic"} : Return(c, r)
    BY <1>11 DEF CloseFinish, SyncDest
  <2>3. destSyncs' \in {destSyncs, destSyncs + 1}
    BY <1>11 DEF CloseFinish, SyncDest
  <2>4. CountOK'
    BY <1>11, <2>3 DEF CloseFinish, CountOK
  <2>5. CallOK'
    BY <1>11, <2>2 DEF CloseFinish, Return, CallOK
  <2> QED
    BY <2>1, <2>4, <2>5
<1>12. ASSUME NEW c \in Callers, CloseLater(c)
       PROVE  TypeOK'
  BY <1>12 DEF CloseLater, Return, chanVars, destVars, fateVars,
               QueueOK, FlagOK, CountOK, CallOK, HistoryOK
<1>13. CASE DestHang
  BY <1>13 DEF DestHang, chanVars, fateVars, callVars,
               QueueOK, FlagOK, CountOK, CallOK, HistoryOK
<1>14. CASE UNCHANGED vars
  BY <1>14 DEF vars, chanVars, destVars, fateVars, callVars,
               QueueOK, FlagOK, CountOK, CallOK, HistoryOK
<1> QED
  BY <1>1, <1>2, <1>3, <1>4, <1>5, <1>6, <1>7, <1>8, <1>9, <1>10, <1>11, <1>12, <1>13,
     <1>14
  DEF Next, Drain, WriteStep, CloseStep

(* AsyncWriter is type-correct: in particular the channel never holds more *)
(* than its capacity.                                                      *)
THEOREM TypeCorrect == Spec => []TypeOK
  BY TypeInit, TypeStep, PTL DEF Spec

----
(* What waits is what inHand and the channel hold: slices are private      *)
(* copies, so they are read as they were written.                          *)
LEMMA PendingContent == TypeOK => Pending = inHand \o ch
<1> SUFFICES ASSUME TypeOK PROVE Pending = inHand \o ch
  OBVIOUS
<1> DEFINE q == inHand \o ch
<1>1. q \in Seq(Messages)
  BY ConcatProperties DEF TypeOK, QueueOK
<1> HIDE DEF q
<1>2. \A i \in 1 .. Len(q) : Bytes(q[i]) = q[i]
  BY <1>1, ElementOfSeq, DisjointAssumption DEF Bytes
<1>3. [i \in 1 .. Len(q) |-> Bytes(q[i])] = [i \in 1 .. Len(q) |-> q[i]]
  BY <1>2
<1>4. q = [i \in 1 .. Len(q) |-> q[i]]
  BY <1>1, LenProperties
<1> QED
  BY <1>3, <1>4 DEF q, Pending

LEMMA Associates ==
  ASSUME NEW s \in Seq(Messages), NEW t \in Seq(Messages), NEW u \in Seq(Messages)
  PROVE  (s \o t) \o u = s \o (t \o u)
BY ConcatAssociative

(* A send appends to the whole of what was accepted... *)
LEMMA SendAppends ==
  \A h, i, q \in Seq(Messages), m \in Messages :
    Append(h \o (i \o q), m) = h \o (i \o Append(q, m))
<1> SUFFICES ASSUME NEW h \in Seq(Messages), NEW i \in Seq(Messages),
                    NEW q \in Seq(Messages), NEW m \in Messages
             PROVE  Append(h \o (i \o q), m) = h \o (i \o Append(q, m))
  OBVIOUS
<1>1. /\ <<m>> \in Seq(Messages) /\ q \o <<m>> \in Seq(Messages)
      /\ i \o q \in Seq(Messages) /\ h \o (i \o q) \in Seq(Messages)
  BY ConcatProperties
<1>2. Append(h \o (i \o q), m) = (h \o (i \o q)) \o <<m>>
  BY <1>1, AppendIsConcat
<1>3. (h \o (i \o q)) \o <<m>> = h \o ((i \o q) \o <<m>>)
  BY <1>1, Associates
<1>4. (i \o q) \o <<m>> = i \o (q \o <<m>>)
  BY <1>1, Associates
<1>5. q \o <<m>> = Append(q, m)
  BY AppendIsConcat
<1> QED
  BY <1>2, <1>3, <1>4, <1>5

(* ... a receive moves the head of the channel in front of it, where     *)
LEMMA ReceiveMoves ==
  \A q \in Seq(Messages) :
    q # <<>> => <<>> \o q = <<Head(q)>> \o Tail(q)
  OBVIOUS

(* drain holds one slice at most, ...                                     *)
LEMMA HandIsOne ==
  \A i \in Seq(Messages) :
    i # <<>> /\ Len(i) <= 1 => Head(i) \in Messages /\ i = <<Head(i)>>
<1> SUFFICES ASSUME NEW i \in Seq(Messages), i # <<>>, Len(i) <= 1
             PROVE  Head(i) \in Messages /\ i = <<Head(i)>>
  OBVIOUS
<1>1. Len(i) \in Nat /\ Len(i) # 0
  BY EmptySeq, LenProperties
<1>2. \A n \in Nat : n # 0 /\ n <= 1 => n = 1
  OBVIOUS
<1>3. Len(i) = 1
  BY <1>1, <1>2, Zenon
<1>4. Head(i) = i[1] /\ i[1] \in Messages
  BY <1>3, ElementOfSeq
<1>5. /\ <<i[1]>> \in Seq(Messages) /\ Len(<<i[1]>>) = 1
      /\ \A k \in 1 .. 1 : i[k] = <<i[1]>>[k]
  BY <1>4
<1>6. i = <<i[1]>>
  BY <1>3, <1>5, SeqEqual
<1> QED
  BY <1>4, <1>6

(* ... and a write moves it to the end of what was handed over. *)
LEMMA WriteMoves ==
  \A h, i, q \in Seq(Messages) :
    i # <<>> /\ Len(i) <= 1 =>
      h \o (i \o q) = Append(h, Head(i)) \o (<<>> \o q)
<1> SUFFICES ASSUME NEW h \in Seq(Messages), NEW i \in Seq(Messages),
                    NEW q \in Seq(Messages), i # <<>>, Len(i) <= 1
             PROVE  h \o (i \o q) = Append(h, Head(i)) \o (<<>> \o q)
  OBVIOUS
<1>1. Head(i) \in Messages /\ i = <<Head(i)>>
  BY HandIsOne
<1>2. h \o (i \o q) = (h \o i) \o q
  BY ConcatAssociative
<1>3. h \o i = Append(h, Head(i))
  BY <1>1, AppendIsConcat
<1>4. <<>> \o q = q
  BY ConcatEmptySeq
<1> QED
  BY <1>2, <1>3, <1>4

(* The order of the accepted messages across handed, inHand and ch. *)
InOrder == accepted = handed \o (inHand \o ch)

LEMMA OrderInit == Init => InOrder
  BY ConcatEmptySeq, EmptyMessages DEF Init, InOrder

LEMMA OrderStep == TypeOK /\ InOrder /\ [Next]_vars => InOrder'
<1> SUFFICES ASSUME TypeOK, InOrder, [Next]_vars
             PROVE  InOrder'
  OBVIOUS
<1>0. /\ ch \in Seq(Messages) /\ inHand \in Seq(Messages) /\ Len(inHand) <= 1
      /\ handed \in Seq(Messages)
  BY DEF TypeOK, QueueOK, HistoryOK
<1>1. ASSUME NEW c \in Callers, WriteSend(c)
      PROVE  InOrder'
  <2>1. /\ buf[c] \in Messages
        /\ ch' = Append(ch, buf[c]) /\ accepted' = Append(accepted, buf[c])
        /\ UNCHANGED <<inHand, handed>>
    BY <1>1 DEF WriteSend, Slice, destVars, TypeOK, CallOK
  <2> QED
    BY <1>0, <2>1, SendAppends DEF InOrder
<1>2. CASE DrainRecv
  <2>1. /\ ch # <<>> /\ inHand = <<>> /\ inHand' = <<Head(ch)>> /\ ch' = Tail(ch)
        /\ UNCHANGED <<accepted, handed>>
    BY <1>2 DEF DrainRecv, Receivable, destVars, fateVars
  <2> QED
    BY <1>0, <2>1, ReceiveMoves DEF InOrder
<1>3. CASE DrainWrite
  <2>1. Bytes(Head(inHand)) = Head(inHand)
    BY <1>0, <1>3, HeadTailMessage, DisjointAssumption DEF DrainWrite, Bytes
  <2>2. /\ inHand # <<>> /\ inHand' = <<>> /\ handed' = Append(handed, Head(inHand))
        /\ UNCHANGED <<ch, accepted>>
    BY <1>3, <2>1 DEF DrainWrite, fateVars
  <2> QED
    BY <1>0, <2>2, WriteMoves DEF InOrder
<1>4. ASSUME UNCHANGED <<ch, inHand, handed, accepted>>
      PROVE  InOrder'
  BY <1>4 DEF InOrder
<1>5. ASSUME NEW c \in Callers, \/ \E m \in Messages : WriteCall(c, m)
                                \/ WriteFull(c) \/ WriteDrop(c) \/ WriteClosed(c)
      PROVE  UNCHANGED <<ch, inHand, handed, accepted>>
  BY <1>5 DEF WriteCall, WriteFull, WriteDrop, WriteClosed,
              chanVars, destVars, fateVars
<1>6. ASSUME NEW c \in Callers, CloseCall(c) \/ CloseStep(c)
      PROVE  UNCHANGED <<ch, inHand, handed, accepted>>
  BY <1>6 DEF CloseCall, CloseStep, CloseFirst, CloseFinish, CloseLater,
              chanVars, destVars, fateVars
<1>7. CASE DrainExit \/ DestHang \/ UNCHANGED vars
  BY <1>4, <1>7 DEF DrainExit, DestHang, destVars, fateVars, vars, chanVars
<1> QED
  BY <1>1, <1>2, <1>3, <1>4, <1>5, <1>6, <1>7 DEF Next, Drain, WriteStep

(* The destination receives the accepted messages whole and in order, and  *)
(* what it has not received yet is waiting: none is skipped, doubled or    *)
(* overwritten (the copy and the channel of Write, the loop of drain).     *)
THEOREM Integrity == Spec => []Intact
<1>1. TypeOK /\ InOrder => Intact
  BY PendingContent DEF InOrder, Intact
<1> QED
  BY <1>1, TypeInit, TypeStep, OrderInit, OrderStep, PTL DEF Spec

----
(* What each stage of shutdown implies: the first caller of once.Do closes *)
(* the channel, drain exits only with nothing left, and the calls return   *)
(* only after that.                                                        *)
ExitedEmpty == done => chClosed /\ ch = <<>> /\ inHand = <<>>
FirstIsAlone == /\ once = "idle" <=> ~chClosed
                /\ \A c \in Callers : pc[c] = "await" => once = "running"
                /\ \A c, d \in Callers : pc[c] = "await" /\ pc[d] = "await" => c = d
FinishedDrained == /\ once = "done" => done
                   /\ Returned # {} \/ destSyncs > 0 => once = "done"
Shutdown == ExitedEmpty /\ FirstIsAlone /\ FinishedDrained

LEMMA ShutdownInit == Init => Shutdown
<1> SUFFICES ASSUME Init PROVE Shutdown
  OBVIOUS
<1>1. ExitedEmpty /\ FirstIsAlone
  BY Zenon DEF Init, ExitedEmpty, FirstIsAlone
<1>2. FinishedDrained
  BY DEF Init, FinishedDrained, Returned
<1> QED
  BY <1>1, <1>2 DEF Shutdown

LEMMA ShutdownStep == TypeOK /\ Shutdown /\ [Next]_vars => Shutdown'
<1> SUFFICES ASSUME TypeOK, Shutdown, [Next]_vars
             PROVE  Shutdown'
  OBVIOUS
<1>1. ASSUME UNCHANGED <<ch, chClosed, done, inHand, once, destSyncs>>,
             \A c \in Callers : /\ pc'[c] = "await" => pc[c] = "await"
                                /\ ret'[c] \in {"nil", "err", "panic"} =>
                                     ret[c] \in {"nil", "err", "panic"} \/ once = "done"
      PROVE  Shutdown'
  <2>1. ExitedEmpty' /\ FirstIsAlone'
    BY <1>1 DEF Shutdown, ExitedEmpty, FirstIsAlone
  <2>2. Returned' # {} => Returned # {} \/ once = "done"
    BY <1>1 DEF Returned
  <2>3. FinishedDrained'
    BY <1>1, <2>2 DEF Shutdown, FinishedDrained
  <2> QED
    BY <2>1, <2>3 DEF Shutdown
<1>2. ASSUME NEW c \in Callers,
             \/ \E m \in Messages : WriteCall(c, m)
             \/ WriteFull(c) \/ WriteDrop(c) \/ WriteClosed(c)
             \/ CloseCall(c) \/ CloseLater(c)
      PROVE  Shutdown'
  <2>1. UNCHANGED <<ch, chClosed, done, inHand, once, destSyncs>>
    BY <1>2 DEF WriteCall, WriteFull, WriteDrop, WriteClosed, CloseCall, CloseLater,
                chanVars, destVars
  <2>2. \A d \in Callers : pc'[d] = "await" => pc[d] = "await"
    BY <1>2 DEF WriteCall, WriteFull, WriteDrop, WriteClosed, CloseCall, CloseLater,
                Goto, Return, TypeOK, CallOK
  <2>3. \A d \in Callers : ret'[d] \in {"nil", "err", "panic"} =>
                             ret[d] \in {"nil", "err", "panic"} \/ once = "done"
    BY <1>2 DEF WriteCall, WriteFull, WriteDrop, WriteClosed, CloseCall, CloseLater,
                Return, OnceDone, TypeOK, CallOK
  <2> QED
    BY <1>1, <2>1, <2>2, <2>3
<1>3. ASSUME NEW c \in Callers, WriteSend(c)
      PROVE  Shutdown'
  <2>1. /\ ~chClosed /\ UNCHANGED <<chClosed, done, inHand, once, destSyncs>>
        /\ \A d \in Callers : pc'[d] = "await" => pc[d] = "await"
        /\ \A d \in Callers : ret'[d] \in {"nil", "err", "panic"} => ret[d] \in {"nil", "err", "panic"}
    BY <1>3 DEF WriteSend, Return, destVars, TypeOK, CallOK
  <2>2. ~done
    BY <2>1 DEF Shutdown, ExitedEmpty
  <2>3. ExitedEmpty' /\ FirstIsAlone'
    BY <2>1, <2>2 DEF Shutdown, ExitedEmpty, FirstIsAlone
  <2>4. FinishedDrained'
    BY <2>1 DEF Shutdown, FinishedDrained, Returned
  <2> QED
    BY <2>3, <2>4 DEF Shutdown
<1>4. CASE DrainRecv \/ DrainWrite
  <2>1. /\ ~done /\ UNCHANGED <<chClosed, done, once, destSyncs, pc, ret>>
    BY <1>4 DEF DrainRecv, DrainWrite, destVars, callVars, Shutdown, ExitedEmpty
  <2>2. ExitedEmpty' /\ FirstIsAlone'
    BY <2>1 DEF Shutdown, ExitedEmpty, FirstIsAlone
  <2>3. FinishedDrained'
    BY <2>1 DEF Shutdown, FinishedDrained, Returned
  <2> QED
    BY <2>2, <2>3 DEF Shutdown
<1>5. CASE DrainExit
  <2>1. /\ chClosed /\ inHand = <<>> /\ ch = <<>> /\ done'
        /\ UNCHANGED <<ch, chClosed, inHand, once, destSyncs, pc, ret>>
    BY <1>5 DEF DrainExit, destVars, callVars
  <2>2. ExitedEmpty' /\ FirstIsAlone'
    BY <2>1 DEF Shutdown, ExitedEmpty, FirstIsAlone
  <2>3. FinishedDrained'
    BY <2>1 DEF Shutdown, FinishedDrained, Returned
  <2> QED
    BY <2>2, <2>3 DEF Shutdown
<1>6. ASSUME NEW c \in Callers, CloseFirst(c)
      PROVE  Shutdown'
  <2>1. /\ once = "idle" /\ once' = "running" /\ chClosed'
        /\ pc' = [pc EXCEPT ![c] = "await"]
        /\ UNCHANGED <<ch, done, inHand, ret, destSyncs>>
    BY <1>6 DEF CloseFirst, CloseChannel, Goto, destVars
  <2>2. ExitedEmpty'
    BY <2>1 DEF Shutdown, ExitedEmpty
  <2>3. FirstIsAlone'
    BY <2>1 DEF Shutdown, FirstIsAlone, TypeOK, CallOK
  <2>4. FinishedDrained'
    BY <2>1 DEF Shutdown, FinishedDrained, Returned
  <2> QED
    BY <2>2, <2>3, <2>4 DEF Shutdown
<1>7. ASSUME NEW c \in Callers, CloseFinish(c)
      PROVE  Shutdown'
  <2>1. /\ pc[c] = "await" /\ done /\ once' = "done"
        /\ UNCHANGED <<ch, chClosed, done, inHand>>
        /\ pc' = [pc EXCEPT ![c] = "idle"]
    BY <1>7 DEF CloseFinish, Drained, SyncDest, Return, chanVars
  <2>2. ExitedEmpty'
    BY <2>1 DEF Shutdown, ExitedEmpty
  <2>3. once = "running" /\ \A d \in Callers : pc'[d] # "await"
    BY <2>1 DEF Shutdown, FirstIsAlone, TypeOK, CallOK
  <2>4. FirstIsAlone'
    BY <2>1, <2>3 DEF Shutdown, FirstIsAlone
  <2>5. FinishedDrained'
    BY <2>1 DEF FinishedDrained
  <2> QED
    BY <2>2, <2>4, <2>5 DEF Shutdown
<1>8. CASE DestHang \/ UNCHANGED vars
  BY <1>1, <1>8 DEF DestHang, vars, chanVars, destVars, callVars
<1> QED
  BY <1>2, <1>3, <1>4, <1>5, <1>6, <1>7, <1>8 DEF Next, Drain, WriteStep, CloseStep

(* When Close or Sync has returned to anyone, drain is gone and everything *)
(* ever accepted has been handed to the destination (Close, lines 77-87).  *)
THEOREM CloseIsFlush == Spec => []CloseFlushes
<1>1. TypeOK /\ InOrder /\ Shutdown => CloseFlushes
  <2> SUFFICES ASSUME TypeOK, InOrder, Shutdown, Returned # {}
               PROVE  done /\ handed = accepted
    BY DEF CloseFlushes
  <2>1. done /\ ch = <<>> /\ inHand = <<>>
    BY DEF Shutdown, FinishedDrained, ExitedEmpty
  <2>2. handed \in Seq(Messages)
    BY DEF TypeOK, HistoryOK
  <2> QED
    BY <2>1, <2>2, EmptyMessages, ConcatEmptySeq DEF InOrder
<1> QED
  BY <1>1, TypeInit, TypeStep, OrderInit, OrderStep, ShutdownInit, ShutdownStep,
     PTL DEF Spec

(* The destination is synced once, and sees nothing after that.            *)
THEOREM SyncIsFinal == Spec => QuietAfterSync
<1>1. ASSUME TypeOK, Shutdown, [Next]_vars, destSyncs > 0
      PROVE  UNCHANGED <<handed, destSyncs>>
  <2>1. once = "done" /\ done /\ inHand = <<>>
    BY <1>1 DEF Shutdown, FinishedDrained, ExitedEmpty
  <2>2. \A c \in Callers : pc[c] # "await"
    BY <1>1, <2>1 DEF Shutdown, FirstIsAlone
  <2>3. ~DrainWrite /\ \A c \in Callers : ~CloseFinish(c)
    BY <2>1, <2>2 DEF DrainWrite, CloseFinish
  <2>4. ASSUME NEW c \in Callers,
               \/ \E m \in Messages : WriteCall(c, m)
               \/ CloseCall(c) \/ WriteStep(c) \/ CloseStep(c)
        PROVE  UNCHANGED <<handed, destSyncs>>
    BY <2>3, <2>4 DEF WriteCall, CloseCall, WriteStep, WriteSend, WriteFull, WriteDrop,
       WriteClosed, CloseStep, CloseFirst, CloseLater, destVars
  <2>5. CASE DrainRecv \/ DrainExit \/ DestHang \/ UNCHANGED vars
    BY <2>5 DEF DrainRecv, DrainExit, DestHang, vars, destVars
  <2> QED
    BY <1>1, <2>3, <2>4, <2>5 DEF Next, Drain
<1> QED
  BY <1>1, TypeInit, TypeStep, ShutdownInit, ShutdownStep, PTL DEF Spec, QuietAfterSync

----
(* Which messages two sequences hold together. *)
LEMMA RangeConcat ==
  \A s, t \in Seq(Messages) : Range(s \o t) = Range(s) \union Range(t)
<1> SUFFICES ASSUME NEW s \in Seq(Messages), NEW t \in Seq(Messages)
             PROVE  Range(s \o t) = Range(s) \union Range(t)
  OBVIOUS
<1>1. /\ DOMAIN s = 1 .. Len(s) /\ DOMAIN t = 1 .. Len(t)
      /\ DOMAIN (s \o t) = 1 .. Len(s) + Len(t)
      /\ Len(s) \in Nat /\ Len(t) \in Nat
  BY ConcatProperties, LenProperties
<1>2. \A i \in 1 .. Len(s) : (s \o t)[i] = s[i]
  BY <1>1
<1>3. \A j \in 1 .. Len(t) : (s \o t)[Len(s) + j] = t[j]
  BY <1>1
<1>4. Range(s) \subseteq Range(s \o t)
  BY <1>1, <1>2 DEF Range
<1>5. Range(t) \subseteq Range(s \o t)
  <2> SUFFICES ASSUME NEW j \in 1 .. Len(t) PROVE t[j] \in Range(s \o t)
    BY <1>1 DEF Range
  <2>1. Len(s) + j \in 1 .. Len(s) + Len(t)
    BY <1>1
  <2> QED
    BY <1>1, <1>3, <2>1 DEF Range
<1>6. Range(s \o t) \subseteq Range(s) \union Range(t)
  <2> SUFFICES ASSUME NEW i \in 1 .. Len(s) + Len(t)
               PROVE  (s \o t)[i] \in Range(s) \union Range(t)
    BY <1>1 DEF Range
  <2>1. CASE i \in 1 .. Len(s)
    BY <1>1, <1>2, <2>1 DEF Range
  <2>2. CASE i \notin 1 .. Len(s)
    <3>1. i - Len(s) \in 1 .. Len(t) /\ Len(s) + (i - Len(s)) = i
      BY <1>1, <2>2
    <3> QED
      BY <1>1, <1>3, <3>1 DEF Range
  <2> QED
    BY <2>1, <2>2
<1> QED
  BY <1>4, <1>5, <1>6

LEMMA RangeAppend ==
  \A s \in Seq(Messages), m \in Messages : Range(Append(s, m)) = Range(s) \union {m}
<1> SUFFICES ASSUME NEW s \in Seq(Messages), NEW m \in Messages
             PROVE  Range(Append(s, m)) = Range(s) \union {m}
  OBVIOUS
<1>1. <<m>> \in Seq(Messages) /\ Append(s, m) = s \o <<m>>
  BY AppendIsConcat
<1>2. Range(<<m>>) = {m}
  <2>1. DOMAIN <<m>> = {1} /\ <<m>>[1] = m
    OBVIOUS
  <2> QED
    BY <2>1 DEF Range
<1>3. Range(s \o <<m>>) = Range(s) \union Range(<<m>>)
  BY <1>1, RangeConcat
<1> QED
  BY <1>1, <1>2, <1>3

----
(* Callers at the select hold messages that have met no fate yet, and each *)
(* a different one; with the settled ones they are all that was issued.    *)
SelectFresh ==
  /\ issued = Settled \union InFlight
  /\ \A c \in Callers : pc[c] = "select" => buf[c] \notin Settled
  /\ \A c, d \in Callers :
       pc[c] = "select" /\ pc[d] = "select" /\ c # d => buf[c] # buf[d]

LEMMA FreshInit == Init => SelectFresh
  BY DEF Init, SelectFresh, Settled, InFlight, Range

LEMMA FreshStep == TypeOK /\ SelectFresh /\ [Next]_vars => SelectFresh'
<1> SUFFICES ASSUME TypeOK, SelectFresh, [Next]_vars PROVE SelectFresh'
  OBVIOUS
<1>1. ASSUME NEW c \in Callers, NEW m \in Messages, WriteCall(c, m)
      PROVE  SelectFresh'
  <2>1. /\ m \notin Settled \union InFlight /\ UNCHANGED Settled
        /\ pc[c] = "idle" /\ issued' = issued \union {m}
        /\ pc' = [pc EXCEPT ![c] = "select"] /\ buf' = [buf EXCEPT ![c] = m]
    BY <1>1 DEF WriteCall, Goto, fateVars, Settled, SelectFresh
  <2>2. \A d \in Callers : pc[d] = "select" => buf[d] # m
    BY <2>1 DEF InFlight
  <2>3. pc'[c] = "select" /\ buf'[c] = m
    BY <2>1 DEF TypeOK, CallOK
  <2>4. \A d \in Callers : d # c => pc'[d] = pc[d] /\ buf'[d] = buf[d]
    BY <2>1 DEF TypeOK, CallOK
  <2>5. InFlight' = InFlight \union {m}
    BY <2>1, <2>3, <2>4 DEF InFlight
  <2> QED
    BY <2>1, <2>2, <2>3, <2>4, <2>5 DEF SelectFresh
<1>2. ASSUME NEW c \in Callers, pc[c] = "select", pc'[c] # "select",
             \A d \in Callers : d # c => pc'[d] = pc[d], UNCHANGED <<buf, issued>>,
             Settled' = Settled \union {buf[c]}
      PROVE  SelectFresh'
  <2>1. InFlight = InFlight' \union {buf[c]}
    BY <1>2 DEF InFlight
  <2> QED
    BY <1>2, <2>1 DEF SelectFresh
<1>3. ASSUME NEW c \in Callers, WriteSend(c) \/ WriteFull(c) \/ WriteClosed(c)
      PROVE  SelectFresh'
  <2>1. /\ pc[c] = "select" /\ pc'[c] # "select" /\ UNCHANGED <<buf, issued>>
        /\ \A d \in Callers : d # c => pc'[d] = pc[d]
    BY <1>3 DEF WriteSend, WriteFull, WriteClosed, Goto, Return, TypeOK, CallOK
  <2>2. Settled' = Settled \union {buf[c]}
    <3>1. CASE WriteSend(c)
      <4>1. /\ accepted \in Seq(Messages) /\ buf[c] \in Messages
            /\ accepted' = Append(accepted, buf[c]) /\ UNCHANGED <<dropped, lost>>
        BY <3>1 DEF WriteSend, TypeOK, CallOK, HistoryOK
      <4>2. Range(accepted') = Range(accepted) \union {buf[c]}
        BY <4>1, RangeAppend
      <4> QED
        BY <4>1, <4>2 DEF Settled
    <3>2. CASE WriteFull(c) \/ WriteClosed(c)
      BY <3>2 DEF WriteFull, WriteClosed, Settled
    <3> QED
      BY <1>3, <3>1, <3>2
  <2> QED
    BY <1>2, <2>1, <2>2
<1>4. ASSUME UNCHANGED <<buf, issued, fateVars>>,
             \A d \in Callers : pc'[d] = "select" <=> pc[d] = "select"
      PROVE  SelectFresh'
  <2>1. Settled' = Settled /\ InFlight' = InFlight
    BY <1>4 DEF fateVars, Settled, InFlight
  <2> QED
    BY <1>4, <2>1 DEF SelectFresh
<1>5. ASSUME NEW c \in Callers, WriteDrop(c) \/ CloseCall(c) \/ CloseStep(c)
      PROVE  SelectFresh'
  <2>1. UNCHANGED <<buf, issued, fateVars>>
    BY <1>5 DEF WriteDrop, CloseCall, CloseStep, CloseFirst, CloseFinish, CloseLater
  <2>2. \A d \in Callers : pc'[d] = "select" <=> pc[d] = "select"
    BY <1>5 DEF WriteDrop, CloseCall, CloseStep, CloseFirst, CloseFinish, CloseLater,
                SyncDest, Goto, Return, TypeOK, CallOK
  <2> QED
    BY <1>4, <2>1, <2>2
<1>6. CASE Drain \/ DestHang \/ UNCHANGED vars
  BY <1>4, <1>6 DEF Drain, DrainRecv, DrainWrite, DrainExit, DestHang, callVars, vars
<1> QED
  BY <1>1, <1>3, <1>5, <1>6 DEF Next, WriteStep

----
(* The inductive invariant the refinement rests on. *)
RefineInv == TypeOK /\ InOrder /\ Shutdown /\ SelectFresh

(* A message at the select is one the buffer has not seen. *)
LEMMA SelectedIsFresh ==
  RefineInv => \A c \in Callers : pc[c] = "select" => Buffer!Fresh(buf[c])
<1> SUFFICES ASSUME RefineInv, NEW c \in Callers, pc[c] = "select"
             PROVE  Buffer!Fresh(buf[c])
  OBVIOUS
<1>1. buf[c] \notin Range(accepted) \union dropped \union lost
  BY DEF RefineInv, SelectFresh, Settled
<1>2. /\ handed \in Seq(Messages) /\ inHand \o ch \in Seq(Messages)
      /\ accepted = handed \o (inHand \o ch)
  BY ConcatProperties DEF RefineInv, InOrder, TypeOK, QueueOK, HistoryOK
<1>3. Range(accepted) = Range(handed) \union Range(inHand \o ch)
  BY <1>2, RangeConcat
<1>4. Pending = inHand \o ch
  BY PendingContent DEF RefineInv
<1> QED
  BY <1>1, <1>3, <1>4 DEF Buffer!Fresh, Buffer!Range, Range

(* Every step is a step of the buffer, or one it does not see. *)
LEMMA BufferStep ==
  RefineInv /\ RefineInv' /\ [Next]_vars => [Buffer!Next]_(Buffer!vars)
<1> SUFFICES ASSUME RefineInv, RefineInv', [Next]_vars
             PROVE  [Buffer!Next]_(Buffer!vars)
  OBVIOUS
<1>0. /\ Pending = inHand \o ch /\ Pending' = inHand' \o ch'
      /\ ch \in Seq(Messages) /\ inHand \in Seq(Messages)
      /\ Len(Pending) = Len(inHand) + Len(ch)
  <2>1. Pending = inHand \o ch
    BY PendingContent DEF RefineInv
  <2>2. Pending' = inHand' \o ch'
    <3>1. (TypeOK => Pending = inHand \o ch)'
      BY PendingContent, PTL
    <3> QED
      BY <3>1 DEF RefineInv
  <2>3. ch \in Seq(Messages) /\ inHand \in Seq(Messages)
    BY DEF RefineInv, TypeOK, QueueOK
  <2> QED
    BY <2>1, <2>2, <2>3, ConcatProperties
<1>1. ASSUME UNCHANGED <<ch, inHand, handed, dropped, lost, chClosed>>,
             (once = "done") <=> (once' = "done")
      PROVE  UNCHANGED Buffer!vars
  BY <1>0, <1>1 DEF Buffer!vars
<1>2. ASSUME NEW c \in Callers, WriteSend(c)
      PROVE  Buffer!Next
  <2>1. /\ pc[c] = "select" /\ buf[c] \in Messages /\ ~chClosed /\ Len(ch) < Capacity
        /\ ch' = Append(ch, buf[c]) /\ UNCHANGED <<chClosed, inHand, handed, dropped, lost, once>>
    BY <1>2 DEF WriteSend, Slice, destVars, RefineInv, TypeOK, CallOK
  <2>2. Len(Pending) <= Capacity
    <3>1. Len(inHand) <= 1 /\ Len(inHand) \in Nat /\ Len(ch) \in Nat
      BY <1>0, LenProperties DEF RefineInv, TypeOK, QueueOK
    <3> QED
      BY <1>0, <2>1, <3>1, CapacityAssumption
  <2>3. Pending' = Append(Pending, buf[c])
    <3>1. inHand \o Append(ch, buf[c]) = Append(inHand \o ch, buf[c])
      BY <1>0, <2>1
    <3> QED
      BY <1>0, <2>1, <3>1
  <2>4. Buffer!Fresh(buf[c])
    BY <2>1, SelectedIsFresh
  <2>5. Buffer!Accept(buf[c])
    BY <2>1, <2>2, <2>3, <2>4 DEF Buffer!Accept
  <2> QED
    BY <2>1, <2>5 DEF Buffer!Next
<1>3. ASSUME NEW c \in Callers, WriteFull(c)
      PROVE  Buffer!Next
  <2>1. /\ pc[c] = "select" /\ buf[c] \in Messages /\ ~chClosed /\ Len(ch) = Capacity
        /\ dropped' = dropped \union {buf[c]}
        /\ UNCHANGED <<chClosed, ch, inHand, handed, lost, once>>
    BY <1>3 DEF WriteFull, Full, chanVars, destVars, RefineInv, TypeOK, CallOK
  <2>2. Len(Pending) >= Capacity
    BY <1>0, <2>1, LenProperties, CapacityAssumption
  <2>3. Pending' = Pending
    BY <1>0, <2>1
  <2>4. Buffer!Drop(buf[c])
    BY <2>1, <2>2, <2>3, SelectedIsFresh DEF Buffer!Drop
  <2> QED
    BY <2>1, <2>4 DEF Buffer!Next
<1>4. ASSUME NEW c \in Callers, WriteClosed(c)
      PROVE  Buffer!Next
  <2>1. /\ pc[c] = "select" /\ buf[c] \in Messages /\ chClosed
        /\ lost' = lost \union {buf[c]}
        /\ UNCHANGED <<chClosed, ch, inHand, handed, dropped, once>>
    BY <1>4 DEF WriteClosed, chanVars, destVars, RefineInv, TypeOK, CallOK
  <2>2. Pending' = Pending
    BY <1>0, <2>1
  <2>3. Buffer!Lose(buf[c])
    BY <2>1, <2>2, SelectedIsFresh DEF Buffer!Lose
  <2> QED
    BY <2>1, <2>3 DEF Buffer!Next
<1>5. CASE DrainRecv
  <2>1. /\ ch # <<>> /\ inHand = <<>> /\ inHand' = <<Head(ch)>> /\ ch' = Tail(ch)
        /\ UNCHANGED <<handed, dropped, lost, chClosed, once>>
    BY <1>5 DEF DrainRecv, Receivable, destVars, fateVars
  <2>2. Pending' = Pending
    BY <1>0, <2>1, ReceiveMoves
  <2> QED
    BY <2>1, <2>2 DEF Buffer!vars
<1>6. CASE DrainWrite
  <2>1. Bytes(Head(inHand)) = Head(inHand)
    BY <1>0, <1>6, HeadTailMessage, DisjointAssumption DEF DrainWrite, Bytes
  <2>2. /\ inHand # <<>> /\ inHand' = <<>> /\ handed' = Append(handed, Head(inHand))
        /\ UNCHANGED <<ch, dropped, lost, chClosed, once>>
    BY <1>6, <2>1 DEF DrainWrite, fateVars
  <2>3. once # "done"
    BY <2>2 DEF RefineInv, Shutdown, FinishedDrained, ExitedEmpty
  <2>4. /\ Pending # <<>> /\ Head(Pending) = Head(inHand) /\ Tail(Pending) = Pending'
    <3>1. Len(inHand) <= 1
      BY DEF RefineInv, TypeOK, QueueOK
    <3>2. inHand = <<Head(inHand)>> /\ Head(inHand) \in Messages
      BY <1>0, <2>2, <3>1, HandIsOne
    <3>3. \A q \in Seq(Messages), m \in Messages :
            /\ <<m>> \o q # <<>> /\ Head(<<m>> \o q) = m /\ Tail(<<m>> \o q) = <<>> \o q
      OBVIOUS
    <3> QED
      BY <1>0, <2>2, <3>2, <3>3
  <2>5. Buffer!Deliver
    BY <2>2, <2>3, <2>4 DEF Buffer!Deliver
  <2> QED
    BY <2>5 DEF Buffer!Next
<1>7. ASSUME NEW c \in Callers, CloseFirst(c)
      PROVE  Buffer!Next
  <2>1. /\ once = "idle" /\ once' = "running" /\ chClosed'
        /\ UNCHANGED <<ch, inHand, handed, dropped, lost>>
    BY <1>7 DEF CloseFirst, CloseChannel, destVars, fateVars
  <2>2. ~chClosed /\ Pending' = Pending
    BY <1>0, <2>1 DEF RefineInv, Shutdown, FirstIsAlone
  <2>3. Buffer!BeginClose
    BY <2>1, <2>2 DEF Buffer!BeginClose
  <2> QED
    BY <2>3 DEF Buffer!Next
<1>8. ASSUME NEW c \in Callers, CloseFinish(c)
      PROVE  Buffer!Next
  <2>1. /\ pc[c] = "await" /\ done /\ once' = "done"
        /\ UNCHANGED <<ch, inHand, handed, dropped, lost, chClosed>>
    BY <1>8 DEF CloseFinish, Drained, chanVars, fateVars
  <2>2. once = "running" /\ chClosed /\ ch = <<>> /\ inHand = <<>>
    BY <2>1 DEF RefineInv, Shutdown, FirstIsAlone, ExitedEmpty
  <2>3. Pending = <<>> /\ Pending' = Pending
    BY <1>0, <2>1, <2>2, EmptyMessages, ConcatEmptySeq
  <2>4. Buffer!EndClose
    BY <2>1, <2>2, <2>3 DEF Buffer!EndClose
  <2> QED
    BY <2>4 DEF Buffer!Next
<1>9. ASSUME NEW c \in Callers, \/ \E m \in Messages : WriteCall(c, m)
                                \/ WriteDrop(c) \/ CloseCall(c) \/ CloseLater(c)
      PROVE  UNCHANGED Buffer!vars
  BY <1>1, <1>9 DEF WriteCall, WriteDrop, CloseCall, CloseLater,
                    chanVars, destVars, fateVars
<1>10. CASE DrainExit \/ DestHang \/ UNCHANGED vars
  BY <1>1, <1>10 DEF DrainExit, DestHang, vars, chanVars, destVars, fateVars
<1> QED
  BY <1>2, <1>3, <1>4, <1>5, <1>6, <1>7, <1>8, <1>9, <1>10
  DEF Next, Drain, WriteStep, CloseStep

(* The asynchronous writer keeps the promise of a lossy buffer: it drops a *)
(* message only when Capacity of them wait, loses one only once shutdown   *)
(* has begun, and ends shutdown only when nothing waits.                   *)
THEOREM Refines == Spec => ImplementsBuffer
<1>1. Init => Buffer!Init
  <2> SUFFICES ASSUME Init PROVE Buffer!Init
    OBVIOUS
  <2>1. Pending = <<>>
    <3>1. TypeOK
      BY TypeInit
    <3> QED
      BY <3>1, PendingContent, EmptyMessages, ConcatEmptySeq DEF Init
  <2> QED
    BY <2>1 DEF Init, Buffer!Init
<1>2. Init => RefineInv
  BY TypeInit, OrderInit, ShutdownInit, FreshInit DEF RefineInv
<1>3. RefineInv /\ [Next]_vars => RefineInv'
  BY TypeStep, OrderStep, ShutdownStep, FreshStep DEF RefineInv
<1> QED
  BY <1>1, <1>2, <1>3, BufferStep, PTL DEF Spec, ImplementsBuffer, Buffer!Spec

----
Selecting == {c \in Callers : pc[c] = "select"}
Dropping == {c \in Callers : pc[c] = "drop"}

(* All the sets counted are finite, as each step adds one element at most. *)
Finite == /\ IsFiniteSet(Selecting) /\ IsFiniteSet(InFlight) /\ IsFiniteSet(Dropping)
          /\ IsFiniteSet(Settled) /\ IsFiniteSet(dropped) /\ IsFiniteSet(lost)
Fates == Cardinality(Settled) = Len(accepted) + Cardinality(dropped) + Cardinality(lost)
Flights == Cardinality(InFlight) = Cardinality(Selecting)
Drops == Cardinality(dropped) = dropCnt + Cardinality(Dropping)
CountInv == Finite /\ Fates /\ Flights /\ Drops

LEMMA AddOne ==
  ASSUME NEW S, NEW x, IsFiniteSet(S), x \notin S
  PROVE  /\ IsFiniteSet(S \union {x}) /\ Cardinality(S) \in Nat
         /\ Cardinality(S \union {x}) = Cardinality(S) + 1
  BY FS_AddElement, FS_CardinalityType

LEMMA TakeOne ==
  ASSUME NEW S, NEW x, IsFiniteSet(S), x \in S
  PROVE  /\ IsFiniteSet(S \ {x}) /\ Cardinality(S) \in Nat
         /\ Cardinality(S \ {x}) = Cardinality(S) - 1
  BY FS_RemoveElement, FS_CardinalityType

LEMMA CountInit == Init => CountInv
<1> SUFFICES ASSUME Init PROVE CountInv
  OBVIOUS
<1>1. /\ Selecting = {} /\ InFlight = {} /\ Dropping = {} /\ Settled = {}
      /\ dropped = {} /\ lost = {} /\ Len(accepted) = 0 /\ dropCnt = 0
  BY DEF Init, Selecting, InFlight, Dropping, Settled, Range
<1> QED
  BY <1>1, FS_EmptySet DEF CountInv, Finite, Fates, Flights, Drops

(* A caller leaves the select, and takes its message out of the flight: no *)
(* other caller has the same.                                              *)
LEMMA Leave ==
  ASSUME TypeOK, SelectFresh, CountInv, NEW c \in Callers, pc[c] = "select",
         UNCHANGED buf, pc'[c] # "select", \A d \in Callers : d # c => pc'[d] = pc[d]
  PROVE  /\ IsFiniteSet(Selecting') /\ IsFiniteSet(InFlight') /\ Flights'
         /\ buf[c] \notin Settled /\ buf[c] \notin dropped /\ buf[c] \notin lost
<1>1. Selecting' = Selecting \ {c} /\ c \in Selecting
  BY DEF Selecting
<1>2. InFlight' = InFlight \ {buf[c]} /\ buf[c] \in InFlight
  BY DEF InFlight, SelectFresh
<1>3. IsFiniteSet(Selecting) /\ IsFiniteSet(InFlight) /\ Flights
  BY DEF CountInv, Finite
<1>4. buf[c] \notin Settled
  BY DEF SelectFresh
<1> QED
  BY <1>1, <1>2, <1>3, <1>4, TakeOne DEF Flights, Settled

LEMMA CountStep == TypeOK /\ SelectFresh /\ CountInv /\ [Next]_vars => CountInv'
<1> SUFFICES ASSUME TypeOK, SelectFresh, CountInv, [Next]_vars PROVE CountInv'
  OBVIOUS
<1>0. /\ Finite /\ Fates /\ Flights /\ Drops
      /\ Cardinality(dropped) \in Nat /\ Cardinality(lost) \in Nat
      /\ Cardinality(Dropping) \in Nat /\ Cardinality(Settled) \in Nat
      /\ Len(accepted) \in Nat /\ dropCnt \in Nat
  BY FS_CardinalityType DEF CountInv, Finite, TypeOK, CountOK, HistoryOK
<1>1. ASSUME NEW c \in Callers, NEW m \in Messages, WriteCall(c, m) PROVE CountInv'
  <2>1. /\ pc[c] = "idle" /\ m \notin InFlight
        /\ pc'[c] = "select" /\ buf'[c] = m
        /\ \A d \in Callers : d # c => pc'[d] = pc[d] /\ buf'[d] = buf[d]
        /\ UNCHANGED <<accepted, dropped, lost, dropCnt>>
    BY <1>1 DEF WriteCall, Goto, fateVars, TypeOK, CallOK, SelectFresh
  <2>2. Selecting' = Selecting \union {c} /\ c \notin Selecting
    BY <2>1 DEF Selecting
  <2>3. InFlight' = InFlight \union {m}
    BY <2>1 DEF InFlight
  <2>4. Dropping' = Dropping /\ Settled' = Settled
    BY <2>1 DEF Dropping, Settled
  <2>5. IsFiniteSet(Selecting') /\ IsFiniteSet(InFlight') /\ Flights'
    BY <1>0, <2>1, <2>2, <2>3, AddOne DEF Finite, Flights
  <2> QED
    BY <1>0, <2>1, <2>4, <2>5 DEF CountInv, Finite, Fates, Drops
<1>2. ASSUME NEW c \in Callers, WriteSend(c) PROVE CountInv'
  <2>1. /\ pc[c] = "select" /\ pc'[c] = "idle" /\ UNCHANGED buf
        /\ \A d \in Callers : d # c => pc'[d] = pc[d]
        /\ accepted' = Append(accepted, buf[c]) /\ UNCHANGED <<dropped, lost, dropCnt>>
        /\ buf[c] \in Messages /\ accepted \in Seq(Messages)
    BY <1>2 DEF WriteSend, Return, TypeOK, CallOK, HistoryOK
  <2>2. Settled' = Settled \union {buf[c]} /\ Len(accepted') = Len(accepted) + 1
    BY <2>1, RangeAppend, AppendMessage DEF Settled
  <2>3. Dropping' = Dropping
    BY <2>1 DEF Dropping
  <2>4. /\ IsFiniteSet(Selecting') /\ IsFiniteSet(InFlight') /\ Flights'
        /\ buf[c] \notin Settled
    BY <2>1, Leave
  <2>5. IsFiniteSet(Settled') /\ Cardinality(Settled') = Cardinality(Settled) + 1
    BY <1>0, <2>2, <2>4, AddOne DEF Finite
  <2> QED
    BY <1>0, <2>1, <2>2, <2>3, <2>4, <2>5 DEF CountInv, Finite, Fates, Drops
<1>3. ASSUME NEW c \in Callers, WriteFull(c) PROVE CountInv'
  <2>1. /\ pc[c] = "select" /\ pc'[c] = "drop" /\ UNCHANGED buf
        /\ \A d \in Callers : d # c => pc'[d] = pc[d]
        /\ dropped' = dropped \union {buf[c]} /\ UNCHANGED <<accepted, lost, dropCnt>>
    BY <1>3 DEF WriteFull, Goto, TypeOK, CallOK
  <2>2. Settled' = Settled \union {buf[c]}
    BY <2>1 DEF Settled
  <2>3. Dropping' = Dropping \union {c} /\ c \notin Dropping
    BY <2>1 DEF Dropping
  <2>4. /\ IsFiniteSet(Selecting') /\ IsFiniteSet(InFlight') /\ Flights'
        /\ buf[c] \notin Settled /\ buf[c] \notin dropped
    BY <2>1, Leave
  <2>5. IsFiniteSet(Settled') /\ Cardinality(Settled') = Cardinality(Settled) + 1
    BY <1>0, <2>2, <2>4, AddOne DEF Finite
  <2>6. IsFiniteSet(dropped') /\ Cardinality(dropped') = Cardinality(dropped) + 1
    BY <1>0, <2>1, <2>4, AddOne DEF Finite
  <2>7. IsFiniteSet(Dropping') /\ Cardinality(Dropping') = Cardinality(Dropping) + 1
    BY <1>0, <2>3, AddOne DEF Finite
  <2>8. Finite'
    BY <1>0, <2>1, <2>4, <2>5, <2>6, <2>7 DEF Finite
  <2>9. Fates'
    BY <1>0, <2>1, <2>5, <2>6 DEF Fates
  <2>10. Drops'
    BY <1>0, <2>1, <2>6, <2>7 DEF Drops
  <2> QED
    BY <2>4, <2>8, <2>9, <2>10 DEF CountInv
<1>4. ASSUME NEW c \in Callers, WriteDrop(c) PROVE CountInv'
  <2>1. /\ pc[c] = "drop" /\ pc'[c] = "idle" /\ UNCHANGED <<buf, accepted, dropped, lost>>
        /\ \A d \in Callers : d # c => pc'[d] = pc[d]
        /\ dropCnt' = dropCnt + 1
    BY <1>4 DEF WriteDrop, CountDrop, Return, fateVars, TypeOK, CallOK
  <2>2. Dropping' = Dropping \ {c} /\ c \in Dropping
    BY <2>1 DEF Dropping
  <2>3. Selecting' = Selecting /\ InFlight' = InFlight /\ Settled' = Settled
    BY <2>1 DEF Selecting, InFlight, Settled
  <2>4. IsFiniteSet(Dropping') /\ Cardinality(Dropping') = Cardinality(Dropping) - 1
    BY <1>0, <2>2, TakeOne DEF Finite
  <2> QED
    BY <1>0, <2>1, <2>3, <2>4 DEF CountInv, Finite, Fates, Flights, Drops
<1>5. ASSUME NEW c \in Callers, WriteClosed(c) PROVE CountInv'
  <2>1. /\ pc[c] = "select" /\ pc'[c] = "idle" /\ UNCHANGED buf
        /\ \A d \in Callers : d # c => pc'[d] = pc[d]
        /\ lost' = lost \union {buf[c]} /\ UNCHANGED <<accepted, dropped, dropCnt>>
    BY <1>5 DEF WriteClosed, Return, TypeOK, CallOK
  <2>2. Settled' = Settled \union {buf[c]} /\ Dropping' = Dropping
    BY <2>1 DEF Settled, Dropping
  <2>3. /\ IsFiniteSet(Selecting') /\ IsFiniteSet(InFlight') /\ Flights'
        /\ buf[c] \notin Settled /\ buf[c] \notin lost
    BY <2>1, Leave
  <2>4. IsFiniteSet(Settled') /\ Cardinality(Settled') = Cardinality(Settled) + 1
    BY <1>0, <2>2, <2>3, AddOne DEF Finite
  <2>5. IsFiniteSet(lost') /\ Cardinality(lost') = Cardinality(lost) + 1
    BY <1>0, <2>1, <2>3, AddOne DEF Finite
  <2> QED
    BY <1>0, <2>1, <2>2, <2>3, <2>4, <2>5 DEF CountInv, Finite, Fates, Drops
<1>6. ASSUME UNCHANGED <<buf, fateVars, dropCnt>>,
             \A d \in Callers : /\ pc'[d] = "select" <=> pc[d] = "select"
                                /\ pc'[d] = "drop" <=> pc[d] = "drop"
      PROVE  CountInv'
  <2>1. /\ Selecting' = Selecting /\ InFlight' = InFlight /\ Dropping' = Dropping
        /\ Settled' = Settled
    BY <1>6 DEF Selecting, InFlight, Dropping, Settled, fateVars
  <2> QED
    BY <1>0, <1>6, <2>1 DEF CountInv, Finite, Fates, Flights, Drops, fateVars
<1>7. ASSUME NEW c \in Callers, CloseCall(c) \/ CloseStep(c) PROVE CountInv'
  <2>1. UNCHANGED <<buf, fateVars, dropCnt>>
    BY <1>7 DEF CloseCall, CloseStep, CloseFirst, CloseFinish, CloseLater
  <2>2. \A d \in Callers : /\ pc'[d] = "select" <=> pc[d] = "select"
                           /\ pc'[d] = "drop" <=> pc[d] = "drop"
    BY <1>7 DEF CloseCall, CloseStep, CloseFirst, CloseFinish, CloseLater, SyncDest,
                Goto, Return, TypeOK, CallOK
  <2> QED
    BY <1>6, <2>1, <2>2
<1>8. CASE Drain \/ DestHang \/ UNCHANGED vars
  BY <1>6, <1>8 DEF Drain, DrainRecv, DrainWrite, DrainExit, DestHang, vars, callVars
<1> QED
  BY <1>1, <1>2, <1>3, <1>4, <1>5, <1>7, <1>8 DEF Next, WriteStep

(* Every Write ever issued is accepted, counted by DroppedCount, refused   *)
(* by a closed channel or still at its select, and has one fate only       *)
(* (Write, DroppedCount): a message that vanished would be missed.         *)
THEOREM NothingUncounted == Spec => []Accounted
<1>1. SelectFresh /\ CountInv => Accounted
  <2> SUFFICES ASSUME SelectFresh, CountInv PROVE Accounted
    OBVIOUS
  <2>1. /\ IsFiniteSet(Settled) /\ IsFiniteSet(InFlight)
        /\ issued = Settled \union InFlight /\ Settled \intersect InFlight = {}
    BY DEF SelectFresh, CountInv, Finite, InFlight
  <2>2. Cardinality(issued) = Cardinality(Settled) + Cardinality(InFlight)
    <3>1. Cardinality(Settled) \in Nat /\ Cardinality(InFlight) \in Nat
      BY <2>1, FS_CardinalityType
    <3>2. Cardinality(Settled \intersect InFlight) = 0
      BY <2>1, FS_EmptySet
    <3>3. Cardinality(Settled \union InFlight)
            = Cardinality(Settled) + Cardinality(InFlight)
                - Cardinality(Settled \intersect InFlight)
      BY <2>1, FS_Union
    <3> QED
      BY <2>1, <3>1, <3>2, <3>3
  <2> QED
    BY <2>1, <2>2 DEF CountInv, Fates, Flights, Drops, Accounted, Selecting, Dropping
<1> QED
  BY <1>1, CountInit, CountStep, FreshInit, FreshStep, TypeInit, TypeStep, PTL DEF Spec
====
