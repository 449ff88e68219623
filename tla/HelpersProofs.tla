---- MODULE HelpersProofs ----
(***************************************************************************)
(* Theorems about what stands around the logger: the TestHandler, the      *)
(* default logger, the samplers and the fan-out, each by itself.           *)
(***************************************************************************)
EXTENDS MCHelpers, SequenceTheorems, FiniteSetTheorems, TLAPS

(* A slice of one more element ends with that element.                     *)
LEMMA SliceGrows ==
  ASSUME NEW S, NEW s \in Seq(S), NEW t \in Seq(S), NEW e \in S,
         NEW m \in Nat \ {0}, NEW n \in Nat, m <= n + 1, n <= Len(s), n + 1 <= Len(t),
         \A i \in m .. n : t[i] = s[i], t[n + 1] = e
  PROVE  SubSeq(t, m, n + 1) = Append(SubSeq(s, m, n), e)
<1> DEFINE new == SubSeq(t, m, n + 1)
           old == SubSeq(s, m, n)
<1>1. /\ old \in Seq(S) /\ Len(old) = n - m + 1
      /\ \A i \in 1 .. n - m + 1 : old[i] = s[m + i - 1]
  <2>1. \A i \in m .. n : s[i] \in S
    BY ElementOfSeq
  <2> QED
    BY <2>1, SubSeqProperties
<1>2. /\ new \in Seq(S) /\ Len(new) = n - m + 2
      /\ \A i \in 1 .. n - m + 2 : new[i] = t[m + i - 1]
  <2>1. \A i \in m .. n + 1 : t[i] \in S
    BY ElementOfSeq
  <2> QED
    BY <2>1, SubSeqProperties
<1>3. /\ Append(old, e) \in Seq(S) /\ Len(Append(old, e)) = n - m + 2
      /\ \A i \in 1 .. n - m + 1 : Append(old, e)[i] = old[i]
      /\ Append(old, e)[n - m + 2] = e
  BY <1>1, AppendProperties
<1>4. \A i \in 1 .. n - m + 2 : new[i] = Append(old, e)[i]
  BY <1>1, <1>2, <1>3
<1> QED
  BY <1>2, <1>3, <1>4, SeqEqual

LEMMA TailGrows ==
  ASSUME NEW S, NEW s \in Seq(S), NEW e \in S, NEW k \in 0 .. Len(s)
  PROVE  SubSeq(Append(s, e), k + 1, Len(s) + 1) = Append(SubSeq(s, k + 1, Len(s)), e)
<1> DEFINE t == Append(s, e)
           m == k + 1
           n == Len(s)
<1>1. /\ t \in Seq(S) /\ m \in Nat \ {0} /\ n \in Nat /\ m <= n + 1 /\ n <= Len(s)
      /\ n + 1 <= Len(t) /\ t[n + 1] = e
      /\ \A i \in m .. n : t[i] = s[i]
  BY AppendProperties, LenProperties
<1> HIDE DEF t, m, n
<1>2. SubSeq(t, m, n + 1) = Append(SubSeq(s, m, n), e)
  BY <1>1, SliceGrows
<1> QED
  BY <1>2 DEF t, m, n

----
(* The TestHandler.  What its arrays hold, and the slots in use.           *)
Kept == {Handler!Record(p) : p \in Lines}

ArraysOK == /\ arrays \in Seq(Seq(Kept)) /\ home \in 1 .. Len(arrays)
            /\ len \in 0 .. Len(arrays[home])

(* The handler never writes into the array of a snapshot, as Records makes *)
(* one of its own and append moves only to new ones.                       *)
Elsewhere(s) == /\ snap[s] \in ((1 .. Len(arrays)) \ {home}) \X Nat
                /\ snap[s][2] <= Len(arrays[snap[s][1]])
SnapInv == /\ DOMAIN snap = Snapshots /\ DOMAIN seen = Snapshots
           /\ DOMAIN verdict = Snapshots
           /\ \A s \in Snapshots : /\ snap[s] # <<>> => Elsewhere(s)
                                   /\ verdict[s] # <<>> => snap[s] # <<>>
PhaseInv == phase \in Seq(Kept) /\ since \in 0 .. Len(phase)

HandlerInv == ArraysOK /\ PhaseInv /\ SnapInv /\ PhaseOnly /\ SnapshotStable

(* A write keeps the other arrays and puts the record behind the slice.    *)
LEMMA WriteArrays ==
  ASSUME ArraysOK, NEW p \in Lines, Handler!Write(p)
  PROVE  /\ ArraysOK'
         /\ \A a \in (1 .. Len(arrays)) \ {home} :
              a \in (1 .. Len(arrays')) \ {home'} /\ arrays'[a] = arrays[a]
         /\ Handler!Slice(home, len)' = Append(Handler!Slice(home, len), Handler!Record(p))
<1> DEFINE r == Handler!Record(p)
           old == arrays[home]
<1>1. r \in Kept /\ old \in Seq(Kept) /\ len \in Nat /\ len <= Len(old) /\ home \in Nat
  BY ElementOfSeq DEF Kept, ArraysOK
<1> HIDE DEF r
<1>2. len' = len + 1
  BY DEF Handler!Write
<1>3. CASE len < Len(old)
  <2> DEFINE new == [old EXCEPT ![len + 1] = r]
  <2>1. arrays' = [arrays EXCEPT ![home] = new] /\ home' = home
    BY <1>3 DEF Handler!Write, r
  <2>2. /\ new \in Seq(Kept) /\ Len(new) = Len(old)
        /\ \A j \in 1 .. Len(old) : new[j] = IF j = len + 1 THEN r ELSE old[j]
    <3>1. len + 1 \in 1 .. Len(old)
      BY <1>1, <1>3, LenProperties
    <3> QED
      BY <1>1, <3>1, ExceptSeq
  <2> HIDE DEF new
  <2>3. /\ arrays' \in Seq(Seq(Kept)) /\ Len(arrays') = Len(arrays) /\ arrays'[home] = new
        /\ \A a \in (1 .. Len(arrays)) \ {home} : arrays'[a] = arrays[a]
    <3>1. arrays \in Seq(Seq(Kept)) /\ home \in 1 .. Len(arrays)
      BY DEF ArraysOK
    <3>2. /\ [arrays EXCEPT ![home] = new] \in Seq(Seq(Kept))
          /\ Len([arrays EXCEPT ![home] = new]) = Len(arrays)
          /\ \A a \in 1 .. Len(arrays) :
               [arrays EXCEPT ![home] = new][a] = IF a = home THEN new ELSE arrays[a]
      BY <2>2, <3>1, ExceptSeq
    <3> QED
      BY <2>1, <3>1, <3>2
  <2>4. SubSeq(new, 1, len + 1) = Append(SubSeq(old, 1, len), r)
    <3>1. /\ Len(old) \in Nat /\ 1 \in Nat \ {0} /\ 1 <= len + 1 /\ len + 1 <= Len(new)
          /\ \A i \in 1 .. len : new[i] = old[i]
          /\ new[len + 1] = r
      BY <1>1, <1>3, <2>2, LenProperties
    <3> QED
      BY <1>1, <2>2, <3>1, SliceGrows
  <2> QED
    BY <1>1, <1>2, <1>3, <2>1, <2>2, <2>3, <2>4, LenProperties DEF ArraysOK, Handler!Slice, r
<1>4. CASE ~(len < Len(old))
  <2>1. PICK spare \in 0 .. MaxLen - len - 1 :
          /\ arrays' = Append(arrays, SubSeq(old, 1, len) \o [i \in 1 .. spare + 1 |-> r])
          /\ home' = Len(arrays) + 1
    BY <1>4 DEF Handler!Write, Handler!Slice, r
  <2> DEFINE held == SubSeq(old, 1, len)
             slots == [i \in 1 .. spare + 1 |-> r]
             new == held \o slots
  <2>2. held \in Seq(Kept) /\ Len(held) = len /\ \A i \in 1 .. len : held[i] = old[i]
    BY <1>1, ElementOfSeq, SubSeqProperties
  <2>3. spare \in Nat /\ slots \in Seq(Kept) /\ Len(slots) = spare + 1
    BY <1>1, HelperAssumption DEF Handler!HandlerAssumption
  <2>4. /\ new \in Seq(Kept) /\ Len(new) = len + spare + 1 /\ new[len + 1] = r
        /\ \A i \in 1 .. len : new[i] = old[i]
    <3>1. /\ new \in Seq(Kept) /\ Len(new) = Len(held) + Len(slots)
          /\ \A i \in 1 .. Len(held) + Len(slots) :
               new[i] = IF i <= Len(held) THEN held[i] ELSE slots[i - Len(held)]
      BY <2>2, <2>3, ConcatProperties
    <3>2. slots[1] = r
      BY <2>3
    <3> HIDE DEF held, slots, new
    <3>3. Len(new) = len + spare + 1 /\ new[len + 1] = slots[1]
      BY <1>1, <2>2, <2>3, <3>1
    <3>4. \A i \in 1 .. len : new[i] = old[i]
      BY <1>1, <2>2, <2>3, <3>1
    <3> QED
      BY <3>1, <3>2, <3>3, <3>4
  <2> HIDE DEF held, slots, new
  <2>5. SubSeq(new, 1, len + 1) = Append(SubSeq(old, 1, len), r)
    BY <1>1, <2>3, <2>4, SliceGrows
  <2>6. /\ arrays' \in Seq(Seq(Kept)) /\ Len(arrays') = Len(arrays) + 1
        /\ arrays'[Len(arrays) + 1] = new
        /\ \A a \in 1 .. Len(arrays) : arrays'[a] = arrays[a]
    BY <2>1, <2>4, AppendProperties DEF ArraysOK, new, held, slots
  <2>7. Len(arrays) \in Nat /\ home \in 1 .. Len(arrays) /\ home' = Len(arrays) + 1
    BY <2>1, LenProperties DEF ArraysOK
  <2>8. ArraysOK'
    BY <1>1, <1>2, <2>3, <2>4, <2>6, <2>7 DEF ArraysOK
  <2>9. \A a \in (1 .. Len(arrays)) \ {home} :
          a \in (1 .. Len(arrays')) \ {home'} /\ arrays'[a] = arrays[a]
    BY <2>6, <2>7
  <2>10. Handler!Slice(home, len)' = SubSeq(new, 1, len + 1)
    BY <1>2, <2>6, <2>7 DEF Handler!Slice
  <2> QED
    BY <2>5, <2>8, <2>9, <2>10 DEF Handler!Slice, r
<1> QED
  BY <1>3, <1>4

LEMMA TakeArrays ==
  ASSUME ArraysOK, NEW s \in Snapshots, Handler!TakeRecords(s)
  PROVE  /\ ArraysOK'
         /\ \A a \in 1 .. Len(arrays) : a \in 1 .. Len(arrays') /\ arrays'[a] = arrays[a]
         /\ Handler!Slice(home, len)' = Handler!Slice(home, len)
         /\ snap' = [snap EXCEPT ![s] = <<Len(arrays'), len>>]
         /\ Len(arrays') # home /\ Len(arrays') \in Nat \ {0} /\ len \in Nat
         /\ arrays'[Len(arrays')] = Handler!Slice(home, len) /\ Len(arrays'[Len(arrays')]) = len
<1> DEFINE copy == Handler!Slice(home, len)
<1>1. /\ arrays \in Seq(Seq(Kept)) /\ home \in 1 .. Len(arrays)
      /\ arrays[home] \in Seq(Kept) /\ len \in Nat /\ len <= Len(arrays[home])
  BY ElementOfSeq DEF ArraysOK
<1>2. copy \in Seq(Kept) /\ Len(copy) = len
  BY <1>1, ElementOfSeq, SubSeqProperties DEF Handler!Slice
<1>3. /\ arrays' = Append(arrays, copy) /\ UNCHANGED <<home, len>>
      /\ snap' = [snap EXCEPT ![s] = <<Len(arrays) + 1, len>>]
  BY DEF Handler!TakeRecords, Handler!Copied
<1> HIDE DEF copy
<1>4. /\ arrays' \in Seq(Seq(Kept)) /\ Len(arrays') = Len(arrays) + 1
      /\ \A a \in 1 .. Len(arrays) : arrays'[a] = arrays[a]
      /\ arrays'[Len(arrays) + 1] = copy
  BY <1>1, <1>2, <1>3, AppendProperties
<1>5. Len(arrays) \in Nat
  BY <1>1, LenProperties
<1>6. ArraysOK'
  BY <1>1, <1>3, <1>4, <1>5 DEF ArraysOK
<1>7. arrays'[home] = arrays[home]
  BY <1>1, <1>4
<1>8. Handler!Slice(home, len)' = Handler!Slice(home, len)
  BY <1>3, <1>7 DEF Handler!Slice
<1> QED
  BY <1>1, <1>2, <1>3, <1>4, <1>5, <1>6, <1>8 DEF copy

LEMMA HandlerInit == Handler!Init => HandlerInv
<1> SUFFICES ASSUME Handler!Init PROVE HandlerInv
  OBVIOUS
<1>1. ArraysOK /\ PhaseInv /\ SnapInv
  BY DEF Handler!Init, ArraysOK, PhaseInv, SnapInv
<1>2. PhaseOnly
  BY SubSeqEmpty DEF Handler!Init, PhaseOnly, Handler!PhaseOnly, Handler!Slice
<1>3. SnapshotStable
  BY DEF Handler!Init, SnapshotStable, Handler!SnapshotStable
<1> QED
  BY <1>1, <1>2, <1>3 DEF HandlerInv

(* What leaves the snapshots and their arrays alone leaves them stable.    *)
LEMMA SnapshotsKept ==
  ASSUME ArraysOK, SnapInv, SnapshotStable, UNCHANGED <<snap, verdict, seen>>,
         \A a \in (1 .. Len(arrays)) \ {home} :
           a \in (1 .. Len(arrays')) \ {home'} /\ arrays'[a] = arrays[a]
  PROVE  SnapInv' /\ SnapshotStable'
<1>1. ASSUME NEW s \in Snapshots, snap[s] # <<>>
      PROVE  /\ Elsewhere(s)'
             /\ Handler!Slice(snap[s][1], snap[s][2])' = Handler!Slice(snap[s][1], snap[s][2])
  <2>1. snap[s][1] \in (1 .. Len(arrays)) \ {home} /\ Elsewhere(s)
    BY <1>1 DEF SnapInv, Elsewhere
  <2> QED
    BY <2>1 DEF Elsewhere, Handler!Slice
<1>2. SnapInv'
  BY <1>1 DEF SnapInv
<1>3. SnapshotStable'
  BY <1>1 DEF SnapshotStable, Handler!SnapshotStable, Handler!Slice
<1> QED
  BY <1>2, <1>3

LEMMA HandlerStep == HandlerInv /\ [Handler!Next]_(Handler!vars) => HandlerInv'
<1> SUFFICES ASSUME HandlerInv, [Handler!Next]_(Handler!vars) PROVE HandlerInv'
  OBVIOUS
<1>0. ArraysOK /\ PhaseInv /\ SnapInv /\ PhaseOnly /\ SnapshotStable
  BY DEF HandlerInv
<1>1. ASSUME NEW p \in Lines, Handler!Write(p) PROVE HandlerInv'
  <2> DEFINE r == Handler!Record(p)
  <2>1. /\ ArraysOK'
        /\ \A a \in (1 .. Len(arrays)) \ {home} :
             a \in (1 .. Len(arrays')) \ {home'} /\ arrays'[a] = arrays[a]
        /\ Handler!Slice(home, len)' = Append(Handler!Slice(home, len), r)
    BY <1>0, <1>1, WriteArrays
  <2>2. phase' = Append(phase, r) /\ since' = since /\ UNCHANGED <<snap, verdict, seen>>
    BY <1>1 DEF Handler!Write
  <2>3. r \in Kept /\ phase \in Seq(Kept) /\ Len(phase) \in Nat /\ since \in 0 .. Len(phase)
    BY <1>0, LenProperties DEF Kept, PhaseInv
  <2> HIDE DEF r
  <2>4. /\ phase' \in Seq(Kept) /\ Len(phase') = Len(phase) + 1
        /\ \A i \in 1 .. Len(phase) : phase'[i] = phase[i]
        /\ phase'[Len(phase) + 1] = r
    BY <2>2, <2>3, AppendProperties
  <2>5. PhaseInv'
    BY <2>2, <2>3, <2>4 DEF PhaseInv
  <2>6. SubSeq(Append(phase, r), since + 1, Len(phase) + 1) = Append(SubSeq(phase, since + 1, Len(phase)), r)
    BY <2>3, TailGrows
  <2>7. PhaseOnly'
    BY <1>0, <2>1, <2>2, <2>4, <2>6 DEF PhaseOnly, Handler!PhaseOnly
  <2>8. SnapInv' /\ SnapshotStable'
    BY <1>0, <2>1, <2>2, SnapshotsKept
  <2> QED
    BY <2>1, <2>5, <2>7, <2>8 DEF HandlerInv
<1>2. ASSUME NEW s \in Snapshots, Handler!TakeRecords(s) PROVE HandlerInv'
  <2>1. /\ ArraysOK'
        /\ \A a \in 1 .. Len(arrays) : a \in 1 .. Len(arrays') /\ arrays'[a] = arrays[a]
        /\ Handler!Slice(home, len)' = Handler!Slice(home, len)
        /\ snap' = [snap EXCEPT ![s] = <<Len(arrays'), len>>]
        /\ Len(arrays') # home /\ Len(arrays') \in Nat \ {0} /\ len \in Nat
        /\ arrays'[Len(arrays')] = Handler!Slice(home, len) /\ Len(arrays'[Len(arrays')]) = len
    BY <1>0, <1>2, TakeArrays
  <2>2. /\ snap[s] = <<>> /\ seen' = [seen EXCEPT ![s] = Handler!Slice(home, len)]
        /\ UNCHANGED <<home, len, verdict, phase, since>>
    BY <1>2 DEF Handler!TakeRecords
  <2>3. verdict[s] = <<>>
    BY <1>0, <2>2 DEF SnapInv
  <2>4. snap'[s] = <<Len(arrays'), len>> /\ seen'[s] = Handler!Slice(home, len)
    BY <1>0, <2>1, <2>2 DEF SnapInv
  <2>5. Elsewhere(s)' /\ Handler!Slice(snap[s][1], snap[s][2])' = seen'[s]
    <3>1. Elsewhere(s)'
      BY <2>1, <2>2, <2>4 DEF Elsewhere
    <3>2. Handler!Slice(home, len) \in Seq(Kept)
      BY <1>0, ElementOfSeq, SubSeqProperties DEF ArraysOK, Handler!Slice
    <3>3. SubSeq(Handler!Slice(home, len), 1, len) = Handler!Slice(home, len)
      BY <2>1, <3>2, SubSeqFull
    <3> QED
      BY <2>1, <2>4, <3>1, <3>3 DEF Handler!Slice
  <2>6. ASSUME NEW t \in Snapshots, t # s, snap[t] # <<>>
        PROVE  Elsewhere(t)' /\ Handler!Slice(snap[t][1], snap[t][2])' = Handler!Slice(snap[t][1], snap[t][2])
    <3>1. snap'[t] = snap[t] /\ Elsewhere(t)
      BY <1>0, <2>1, <2>6 DEF SnapInv
    <3> QED
      BY <2>1, <2>2, <3>1 DEF Elsewhere, Handler!Slice
  <2>7. \A t \in Snapshots : t # s => snap'[t] = snap[t] /\ seen'[t] = seen[t]
    BY <1>0, <2>1, <2>2 DEF SnapInv
  <2>8. SnapInv'
    BY <1>0, <2>1, <2>2, <2>3, <2>5, <2>6, <2>7 DEF SnapInv
  <2>9. SnapshotStable'
    BY <1>0, <2>2, <2>3, <2>5, <2>6, <2>7 DEF SnapshotStable, Handler!SnapshotStable, SnapInv
  <2>10. PhaseInv' /\ PhaseOnly'
    BY <1>0, <2>1, <2>2 DEF PhaseInv, PhaseOnly, Handler!PhaseOnly
  <2> QED
    BY <2>1, <2>8, <2>9, <2>10 DEF HandlerInv
<1>3. ASSUME NEW s \in Snapshots, NEW level \in Levels, Handler!AssertLogged(s, level)
      PROVE  HandlerInv'
  <2> DEFINE found == \E i \in 1 .. snap[s][2] : arrays[snap[s][1]][i].level = level
  <2>1. /\ snap[s] # <<>> /\ UNCHANGED <<arrays, home, len, snap, phase, since, seen>>
        /\ verdict' = [verdict EXCEPT ![s] = [level |-> level, found |-> found]]
    BY <1>3 DEF Handler!AssertLogged
  <2>2. found = \E r \in Handler!Range(seen[s]) : r.level = level
    <3>1. Elsewhere(s) /\ seen[s] = SubSeq(arrays[snap[s][1]], 1, snap[s][2])
      BY <1>0, <2>1 DEF SnapInv, SnapshotStable, Handler!SnapshotStable, Handler!Slice
    <3>2. arrays[snap[s][1]] \in Seq(Kept) /\ snap[s][2] \in Nat
      BY <1>0, <3>1, ElementOfSeq DEF Elsewhere, ArraysOK
    <3>3. /\ seen[s] \in Seq(Kept) /\ Len(seen[s]) = snap[s][2]
          /\ \A i \in 1 .. snap[s][2] : seen[s][i] = arrays[snap[s][1]][i]
      BY <3>1, <3>2, ElementOfSeq, SubSeqProperties DEF Elsewhere
    <3>4. Handler!Range(seen[s]) = {arrays[snap[s][1]][i] : i \in 1 .. snap[s][2]}
      BY <3>3, LenProperties DEF Handler!Range
    <3> QED
      BY <3>4
  <2> HIDE DEF found
  <2>3. verdict'[s] = [level |-> level, found |-> found]
    BY <1>0, <2>1 DEF SnapInv
  <2>4. verdict'[s].level = level /\ verdict'[s].found = found
    BY <2>3
  <2>5. \A t \in Snapshots : t # s => verdict'[t] = verdict[t]
    BY <1>0, <2>1 DEF SnapInv
  <2>6. SnapInv'
    BY <1>0, <2>1, <2>5 DEF SnapInv, Elsewhere
  <2>7. SnapshotStable'
    <3>1. ASSUME NEW t \in Snapshots, snap'[t] # <<>>
          PROVE  Handler!Slice(snap[t][1], snap[t][2])' = seen'[t]
      BY <1>0, <2>1, <3>1 DEF SnapshotStable, Handler!SnapshotStable, Handler!Slice
    <3>2. ASSUME NEW t \in Snapshots, verdict'[t] # <<>>
          PROVE  verdict'[t].found = \E r \in Handler!Range(seen'[t]) : r.level = verdict'[t].level
      <4>1. CASE t = s
        BY <2>1, <2>2, <2>4, <4>1
      <4>2. CASE t # s
        <5>1. verdict'[t] = verdict[t] /\ seen'[t] = seen[t]
          BY <2>1, <2>5, <4>2
        <5> QED
          BY <1>0, <3>2, <5>1 DEF SnapshotStable, Handler!SnapshotStable
      <4> QED
        BY <4>1, <4>2
    <3> QED
      BY <3>1, <3>2 DEF SnapshotStable, Handler!SnapshotStable, Handler!Range
  <2>8. ArraysOK' /\ PhaseInv' /\ PhaseOnly'
    BY <1>0, <2>1 DEF ArraysOK, PhaseInv, PhaseOnly, Handler!PhaseOnly, Handler!Slice
  <2> QED
    BY <2>6, <2>7, <2>8 DEF HandlerInv
<1>4. CASE Handler!Reset
  <2>1. len' = 0 /\ since' = Len(phase) /\ UNCHANGED <<arrays, home, snap, verdict, phase, seen>>
    BY <1>4 DEF Handler!Reset, Handler!Emptied
  <2>2. ArraysOK' /\ PhaseInv'
    BY <1>0, <2>1, ElementOfSeq, LenProperties DEF ArraysOK, PhaseInv
  <2>3. PhaseOnly'
    <3>1. Len(phase) \in Nat
      BY <1>0, LenProperties DEF PhaseInv
    <3>2. SubSeq(phase, Len(phase) + 1, Len(phase)) = <<>> /\ SubSeq(arrays[home], 1, 0) = <<>>
      BY <3>1, SubSeqEmpty
    <3> QED
      BY <2>1, <3>2 DEF PhaseOnly, Handler!PhaseOnly, Handler!Slice
  <2>4. SnapInv' /\ SnapshotStable'
    BY <1>0, <2>1, SnapshotsKept
  <2> QED
    BY <2>2, <2>3, <2>4 DEF HandlerInv
<1>5. CASE UNCHANGED Handler!vars
  <2>1. UNCHANGED <<arrays, home, len, snap, verdict, phase, since, seen>>
    BY <1>5 DEF Handler!vars
  <2>2. SnapInv' /\ SnapshotStable'
    BY <1>0, <2>1, SnapshotsKept
  <2> QED
    BY <1>0, <2>1, <2>2 DEF HandlerInv, ArraysOK, PhaseInv, PhaseOnly, Handler!PhaseOnly, Handler!Slice
<1> QED
  BY <1>1, <1>2, <1>3, <1>4, <1>5 DEF Handler!Next

(* A snapshot of the TestHandler reads for ever as it did when Records     *)
(* made it, and an assertion's verdict is about that moment.               *)
THEOREM SnapshotsStay == Handler!Spec => []SnapshotStable
<1>1. HandlerInv => SnapshotStable
  BY DEF HandlerInv
<1> QED
  BY <1>1, HandlerInit, HandlerStep, PTL DEF Handler!Spec

(* After a Reset the TestHandler holds what was written since, and nothing *)
(* else, although it writes into the array of the phase before.            *)
THEOREM PhasesApart == Handler!Spec => []PhaseOnly
<1>1. HandlerInv => PhaseOnly
  BY DEF HandlerInv
<1> QED
  BY <1>1, HandlerInit, HandlerStep, PTL DEF Handler!Spec

----
(* The default logger.  Who is about to hand l back.                       *)
Coming(l) == {g \in Goroutines : pc[g] = "slog" /\ prev[g] = l}
Out(l) == IF l = default \/ l \in covered THEN 0 ELSE 1

(* Loggers in use are never the next ones; the one in place is not among   *)
(* those overwritten.                                                      *)
GlobalOK == /\ used \subseteq Loggers /\ covered \subseteq used \ {default}
            /\ default \in used \union {None}
            /\ returned \in [Loggers -> Nat]
            /\ \A l \in Loggers \ used : returned[l] = 0
            /\ pc \in [Goroutines -> {"idle", "slog"}]
            /\ prev \in [Goroutines -> used \union {None}]

(* HandedBackOnce, with the sets that it counts finite.                    *)
Handed(l) == IsFiniteSet(Coming(l)) /\ returned[l] + Cardinality(Coming(l)) = Out(l)
GlobalInv == GlobalOK /\ \A l \in used : Handed(l)

LEMMA HandedIs == GlobalInv => HandedBackOnce
<1>1. ASSUME NEW S PROVE Global!Cardinality(S) = Cardinality(S)
  BY DEF Global!Cardinality, Cardinality
<1> QED
  BY <1>1 DEF GlobalInv, Handed, Coming, Out, HandedBackOnce, Global!HandedBackOnce

(* Goroutine g makes l the default, and will hand back whatever prev' says *)
(* it took out.                                                            *)
LEMMA Installed ==
  ASSUME GlobalInv, NEW g \in Goroutines, NEW l \in Loggers, Global!Install(g, l),
         NEW p \in used \union {None}, prev' = [prev EXCEPT ![g] = p]
  PROVE  /\ used' = used \union {l} /\ l \notin used /\ default' = l
         /\ used' \subseteq Loggers
         /\ pc' \in [Goroutines -> {"idle", "slog"}]
         /\ prev' \in [Goroutines -> used' \union {None}]
         /\ Coming(l)' = {} /\ g \notin Coming(p)
         /\ \A m \in used : Coming(m)' = IF m = p THEN Coming(m) \union {g} ELSE Coming(m)
<1>1. /\ used' = used \union {l} /\ l \notin used /\ default' = l
      /\ pc[g] = "idle" /\ pc' = [pc EXCEPT ![g] = "slog"]
  BY DEF Global!Install
<1>2. /\ pc \in [Goroutines -> {"idle", "slog"}] /\ prev \in [Goroutines -> used \union {None}]
      /\ used \subseteq Loggers
  BY DEF GlobalInv, GlobalOK
<1>3. l # None /\ l # p
  BY <1>1, HelperAssumption DEF Global!GlobalAssumption
<1>4. \A h \in Goroutines : /\ pc'[h] = IF h = g THEN "slog" ELSE pc[h]
                            /\ prev'[h] = IF h = g THEN p ELSE prev[h]
  BY <1>1, <1>2
<1>5. Coming(l)' = {}
  BY <1>1, <1>2, <1>3, <1>4 DEF Coming
<1>6. \A m \in used : Coming(m)' = IF m = p THEN Coming(m) \union {g} ELSE Coming(m)
  BY <1>1, <1>4 DEF Coming
<1> QED
  BY <1>1, <1>2, <1>5, <1>6 DEF Coming

LEMMA GlobalStep == GlobalInv /\ [Global!Next]_(Global!vars) => GlobalInv'
<1> SUFFICES ASSUME GlobalInv, [Global!Next]_(Global!vars) PROVE GlobalInv'
  OBVIOUS
<1>1. ASSUME NEW g \in Goroutines, NEW l \in Loggers, Global!SetDefault(g, l)
      PROVE  GlobalInv'
  <2>1. /\ Global!Install(g, l) /\ prev' = [prev EXCEPT ![g] = None]
        /\ covered' = covered \union ({default} \ {None}) /\ returned' = returned
    BY <1>1 DEF Global!SetDefault
  <2>2. /\ used' = used \union {l} /\ l \notin used /\ default' = l
        /\ used' \subseteq Loggers
        /\ pc' \in [Goroutines -> {"idle", "slog"}]
        /\ prev' \in [Goroutines -> used' \union {None}]
        /\ Coming(l)' = {}
        /\ \A m \in used : Coming(m)' = IF m = None THEN Coming(m) \union {g} ELSE Coming(m)
    BY <2>1, Installed
  <2>3. GlobalOK'
    BY <2>1, <2>2 DEF GlobalInv, GlobalOK
  <2>4. Handed(l)'
    BY <2>1, <2>2, FS_EmptySet DEF GlobalInv, GlobalOK, Handed, Out
  <2>5. ASSUME NEW m \in used PROVE Handed(m)'
    <3>1. m # None /\ m # l
      BY <2>2, HelperAssumption DEF GlobalInv, GlobalOK, Global!GlobalAssumption
    <3>2. Coming(m)' = Coming(m)
      BY <2>2, <3>1
    <3>3. Out(m)' = Out(m)
      BY <2>1, <2>2, <3>1 DEF Out
    <3> QED
      BY <2>1, <3>2, <3>3 DEF GlobalInv, Handed
  <2> QED
    BY <2>2, <2>3, <2>4, <2>5 DEF GlobalInv
<1>2. ASSUME NEW g \in Goroutines, NEW l \in Loggers, Global!ReplaceDefault(g, l)
      PROVE  GlobalInv'
  <2>0. PICK d \in used \union {None} : d = default
    BY DEF GlobalInv, GlobalOK
  <2>1. /\ Global!Install(g, l) /\ prev' = [prev EXCEPT ![g] = d]
        /\ UNCHANGED <<returned, covered>>
    BY <1>2, <2>0 DEF Global!ReplaceDefault, Global!Taken
  <2>2. /\ used' = used \union {l} /\ l \notin used /\ default' = l
        /\ used' \subseteq Loggers
        /\ pc' \in [Goroutines -> {"idle", "slog"}]
        /\ prev' \in [Goroutines -> used' \union {None}]
        /\ Coming(l)' = {} /\ g \notin Coming(d)
        /\ \A m \in used : Coming(m)' = IF m = d THEN Coming(m) \union {g} ELSE Coming(m)
    BY <2>1, Installed
  <2>3. GlobalOK'
    BY <2>1, <2>2 DEF GlobalInv, GlobalOK
  <2>4. Handed(l)'
    BY <2>1, <2>2, FS_EmptySet DEF GlobalInv, GlobalOK, Handed, Out
  <2>5. ASSUME NEW m \in used PROVE Handed(m)'
    <3>1. /\ IsFiniteSet(Coming(m)) /\ returned[m] \in Nat
          /\ returned[m] + Cardinality(Coming(m)) = Out(m) /\ returned'[m] = returned[m]
      BY <2>1 DEF GlobalInv, GlobalOK, Handed
    <3>2. CASE m = d
      <4>1. /\ IsFiniteSet(Coming(m) \union {g}) /\ Cardinality(Coming(m)) \in Nat
            /\ Cardinality(Coming(m) \union {g}) = Cardinality(Coming(m)) + 1
        BY <2>2, <3>1, <3>2, FS_AddElement, FS_CardinalityType
      <4>2. Coming(m)' = Coming(m) \union {g}
        BY <2>2, <3>2
      <4>3. Out(m) = 0 /\ Out(m)' = 1
        BY <2>0, <2>1, <2>2, <3>2 DEF Out, GlobalInv, GlobalOK
      <4> QED
        BY <3>1, <4>1, <4>2, <4>3 DEF Handed
    <3>3. CASE m # d
      <4>1. Coming(m)' = Coming(m) /\ Out(m)' = Out(m)
        BY <2>0, <2>1, <2>2, <3>3 DEF Out
      <4> QED
        BY <3>1, <4>1 DEF Handed
    <3> QED
      BY <3>2, <3>3
  <2> QED
    BY <2>2, <2>3, <2>4, <2>5 DEF GlobalInv
<1>3. ASSUME NEW g \in Goroutines, Global!SlogSetDefault(g) PROVE GlobalInv'
  <2>1. PICK p \in used \union {None} : p = prev[g]
    BY DEF GlobalInv, GlobalOK
  <2>2. /\ pc[g] = "slog" /\ pc' = [pc EXCEPT ![g] = "idle"]
        /\ UNCHANGED <<default, prev, used, covered>>
        /\ returned' = IF p = None THEN returned ELSE [returned EXCEPT ![p] = @ + 1]
    BY <1>3, <2>1 DEF Global!SlogSetDefault
  <2>3. GlobalOK'
    BY <2>2, HelperAssumption DEF GlobalInv, GlobalOK
  <2>4. ASSUME NEW m \in used PROVE Handed(m)'
    <3>1. /\ IsFiniteSet(Coming(m)) /\ returned[m] \in Nat /\ m \in Loggers /\ m # None
          /\ returned[m] + Cardinality(Coming(m)) = Out(m)
      BY HelperAssumption DEF GlobalInv, GlobalOK, Handed, Global!GlobalAssumption
    <3>2. Out(m)' = Out(m)
      BY <2>2 DEF Out
    <3>3. \A h \in Goroutines : pc'[h] = IF h = g THEN "idle" ELSE pc[h]
      BY <2>2 DEF GlobalInv, GlobalOK
    <3>4. CASE m = p
      <4>1. Coming(m)' = Coming(m) \ {g} /\ g \in Coming(m)
        BY <2>1, <2>2, <3>3, <3>4 DEF Coming
      <4>2. /\ IsFiniteSet(Coming(m) \ {g}) /\ Cardinality(Coming(m)) \in Nat
            /\ Cardinality(Coming(m) \ {g}) = Cardinality(Coming(m)) - 1
        BY <3>1, <4>1, FS_RemoveElement, FS_CardinalityType
      <4>3. returned'[m] = returned[m] + 1
        BY <2>2, <3>1, <3>4 DEF GlobalInv, GlobalOK
      <4> QED
        BY <3>1, <3>2, <4>1, <4>2, <4>3 DEF Handed
    <3>5. CASE m # p
      <4>1. Coming(m)' = Coming(m)
        BY <2>1, <2>2, <3>3, <3>5 DEF Coming
      <4>2. returned'[m] = returned[m]
        BY <2>2, <3>1, <3>5 DEF GlobalInv, GlobalOK
      <4> QED
        BY <3>1, <3>2, <4>1, <4>2 DEF Handed
    <3> QED
      BY <3>4, <3>5
  <2> QED
    BY <2>2, <2>3, <2>4 DEF GlobalInv
<1>4. CASE UNCHANGED Global!vars
  BY <1>4 DEF Global!vars, GlobalInv, GlobalOK, Handed, Coming, Out
<1> QED
  BY <1>1, <1>2, <1>3, <1>4 DEF Global!Next

(* Of any number of goroutines that replace the default at once, each      *)
(* logger taken out goes to exactly one, unless SetDefault overwrote it.   *)
THEOREM ReturnedOnce == Global!Spec => []HandedBackOnce
<1>1. Global!Init => GlobalInv
  BY DEF Global!Init, GlobalInv, GlobalOK
<1> QED
  BY <1>1, GlobalStep, HandedIs, PTL DEF Global!Spec

----
(* The samplers.  First some arithmetic: quotient and remainder, their     *)
(* uniqueness, and what they make of rounding up.                          *)
LEMMA DivMod ==
  ASSUME NEW n \in Nat \ {0}, NEW c \in Nat
  PROVE  c \div n \in Nat /\ c % n \in 0 .. n - 1 /\ c = n * (c \div n) + (c % n)
  BY SMT

LEMMA NoMultiple ==
  ASSUME NEW n \in Nat \ {0}, NEW k \in Int, NEW r \in 0 .. n - 1, NEW s \in 0 .. n - 1,
         n * k = r - s
  PROVE  k = 0
<1>1. CASE k >= 1
  <2>1. n * k >= n
    BY <1>1
  <2> QED
    BY <2>1
<1>2. CASE k <= -1
  <2>1. n * k <= -n
    BY <1>2
  <2> QED
    BY <2>1
<1> QED
  BY <1>1, <1>2

LEMMA DivUnique ==
  ASSUME NEW n \in Nat \ {0}, NEW c \in Nat, NEW q \in Nat, NEW r \in 0 .. n - 1,
         c = n * q + r
  PROVE  c \div n = q /\ c % n = r
<1>1. c \div n \in Nat /\ c % n \in 0 .. n - 1 /\ c = n * (c \div n) + (c % n)
  BY DivMod
<1>2. n * (q - c \div n) = (c % n) - r
  BY <1>1
<1>3. q - c \div n = 0
  BY <1>1, <1>2, NoMultiple
<1> QED
  BY <1>1, <1>3

LEMMA RoundedUp ==
  ASSUME NEW n \in Nat \ {0}, NEW c \in Nat
  PROVE  (c + 1 + n - 1) \div n = (c + n - 1) \div n + (IF c % n = 0 THEN 1 ELSE 0)
<1> DEFINE q == c \div n
           r == c % n
<1>1. q \in Nat /\ r \in 0 .. n - 1 /\ c = n * q + r
  BY DivMod
<1> HIDE DEF q, r
<1>2. (c + 1 + n - 1) \div n = q + 1
  <2>1. c + 1 + n - 1 \in Nat /\ c + 1 + n - 1 = n * (q + 1) + r
    BY <1>1
  <2> QED
    BY <1>1, <2>1, DivUnique
<1>3. CASE r = 0
  <2>1. c + n - 1 \in Nat /\ c + n - 1 = n * q + (n - 1) /\ n - 1 \in 0 .. n - 1
    BY <1>1, <1>3
  <2>2. (c + n - 1) \div n = q
    BY <1>1, <2>1, DivUnique
  <2> QED
    BY <1>1, <1>2, <1>3, <2>2 DEF r
<1>4. CASE r # 0
  <2>1. /\ c + n - 1 \in Nat /\ c + n - 1 = n * (q + 1) + (r - 1)
        /\ r - 1 \in 0 .. n - 1 /\ q + 1 \in Nat
    BY <1>1, <1>4
  <2>2. (c + n - 1) \div n = q + 1
    BY <1>1, <2>1, DivUnique
  <2> QED
    BY <1>1, <1>2, <1>4, <2>2 DEF r
<1> QED
  BY <1>3, <1>4

LEMMA MultiplesApart ==
  ASSUME NEW n \in Nat \ {0}, NEW i \in Nat, NEW j \in Nat, i % n = 0, j % n = 0, i < j
  PROVE  j - i >= n
<1>1. PICK a \in Nat, b \in Nat : i = n * a /\ j = n * b
  <2>1. i = n * (i \div n) /\ j = n * (j \div n) /\ i \div n \in Nat /\ j \div n \in Nat
    BY DivMod
  <2> QED
    BY <2>1
<1>2. j - i = n * (b - a)
  BY <1>1
<1>3. b - a >= 1
  BY <1>1, <1>2
<1> QED
  BY <1>2, <1>3

(* The calls that are to pass, of the first c: as many as c over N, rounded*)
(* up.  All of them have, but those that still have their sum in hand.     *)
Chosen(c) == {i \in 1 .. c : (i - 1) % N = 0}
EveryInv == /\ counts \in Nat /\ mine \in [Goroutines -> 0 .. counts]
            /\ \A g, h \in Goroutines : g # h /\ mine[g] # 0 => mine[g] # mine[h]
            /\ passed = Chosen(counts) \ {mine[g] : g \in Goroutines}
            /\ IsFiniteSet(Chosen(counts))
            /\ Cardinality(Chosen(counts)) = (counts + N - 1) \div N

LEMMA EveryStep == EveryInv /\ [Sampler!Next]_(Sampler!vars) => EveryInv'
<1> SUFFICES ASSUME EveryInv, [Sampler!Next]_(Sampler!vars) PROVE EveryInv'
  OBVIOUS
<1>0. N \in Nat \ {0}
  BY HelperAssumption DEF Sampler!SamplerAssumption
<1>1. ASSUME NEW g \in Goroutines, Sampler!Add(g) PROVE EveryInv'
  <2>1. /\ mine[g] = 0 /\ counts' = counts + 1 /\ passed' = passed
        /\ mine' = [mine EXCEPT ![g] = counts + 1]
    BY <1>1 DEF Sampler!Add
  <2>2. counts \in Nat /\ mine \in [Goroutines -> 0 .. counts]
    BY DEF EveryInv
  <2>3. \A h \in Goroutines : mine'[h] = IF h = g THEN counts + 1 ELSE mine[h]
    BY <2>1, <2>2
  <2>4. Chosen(counts)' = Chosen(counts) \union (IF counts % N = 0 THEN {counts + 1} ELSE {})
    BY <2>1, <2>2 DEF Chosen
  <2>5. passed' = Chosen(counts)' \ {mine'[h] : h \in Goroutines}
    <3>1. passed = Chosen(counts) \ {mine[h] : h \in Goroutines}
      BY DEF EveryInv
    <3>2. \A i \in Chosen(counts) : i \in Nat /\ i # 0 /\ i <= counts
      BY <2>2 DEF Chosen
    <3>3. \A i \in Chosen(counts) :
            (\E h \in Goroutines : mine'[h] = i) <=> (\E h \in Goroutines : mine[h] = i)
      BY <2>1, <2>2, <2>3, <3>2
    <3>4. \E h \in Goroutines : mine'[h] = counts + 1
      BY <2>3
    <3> QED
      BY <2>1, <2>4, <3>1, <3>3, <3>4
  <2>6. IsFiniteSet(Chosen(counts)') /\ Cardinality(Chosen(counts)') = (counts' + N - 1) \div N
    <3>1. counts + 1 \notin Chosen(counts)
      BY <2>2 DEF Chosen
    <3>2. /\ (counts + 1 + N - 1) \div N
                = (counts + N - 1) \div N + (IF counts % N = 0 THEN 1 ELSE 0)
          /\ (counts + N - 1) \div N \in Nat
      <4>1. counts + N - 1 \in Nat
        BY <1>0, <2>2
      <4> QED
        BY <1>0, <2>2, <4>1, RoundedUp, DivMod
    <3>3. /\ IsFiniteSet(Chosen(counts)) /\ Cardinality(Chosen(counts)) = (counts + N - 1) \div N
          /\ IsFiniteSet(Chosen(counts) \union {counts + 1})
          /\ Cardinality(Chosen(counts) \union {counts + 1}) = Cardinality(Chosen(counts)) + 1
      BY <3>1, FS_AddElement DEF EveryInv
    <3>4. CASE counts % N = 0
      BY <2>1, <2>4, <3>2, <3>3, <3>4
    <3>5. CASE counts % N # 0
      <4>1. Chosen(counts)' = Chosen(counts)
        BY <2>4, <3>5
      <4> QED
        BY <2>1, <3>2, <3>3, <3>5, <4>1
    <3> QED
      BY <3>4, <3>5
  <2>7. \A h, k \in Goroutines : h # k /\ mine'[h] # 0 => mine'[h] # mine'[k]
    BY <2>1, <2>2, <2>3 DEF EveryInv
  <2> QED
    BY <2>1, <2>2, <2>5, <2>6, <2>7 DEF EveryInv
<1>2. ASSUME NEW g \in Goroutines, Sampler!Verdict(g) PROVE EveryInv'
  <2>1. /\ mine[g] # 0 /\ counts' = counts /\ mine' = [mine EXCEPT ![g] = 0]
        /\ passed' = IF (mine[g] - 1) % N = 0 THEN passed \union {mine[g]} ELSE passed
    BY <1>2 DEF Sampler!Verdict, Sampler!Picked
  <2>2. counts \in Nat /\ mine \in [Goroutines -> 0 .. counts]
    BY DEF EveryInv
  <2>3. \A h \in Goroutines : mine'[h] = IF h = g THEN 0 ELSE mine[h]
    BY <2>1, <2>2
  <2>4. Chosen(counts)' = Chosen(counts)
    BY <2>1 DEF Chosen
  <2>5. passed' = Chosen(counts) \ {mine'[h] : h \in Goroutines}
    <3>1. passed = Chosen(counts) \ {mine[h] : h \in Goroutines}
      BY DEF EveryInv
    <3>2. \A i \in Chosen(counts) : i # 0
      BY DEF Chosen
    <3>3. mine[g] \in Chosen(counts) <=> (mine[g] - 1) % N = 0
      BY <2>1, <2>2 DEF Chosen
    <3>4. \A h \in Goroutines : h # g => mine[h] # mine[g]
      BY <2>1 DEF EveryInv
    <3>5. \A i \in Chosen(counts) :
            (\E h \in Goroutines : mine'[h] = i) <=> i # mine[g] /\ \E h \in Goroutines : mine[h] = i
      BY <2>3, <3>2, <3>4
    <3> QED
      BY <2>1, <3>1, <3>3, <3>5
  <2> QED
    BY <2>1, <2>2, <2>3, <2>4, <2>5 DEF EveryInv
<1>3. CASE UNCHANGED Sampler!everyVars
  BY <1>3 DEF Sampler!everyVars, EveryInv, Chosen
<1> QED
  BY <1>1, <1>2, <1>3 DEF Sampler!Next, Sampler!vars

LEMMA EveryIsOneInN == EveryInv => OneInN
<1> SUFFICES ASSUME EveryInv PROVE OneInN
  OBVIOUS
<1>0. N \in Nat \ {0}
  BY HelperAssumption DEF Sampler!SamplerAssumption
<1>1. \A S : Sampler!Cardinality(S) = Cardinality(S)
  BY DEF Sampler!Cardinality, Cardinality
<1>2. ASSUME \A g \in Goroutines : mine[g] = 0
      PROVE  Cardinality(passed) = (counts + N - 1) \div N
  <2>1. passed = Chosen(counts)
    BY <1>2 DEF EveryInv, Chosen
  <2> QED
    BY <2>1 DEF EveryInv
<1>3. ASSUME NEW i \in passed, NEW j \in passed, i < j PROVE j - i >= N
  <2>1. /\ i \in Nat /\ j \in Nat
        /\ i - 1 \in Nat /\ j - 1 \in Nat /\ (i - 1) % N = 0 /\ (j - 1) % N = 0 /\ i - 1 < j - 1
    BY <1>3 DEF EveryInv, Chosen
  <2>2. (j - 1) - (i - 1) >= N
    BY <1>0, <2>1, MultiplesApart
  <2> QED
    BY <1>0, <2>1, <2>2
<1> QED
  BY <1>1, <1>2, <1>3 DEF OneInN, Sampler!OneInN

(* However many goroutines ask an EveryNSampler at once, the calls it lets *)
(* through are the first of every N.                                       *)
THEOREM FirstOfN == Sampler!Spec => []OneInN
<1>1. Sampler!Init => EveryInv
  <2> SUFFICES ASSUME Sampler!Init PROVE EveryInv
    OBVIOUS
  <2>1. N \in Nat \ {0}
    BY HelperAssumption DEF Sampler!SamplerAssumption
  <2>2. (0 + N - 1) \div N = 0
    <3>1. 0 + N - 1 \in Nat /\ 0 + N - 1 = N * 0 + (N - 1) /\ N - 1 \in 0 .. N - 1
      BY <2>1
    <3> QED
      BY <2>1, <3>1, DivUnique
  <2>3. counts = 0 /\ mine = [g \in Goroutines |-> 0] /\ passed = {}
    BY DEF Sampler!Init
  <2>4. Chosen(counts) = {}
    BY <2>3 DEF Chosen
  <2> QED
    BY <2>2, <2>3, <2>4, FS_EmptySet DEF EveryInv
<1> QED
  BY <1>1, EveryStep, EveryIsOneInN, PTL DEF Sampler!Spec

----
(* The entries that passed in the window that is open are the last ones to *)
(* pass, as many as the budget leaves of the calls in it.  They came after *)
(* the window before had ended, since the bucket starts a new one only     *)
(* then; a bucket that nobody has asked yet has its end in the past.       *)
Budget(c) == IF c < PerSecond THEN c ELSE PerSecond
InWindow(i) == allowed[i] \in resetAt - Second .. now
RateInv == /\ now \in Nat /\ count \in Nat /\ resetAt \in Nat /\ allowed \in Seq(Nat)
           /\ \A i \in DOMAIN allowed : allowed[i] <= now /\ allowed[i] <= resetAt
           /\ count = 0 => now > resetAt
           /\ count > 0 =>
                /\ resetAt - Second <= now
                /\ Budget(count) <= Len(allowed)
                /\ \A i \in DOMAIN allowed : InWindow(i) <=> i > Len(allowed) - Budget(count)

LEMMA RateStep == RateInv /\ [Sampler!Next]_(Sampler!vars) => RateInv'
<1> SUFFICES ASSUME RateInv, [Sampler!Next]_(Sampler!vars) PROVE RateInv'
  OBVIOUS
<1>0. PerSecond \in Nat \ {0} /\ Second \in Nat \ {0}
  BY HelperAssumption DEF Sampler!SamplerAssumption
<1>1. /\ now \in Nat /\ count \in Nat /\ resetAt \in Nat /\ allowed \in Seq(Nat)
      /\ Len(allowed) \in Nat /\ DOMAIN allowed = 1 .. Len(allowed)
      /\ \A i \in DOMAIN allowed : allowed[i] \in Nat
  BY DEF RateInv
<1>2. CASE Sampler!Sample
  <2> DEFINE spent == IF now > resetAt THEN 1 ELSE count + 1
             ends == IF now > resetAt THEN now + Second ELSE resetAt
             more == IF spent <= PerSecond THEN Append(allowed, now) ELSE allowed
  <2>1. now' = now /\ count' = spent /\ resetAt' = ends /\ allowed' = more
    BY <1>2 DEF Sampler!Sample, Sampler!After, Sampler!WindowEnd, Sampler!InBudget
  <2>2. spent \in Nat \ {0} /\ ends \in Nat /\ more \in Seq(Nat) /\ now <= ends
    BY <1>0, <1>1
  <2>3. CASE spent <= PerSecond
    <3>1. /\ Len(more) = Len(allowed) + 1 /\ DOMAIN more = 1 .. Len(allowed) + 1
          /\ \A i \in DOMAIN allowed : more[i] = allowed[i]
          /\ more[Len(allowed) + 1] = now
      BY <1>1, <2>3
    <3>2. \A i \in DOMAIN more : i \in DOMAIN allowed \/ i = Len(allowed) + 1
      BY <1>1, <3>1
    <3>3. \A i \in DOMAIN more : more[i] \in Nat /\ more[i] <= now /\ more[i] <= ends
      BY <1>0, <1>1, <2>2, <3>1, <3>2 DEF RateInv
    <3>4. CASE now > resetAt
      <4>1. \A i \in DOMAIN more : more[i] \in now .. now <=> i > Len(allowed)
        BY <1>1, <3>1, <3>2, <3>4 DEF RateInv
      <4>2. spent = 1 /\ Budget(spent) = 1 /\ ends - Second = now
        BY <1>0, <1>1, <3>4 DEF Budget
      <4> HIDE DEF spent, ends, more
      <4> QED
        BY <1>0, <1>1, <2>1, <2>2, <3>1, <3>3, <4>1, <4>2 DEF RateInv, InWindow, Budget
    <3>5. CASE ~(now > resetAt)
      <4>1. count > 0 /\ ends = resetAt /\ spent = count + 1
        BY <1>1, <3>5 DEF RateInv
      <4>2. Budget(count) = count /\ Budget(spent) = count + 1
        BY <1>0, <1>1, <2>3, <4>1 DEF Budget
      <4>3. resetAt - Second <= now /\ count <= Len(allowed)
        BY <4>1, <4>2 DEF RateInv
      <4>4. \A i \in DOMAIN more :
              more[i] \in resetAt - Second .. now <=> i > Len(allowed) - count
        <5>1. \A i \in DOMAIN allowed :
                more[i] \in resetAt - Second .. now <=> i > Len(allowed) - count
          BY <3>1, <4>1, <4>2 DEF RateInv, InWindow
        <5>2. now \in resetAt - Second .. now
          BY <1>0, <1>1, <4>3
        <5> QED
          BY <1>1, <3>1, <3>2, <4>1, <5>1, <5>2
      <4> HIDE DEF spent, ends, more
      <4>5. Len(more) - Budget(spent) = Len(allowed) - count
        BY <1>1, <3>1, <4>2
      <4>6. \A i \in DOMAIN more :
              more[i] \in ends - Second .. now <=> i > Len(more) - Budget(spent)
        BY <4>1, <4>4, <4>5
      <4>7. ends - Second <= now /\ Budget(spent) <= Len(more)
        BY <1>1, <3>1, <4>1, <4>2, <4>3
      <4> QED
        BY <1>1, <2>1, <2>2, <3>3, <4>6, <4>7 DEF RateInv, InWindow
    <3> QED
      BY <3>4, <3>5
  <2>4. CASE ~(spent <= PerSecond)
    <3>1. ~(now > resetAt) /\ count > 0 /\ spent = count + 1 /\ ends = resetAt /\ more = allowed
      <4>1. ~(now > resetAt)
        BY <1>0, <1>1, <2>4
      <4>2. count > 0
        BY <1>1, <4>1 DEF RateInv
      <4> QED
        BY <2>4, <4>1, <4>2
    <3>2. Budget(spent) = Budget(count)
      BY <1>0, <1>1, <2>4, <3>1 DEF Budget
    <3> HIDE DEF spent, ends, more
    <3> QED
      BY <1>1, <2>1, <2>2, <3>1, <3>2 DEF RateInv, InWindow
  <2> QED
    BY <2>3, <2>4
<1>3. CASE Sampler!Tick
  <2>1. now' = now + 1 /\ UNCHANGED <<count, resetAt, allowed>>
    BY <1>3 DEF Sampler!Tick
  <2>2. \A i \in DOMAIN allowed : InWindow(i)' <=> InWindow(i)
    BY <1>0, <1>1, <2>1 DEF RateInv, InWindow
  <2> QED
    BY <1>0, <1>1, <2>1, <2>2 DEF RateInv, Budget
<1>4. CASE UNCHANGED Sampler!rateVars
  BY <1>4 DEF Sampler!rateVars, RateInv, InWindow, Budget
<1> QED
  BY <1>2, <1>3, <1>4 DEF Sampler!Next, Sampler!vars

LEMMA RateIsExact == RateInv => WindowExact
<1> SUFFICES ASSUME RateInv, count > 0
             PROVE  Sampler!Passed(resetAt - Second, now) = Budget(count)
  BY DEF WindowExact, Sampler!WindowExact, Budget
<1>0. PerSecond \in Nat \ {0} /\ Second \in Nat \ {0} /\ count \in Nat /\ Len(allowed) \in Nat
      /\ DOMAIN allowed = 1 .. Len(allowed)
  BY HelperAssumption DEF Sampler!SamplerAssumption, RateInv
<1> DEFINE from == Len(allowed) - Budget(count) + 1
<1>1. Budget(count) \in Nat /\ Budget(count) <= Len(allowed)
  BY <1>0 DEF RateInv, Budget
<1>2. {i \in DOMAIN allowed : allowed[i] \in resetAt - Second .. now} = from .. Len(allowed)
  BY <1>0, <1>1 DEF RateInv, InWindow
<1>3. Cardinality(from .. Len(allowed)) = Budget(count)
  <2>1. from \in Int /\ Len(allowed) \in Int
    BY <1>0, <1>1
  <2>2. Cardinality(from .. Len(allowed))
          = IF from > Len(allowed) THEN 0 ELSE Len(allowed) - from + 1
    BY <2>1, FS_Interval
  <2> HIDE DEF from
  <2>3. from = Len(allowed) - Budget(count) + 1
    BY DEF from
  <2> QED
    BY <1>0, <1>1, <2>2, <2>3
<1>4. \A S : Sampler!Cardinality(S) = Cardinality(S)
  BY DEF Sampler!Cardinality, Cardinality
<1> QED
  BY <1>2, <1>3, <1>4 DEF Sampler!Passed

(* A window of a RateSampler lets through exactly its budget, as long as   *)
(* there are calls for it, wherever the window before ended.               *)
THEOREM WindowsKeepBudget == Sampler!Spec => []WindowExact
<1>1. Sampler!Init => RateInv
  BY DEF Sampler!Init, RateInv
<1> QED
  BY <1>1, RateStep, RateIsExact, PTL DEF Sampler!Spec

----
(* The fan-out, for any number of writers with any filters, and any        *)
(* entries.  What appending does to the set of the members, and to the     *)
(* length.                                                                 *)
LEMMA AppendEntry ==
  \A s \in Seq(Entries), e \in Entries :
    /\ Append(s, e) \in Seq(Entries)
    /\ Len(Append(s, e)) = Len(s) + 1
    /\ Range(Append(s, e)) = Range(s) \union {e}
<1> SUFFICES ASSUME NEW s \in Seq(Entries), NEW e \in Entries
             PROVE  /\ Append(s, e) \in Seq(Entries)
                    /\ Len(Append(s, e)) = Len(s) + 1
                    /\ Range(Append(s, e)) = Range(s) \union {e}
  OBVIOUS
<1> DEFINE t == Append(s, e)
<1>1. /\ t \in Seq(Entries) /\ Len(t) = Len(s) + 1 /\ Len(s) \in Nat
      /\ DOMAIN s = 1 .. Len(s) /\ DOMAIN t = 1 .. Len(t)
      /\ t[Len(s) + 1] = e /\ \A i \in 1 .. Len(s) : t[i] = s[i]
  OBVIOUS
<1>2. ASSUME NEW i \in 1 .. Len(t) PROVE t[i] \in Range(s) \union {e}
  <2>1. CASE i = Len(s) + 1
    BY <1>1, <2>1
  <2>2. CASE i \in 1 .. Len(s)
    BY <1>1, <2>2 DEF Range
  <2> QED
    BY <1>1, <2>1, <2>2
<1>3. ASSUME NEW i \in 1 .. Len(s) PROVE s[i] \in Range(t)
  <2>1. i \in DOMAIN t /\ t[i] = s[i]
    BY <1>1
  <2> QED
    BY <2>1 DEF Range
<1>4. e \in Range(t)
  <2>1. Len(s) + 1 \in DOMAIN t
    BY <1>1
  <2> QED
    BY <1>1, <2>1 DEF Range
<1> QED
  BY <1>1, <1>2, <1>3, <1>4 DEF Range

LEMMA EmptyRange == Range(<<>>) = {} /\ <<>> \in Seq(Entries) /\ Len(<<>>) = 0
  BY DEF Range

LEMMA SinkLength == Len(MinLevel) \in Nat /\ Sinks = 1 .. Len(MinLevel)
  BY SinkAssumption

----
(* Every variable keeps its type. *)
LEMMA TypeInit == Init => TypeOK
<1> SUFFICES ASSUME Init PROVE TypeOK
  OBVIOUS
<1> QED
  BY EmptyRange, SinkLength DEF Init, TypeOK

LEMMA TypeStep == TypeOK /\ [Next]_vars => TypeOK'
<1> SUFFICES ASSUME TypeOK, [Next]_vars PROVE TypeOK'
  OBVIOUS
<1> USE SinkLength DEF TypeOK
<1>1. ASSUME NEW e \in Entries, Write(e) PROVE TypeOK'
  <2>1. written' \in Seq(Entries)
    BY <1>1, AppendEntry DEF Write
  <2> QED
    BY <1>1, <2>1 DEF Write
<1>2. CASE WriteSkip
  BY <1>2 DEF WriteSkip
<1>3. CASE WriteAccept
  <2>1. cur[1] \in Entries
    BY <1>3 DEF WriteAccept
  <2>2. Append(sink[at], cur[1]) \in Seq(Entries)
    BY <1>3, <2>1, AppendEntry DEF WriteAccept
  <2>3. sink' \in [Sinks -> Seq(Entries)]
    BY <1>3, <2>2 DEF WriteAccept
  <2> QED
    BY <1>3, <2>3 DEF WriteAccept
<1>4. CASE WriteRefuse
  <2>1. cur[1] \in Entries /\ at \in Sinks
    BY <1>4 DEF WriteRefuse
  <2>2. refused' \in [Sinks -> SUBSET Entries]
    BY <1>4, <2>1 DEF WriteRefuse
  <2>3. /\ op' = "rescue" /\ cur' \in {<<e>> : e \in Entries}
        /\ at' \in 1 .. Len(MinLevel) + 1
    BY <1>4 DEF WriteRefuse, AfterRefusal
  <2> QED
    BY <1>4, <2>2, <2>3 DEF WriteRefuse
<1>5. CASE WriteDone
  BY <1>5 DEF WriteDone
<1>6. CASE Rescue
  <2>1. fallback' \in Seq(Entries)
    BY <1>6, AppendEntry DEF Rescue
  <2> QED
    BY <1>6, <2>1 DEF Rescue
<1>7. CASE Sync
  <2>1. at' \in 1 .. Len(MinLevel) + 1
    BY <1>7 DEF Sync
  <2> QED
    BY <1>7, <2>1 DEF Sync
<1>8. ASSUME NEW r \in {"nil", "benign", "real"}, SyncSink(r) PROVE TypeOK'
  BY <1>8 DEF SyncSink, AfterSyncError
<1>9. CASE SyncDone
  BY <1>9 DEF SyncDone
<1>10. CASE UNCHANGED vars
  BY <1>10 DEF vars
<1> QED
  BY <1>1, <1>2, <1>3, <1>4, <1>5, <1>6, <1>7, <1>8, <1>9, <1>10 DEF Next

THEOREM SinkTypes == Spec => []TypeOK
<1>1. Init => TypeOK
  BY TypeInit
<1>2. TypeOK /\ [Next]_vars => TypeOK'
  BY TypeStep
<1> QED
  BY <1>1, <1>2, PTL DEF Spec

----
(* What is known in the middle of a write or a sync.  The sinks before     *)
(* "at" have had their turn; the entry under way is in what was written,   *)
(* and no sink has refused it before.                                      *)
NoneHidden == \A e \in Entries, s \in Sinks :
                Finished(e) /\ Passes(s, e) => e \in Range(sink[s]) \union Range(fallback)
Served == op = "write" =>
            \A s \in Sinks : s < at /\ Passes(s, cur[1]) => cur[1] \in Range(sink[s])
Synced == op = "sync" => \A s \in Sinks : s < at /\ CanSync[s] => s \in clean
Known == /\ \A s \in Sinks : refused[s] \subseteq Range(written)
         /\ cur # <<>> => cur[1] \in Range(written)
         /\ op = "write" => \A s \in Sinks : cur[1] \notin refused[s]

SinkInv == Served /\ Synced /\ Known /\ NoneHidden /\ RescuedOnce /\ AllSynced

LEMMA SinkInvInit == Init => SinkInv
  BY EmptyRange DEF Init, SinkInv, Served, Synced, Known, NoneHidden, RescuedOnce,
                    AllSynced, Finished

(* The three parts that are about writes, under each kind of step. *)
LEMMA LossStep ==
  TypeOK /\ Served /\ NoneHidden /\ [Next]_vars
    => (Served /\ NoneHidden)'
<1> SUFFICES ASSUME TypeOK, Served, NoneHidden, [Next]_vars
             PROVE  Served' /\ NoneHidden'
  OBVIOUS
<1> USE SinkLength
<1>1. ASSUME NEW e \in Entries, Write(e) PROVE Served' /\ NoneHidden'
  <2>1. Range(written') = Range(written) \union {e} /\ cur' = <<e>> /\ cur = <<>>
    BY <1>1, AppendEntry DEF Write, TypeOK
  <2>2. Served'
    BY <1>1 DEF Write, Served, TypeOK
  <2>3. NoneHidden'
    BY <1>1, <2>1 DEF Write, NoneHidden, Finished, Passes, ExtractLevel
  <2> QED
    BY <2>2, <2>3
<1>2. CASE WriteSkip
  BY <1>2 DEF WriteSkip, TypeOK, Served, NoneHidden, Finished, Passes, ExtractLevel
<1>3. CASE WriteAccept
  <2>1. /\ at \in Sinks /\ cur[1] \in Entries /\ sink[at] \in Seq(Entries)
        /\ sink' = [sink EXCEPT ![at] = Append(sink[at], cur[1])]
    BY <1>3 DEF WriteAccept, TypeOK
  <2>2. /\ Range(sink'[at]) = Range(sink[at]) \union {cur[1]}
        /\ \A s \in Sinks : s # at => sink'[s] = sink[s]
    BY <2>1, AppendEntry DEF TypeOK
  <2>3. Served'
    <3> SUFFICES ASSUME NEW s \in Sinks, s < at + 1, Passes(s, cur[1])
                 PROVE  cur[1] \in Range(sink'[s])
      BY <1>3 DEF WriteAccept, Served, Passes, ExtractLevel
    <3>1. CASE s = at
      BY <2>2, <3>1
    <3>2. CASE s < at
      BY <1>3, <2>2, <3>2 DEF WriteAccept, Served
    <3> QED
      BY <2>1, <3>1, <3>2
  <2>4. NoneHidden'
    BY <1>3, <2>1, <2>2 DEF WriteAccept, TypeOK, NoneHidden, Finished, Passes, ExtractLevel
  <2> QED
    BY <2>3, <2>4
<1>4. CASE WriteRefuse
  BY <1>4 DEF WriteRefuse, AfterRefusal, TypeOK, Served, NoneHidden, Finished,
              Passes, ExtractLevel
<1>5. CASE WriteDone
  <2>1. \A s \in Sinks : s < at
    BY <1>5 DEF WriteDone, TypeOK
  <2>2. \A s \in Sinks : Passes(s, cur[1]) => cur[1] \in Range(sink[s])
    BY <1>5, <2>1 DEF WriteDone, Served
  <2>3. PICK e \in Entries : cur = <<e>>
    BY <1>5 DEF WriteDone, TypeOK
  <2> QED
    BY <1>5, <2>2, <2>3 DEF WriteDone, Served, NoneHidden, Finished, Passes, ExtractLevel
<1>6. CASE Rescue
  <2>1. PICK e \in Entries : cur = <<e>>
    BY <1>6 DEF Rescue, TypeOK
  <2>2. Range(fallback') = Range(fallback) \union {e}
    BY <1>6, <2>1, AppendEntry DEF Rescue, TypeOK
  <2> QED
    BY <1>6, <2>1, <2>2 DEF Rescue, Served, NoneHidden, Finished, Passes, ExtractLevel
<1>7. CASE Sync
  BY <1>7 DEF Sync, TypeOK, Served, NoneHidden, Finished, Passes, ExtractLevel
<1>8. ASSUME NEW r \in {"nil", "benign", "real"}, SyncSink(r) PROVE Served' /\ NoneHidden'
  BY <1>8 DEF SyncSink, Served, NoneHidden, Finished, Passes, ExtractLevel
<1>9. CASE SyncDone
  BY <1>9 DEF SyncDone, Served, NoneHidden, Finished, Passes, ExtractLevel
<1>10. CASE UNCHANGED vars
  BY <1>10 DEF vars, Served, NoneHidden, Finished, Passes, ExtractLevel
<1> QED
  BY <1>1, <1>2, <1>3, <1>4, <1>5, <1>6, <1>7, <1>8, <1>9, <1>10 DEF Next

LEMMA RescueStep ==
  TypeOK /\ Known /\ RescuedOnce /\ [Next]_vars => (Known /\ RescuedOnce)'
<1> SUFFICES ASSUME TypeOK, Known, RescuedOnce, [Next]_vars
             PROVE  Known' /\ RescuedOnce'
  OBVIOUS
<1>1. ASSUME NEW e \in Entries, Write(e) PROVE Known' /\ RescuedOnce'
  <2>1. Range(written') = Range(written) \union {e} /\ cur' = <<e>>
    BY <1>1, AppendEntry DEF Write, TypeOK
  <2>2. \A s \in Sinks : e \notin refused[s]
    BY <1>1 DEF Write, Known
  <2> QED
    BY <1>1, <2>1, <2>2 DEF Write, Known, RescuedOnce
<1>2. CASE WriteSkip
  BY <1>2 DEF WriteSkip, Known, RescuedOnce
<1>3. CASE WriteAccept
  BY <1>3 DEF WriteAccept, Known, RescuedOnce
<1>4. CASE WriteRefuse
  <2>1. /\ at \in Sinks /\ cur # <<>> /\ op = "write" /\ op' = "rescue"
        /\ refused' = [refused EXCEPT ![at] = refused[at] \union {cur[1]}]
        /\ UNCHANGED <<cur, fallback, writeErrors, written>>
    BY <1>4 DEF WriteRefuse, AfterRefusal, TypeOK
  <2>2. /\ refused'[at] = refused[at] \union {cur[1]}
        /\ \A s \in Sinks : s # at => refused'[s] = refused[s]
    BY <2>1 DEF TypeOK
  <2>3. Known'
    BY <2>1, <2>2 DEF Known
  <2>4. UNION {refused'[s] : s \in Sinks} = (UNION {refused[s] : s \in Sinks}) \union {cur[1]}
    BY <2>1, <2>2
  <2>5. \A s, t \in Sinks : s # t => refused'[s] \intersect refused'[t] = {}
    BY <2>1, <2>2 DEF Known, RescuedOnce
  <2> QED
    BY <2>1, <2>3, <2>4, <2>5 DEF RescuedOnce
<1>5. CASE WriteDone
  BY <1>5 DEF WriteDone, Known, RescuedOnce
<1>6. CASE Rescue
  <2>1. PICK e \in Entries : cur = <<e>>
    BY <1>6 DEF Rescue, TypeOK
  <2>2. Range(fallback') = Range(fallback) \union {e} /\ Len(fallback') = Len(fallback) + 1
    BY <1>6, <2>1, AppendEntry DEF Rescue, TypeOK
  <2>3. Known'
    BY <1>6 DEF Rescue, Known
  <2>4. RescuedOnce'
    BY <1>6, <2>1, <2>2 DEF Rescue, RescuedOnce
  <2> QED
    BY <2>3, <2>4
<1>7. CASE Sync
  BY <1>7 DEF Sync, Known, RescuedOnce
<1>8. ASSUME NEW r \in {"nil", "benign", "real"}, SyncSink(r) PROVE Known' /\ RescuedOnce'
  BY <1>8 DEF SyncSink, Known, RescuedOnce
<1>9. CASE SyncDone
  BY <1>9 DEF SyncDone, Known, RescuedOnce
<1>10. CASE UNCHANGED vars
  BY <1>10 DEF vars, Known, RescuedOnce
<1> QED
  BY <1>1, <1>2, <1>3, <1>4, <1>5, <1>6, <1>7, <1>8, <1>9, <1>10 DEF Next

(* A write forgets what was synced, and its result with it. *)
LEMMA SyncStep ==
  TypeOK /\ Synced /\ AllSynced /\ [Next]_vars => (Synced /\ AllSynced)'
<1> SUFFICES ASSUME TypeOK, Synced, AllSynced, [Next]_vars
             PROVE  Synced' /\ AllSynced'
  OBVIOUS
<1> USE SinkLength
<1>1. ASSUME NEW e \in Entries, Write(e) PROVE Synced' /\ AllSynced'
  BY <1>1 DEF Write, Synced, AllSynced
<1>2. CASE WriteSkip
  BY <1>2 DEF WriteSkip, Synced, AllSynced
<1>3. CASE WriteAccept
  BY <1>3 DEF WriteAccept, Synced, AllSynced
<1>4. CASE WriteRefuse
  BY <1>4 DEF WriteRefuse, AfterRefusal, Synced, AllSynced
<1>5. CASE WriteDone
  BY <1>5 DEF WriteDone, Synced, AllSynced
<1>6. CASE Rescue
  BY <1>6 DEF Rescue, Synced, AllSynced
<1>7. CASE Sync
  BY <1>7 DEF Sync, Synced, AllSynced
<1>8. ASSUME NEW r \in {"nil", "benign", "real"}, SyncSink(r) PROVE Synced' /\ AllSynced'
  BY <1>8 DEF SyncSink, AfterSyncError, TypeOK, Synced, AllSynced
<1>9. CASE SyncDone
  <2>1. \A s \in Sinks : s < at
    BY <1>9 DEF SyncDone, TypeOK
  <2> QED
    BY <1>9, <2>1 DEF SyncDone, Synced, AllSynced
<1>10. CASE UNCHANGED vars
  BY <1>10 DEF vars, Synced, AllSynced
<1> QED
  BY <1>1, <1>2, <1>3, <1>4, <1>5, <1>6, <1>7, <1>8, <1>9, <1>10 DEF Next

LEMMA SinkInvariant == Spec => []SinkInv
<1>1. Init => SinkInv
  BY SinkInvInit
<1>2. TypeOK /\ SinkInv /\ [Next]_vars => SinkInv'
  BY LossStep, RescueStep, SyncStep DEF SinkInv
<1> QED
  BY <1>1, <1>2, SinkTypes, PTL DEF Spec

(* Whichever sinks fail, no entry logged at a sink's level or above, as    *)
(* flat JSON, and none in a sink without a filter, is missing both from    *)
(* its sink and from the fallback (FanOutWriter.Write, writeEntry).        *)
THEOREM NothingLost == Spec => []NoSilentLoss
<1>1. ASSUME NEW e \in Entries, NEW s \in Sinks, Wanted(s, e) PROVE Passes(s, e)
  BY <1>1, SinkAssumption DEF Wanted, Passes, ExtractLevel, TRACE, INFO, FATAL
<1>2. SinkInv => NoSilentLoss
  BY <1>1 DEF SinkInv, NoneHidden, NoSilentLoss
<1> QED
  BY <1>2, SinkInvariant, PTL

(* The fallback has each refused entry, counted and written there once.    *)
THEOREM EachRescuedOnce == Spec => []RescuedOnce
<1>1. SinkInv => RescuedOnce
  BY DEF SinkInv
<1> QED
  BY <1>1, SinkInvariant, PTL

(* A Sync that has returned has reached every Syncer since the last write, *)
(* failures or not (FanOutWriter.Sync).                                    *)
THEOREM SyncReachesAll == Spec => []AllSynced
<1>1. SinkInv => AllSynced
  BY DEF SinkInv
<1> QED
  BY <1>1, SinkInvariant, PTL
====
