---- MODULE FormattingProofs ----
(***************************************************************************)
(* Encoded, for values of any bytes, however many, and any map of keys.    *)
(* A reader is followed along a line piece by piece: Reads says that it    *)
(* comes from one state to another along a piece, and pieces put together  *)
(* take it through both.  A loop is followed from the end back: what it    *)
(* puts together from a position on is given by what it does from later    *)
(* ones on.                                                                *)
(***************************************************************************)
EXTENDS Formatting, SequenceTheorems, FiniteSetTheorems, WellFoundedInduction, TLAPS

----
(* Induction over the naturals, in the form that has no operator for a     *)
(* parameter: what does not hold of all fails for a least one.             *)
LEMMA Least ==
  ASSUME NEW T, T \subseteq Nat, T # {}
  PROVE  \E x \in T : \A y \in T : x <= y
<1> DEFINE R == OpToRel(<, Nat)
<1>1. IsWellFoundedOn(R, Nat)
  BY NatLessThanWellFounded
<1>2. R = {ss \in Nat \X Nat : ss[1] < ss[2]}
  BY DEF OpToRel
<1> HIDE DEF R
<1>3. PICK x \in T : \A y \in T : ~ (<<y, x>> \in R)
  BY <1>1, WFMin
<1>4. ASSUME NEW y \in T PROVE x <= y
  <2>1. ~(y < x)
    BY <1>2, <1>3
  <2> QED
    BY <2>1
<1> QED
  BY <1>4

LEMMA MaxIs ==
  ASSUME NEW S, S \subseteq Nat, NEW m \in S, \A x \in S : x <= m
  PROVE  Max(S) = m
<1>1. \A x \in S : (\A y \in S : x >= y) => x = m
  OBVIOUS
<1>2. \A y \in S : m >= y
  OBVIOUS
<1> QED
  BY <1>1, <1>2 DEF Max

(* A set of naturals below a bound has a greatest.                         *)
LEMMA Greatest ==
  ASSUME NEW n \in Nat, NEW S, S \subseteq 1 .. n, S # {}
  PROVE  Max(S) \in S /\ \A x \in S : x <= Max(S)
<1> DEFINE T == {n - x : x \in S}
<1>1. PICK d \in T : \A e \in T : d <= e
  <2>1. T \subseteq Nat /\ T # {}
    OBVIOUS
  <2> HIDE DEF T
  <2> QED
    BY <2>1, Least
<1>2. PICK m \in S : d = n - m
  BY <1>1
<1>3. ASSUME NEW x \in S PROVE x <= m
  <2>1. d <= n - x
    BY <1>1
  <2> QED
    BY <1>2, <2>1
<1>4. S \subseteq Nat
  OBVIOUS
<1> QED
  BY <1>3, <1>4, MaxIs

----
(* The operator of two sequences under a name, which a step unfolds where  *)
(* it is about their elements.                                             *)
Cat(s, t) == s \o t

LEMMA CatTyped ==
  ASSUME NEW S, NEW s \in Seq(S), NEW t \in Seq(S)
  PROVE  Cat(s, t) \in Seq(S) /\ Cat(<<>>, s) = s /\ Cat(s, <<>>) = s
<1>1. <<>> \in Seq(S) /\ Len(<<>>) = 0
  BY EmptySeq
<1> QED
  BY <1>1, ConcatProperties DEF Cat

LEMMA CatAssociates ==
  ASSUME NEW S, NEW s \in Seq(S), NEW t \in Seq(S), NEW u \in Seq(S)
  PROVE  Cat(Cat(s, t), u) = Cat(s, Cat(t, u))
BY ConcatAssociative DEF Cat

(* FlattenSeq puts the sequences together from left to right.              *)
Flat(f, s, n) == f = [i \in 1 .. n |-> IF i = 1 THEN s[i] ELSE Cat(f[i - 1], s[i])]

LEMMA FlatExists == \A s : \A n \in Nat : \E f : Flat(f, s, n)
<1> SUFFICES ASSUME NEW s PROVE \A n \in Nat : \E f : Flat(f, s, n)
  OBVIOUS
<1> DEFINE T == {n \in Nat : ~ \E f : Flat(f, s, n)}
<1> SUFFICES ASSUME T # {} PROVE FALSE
  OBVIOUS
<1>1. PICK n \in T : \A m \in T : n <= m
  <2>1. T \subseteq Nat
    OBVIOUS
  <2> HIDE DEF T
  <2> QED
    BY <2>1, Least
<1>2. n # 0
  <2>1. Flat([i \in {} |-> <<>>], s, 0)
    BY DEF Flat
  <2> QED
    BY <2>1
<1>3. PICK f : Flat(f, s, n - 1)
  <2>1. n - 1 \in Nat /\ ~(n <= n - 1)
    BY <1>2
  <2> QED
    BY <1>1, <2>1
<1> DEFINE g == [i \in 1 .. n |-> IF i = n THEN (IF n = 1 THEN s[n] ELSE Cat(f[n - 1], s[n]))
                                 ELSE f[i]]
<1>4. ASSUME NEW i \in 1 .. n PROVE g[i] = IF i = 1 THEN s[i] ELSE Cat(g[i - 1], s[i])
  <2>1. \A j \in 1 .. (n - 1) : f[j] = IF j = 1 THEN s[j] ELSE Cat(f[j - 1], s[j])
    BY <1>3 DEF Flat
  <2>2. CASE i = n
    BY <1>2, <2>2
  <2>3. CASE i # n
    <3>1. i \in 1 .. (n - 1) /\ g[i] = f[i]
      BY <2>3
    <3>2. i # 1 => g[i - 1] = f[i - 1]
      BY <2>3
    <3> QED
      BY <2>1, <3>1, <3>2
  <2> QED
    BY <2>2, <2>3
<1>5. g = [i \in 1 .. n |-> IF i = 1 THEN s[i] ELSE Cat(g[i - 1], s[i])]
  BY <1>4
<1>6. Flat(g, s, n)
  <2> HIDE DEF g
  <2> QED
    BY <1>5, Zenon DEF Flat
<1> QED
  BY <1>6

LEMMA FlatAt ==
  ASSUME NEW s, NEW n \in Nat, NEW f, Flat(f, s, n), NEW i \in 1 .. n
  PROVE  f[i] = IF i = 1 THEN s[i] ELSE Cat(f[i - 1], s[i])
BY DEF Flat

LEMMA FlattenIs ==
  ASSUME NEW s, NEW n \in Nat, Len(s) = n
  PROVE  \E f : /\ Flat(f, s, n)
                /\ n = 0 => FlattenSeq(s) = s
                /\ n # 0 => FlattenSeq(s) = f[n]
<1> DEFINE f == CHOOSE f : Flat(f, s, n)
<1>1. Flat(f, s, n)
  <2>1. \E g : Flat(g, s, n)
    BY FlatExists
  <2> QED
    BY <2>1
<1>2. n # 0 => FlattenSeq(s) = f[n]
  BY Zenon DEF FlattenSeq, Flat, Cat
<1>3. n = 0 => FlattenSeq(s) = s
  BY DEF FlattenSeq
<1> HIDE DEF f
<1> QED
  BY <1>1, <1>2, <1>3

(* Induction up to a bound, and down from one.                             *)
LEMMA Upward ==
  ASSUME NEW n \in Nat, NEW G, 0 \in G, \A i \in 1 .. n : i - 1 \in G => i \in G
  PROVE  \A i \in 0 .. n : i \in G
<1> DEFINE T == {i \in 0 .. n : i \notin G}
<1> SUFFICES ASSUME T # {} PROVE FALSE
  OBVIOUS
<1>1. PICK i \in T : \A j \in T : i <= j
  <2>1. T \subseteq Nat
    OBVIOUS
  <2> HIDE DEF T
  <2> QED
    BY <2>1, Least
<1>2. i \in 1 .. n /\ i - 1 \in 0 .. n /\ ~(i <= i - 1)
  OBVIOUS
<1> QED
  BY <1>1, <1>2

LEMMA Downward ==
  ASSUME NEW n \in Nat, NEW G, \A i \in 1 .. n : (\A j \in 1 .. n : j > i => j \in G) => i \in G
  PROVE  \A i \in 1 .. n : i \in G
<1> DEFINE T == {i \in 1 .. n : i \notin G}
<1> SUFFICES ASSUME T # {} PROVE FALSE
  OBVIOUS
<1>1. PICK m \in T : \A x \in T : x <= m
  <2>1. T \subseteq 1 .. n
    OBVIOUS
  <2> HIDE DEF T
  <2> QED
    BY <2>1, Greatest
<1>2. \A j \in 1 .. n : j > m => j \in G
  <2> TAKE j \in 1 .. n
  <2>1. j \in T => j <= m
    BY <1>1
  <2> QED
    BY <2>1
<1> QED
  BY <1>2

LEMMA NoneOf == ASSUME NEW S, NEW s \in Seq(S), Len(s) = 0 PROVE s = <<>>
BY EmptySeq

(* The results along the way, from nothing to the whole.                   *)
LEMMA FlatFront ==
  ASSUME NEW S, NEW ss \in Seq(Seq(S))
  PROVE  \E p : /\ p[0] = <<>> /\ p[Len(ss)] = FlattenSeq(ss)
                /\ \A i \in 1 .. Len(ss) : p[i] = Cat(p[i - 1], ss[i])
                /\ \A i \in 0 .. Len(ss) : p[i] \in Seq(S)
<1>1. PICK n \in Nat : n = Len(ss)
  OBVIOUS
<1>2. PICK f : Flat(f, ss, n) /\ (n = 0 => FlattenSeq(ss) = ss) /\ (n # 0 => FlattenSeq(ss) = f[n])
  BY <1>1, FlattenIs
<1>3. \A i \in 1 .. n : ss[i] \in Seq(S)
  BY <1>1
<1> DEFINE q == [i \in 0 .. n |-> IF i = 0 THEN <<>> ELSE f[i]]
           P(i) == q[i] \in Seq(S) /\ (i # 0 => q[i] = Cat(q[i - 1], ss[i]))
           G == {i \in 0 .. n : P(i)}
<1>4. q[0] = <<>> /\ \A i \in 1 .. n : q[i] = f[i] /\ (i # 1 => q[i - 1] = f[i - 1])
  OBVIOUS
<1> HIDE DEF q
<1>5. P(0)
  BY <1>4, EmptySeq
<1>6. ASSUME NEW i \in 1 .. n, P(i - 1) PROVE P(i)
  <2>1. f[i] = IF i = 1 THEN ss[i] ELSE Cat(f[i - 1], ss[i])
    BY <1>2, FlatAt
  <2>2. q[i] = Cat(q[i - 1], ss[i])
    <3>1. CASE i = 1
      <4>1. Cat(<<>>, ss[i]) = ss[i]
        BY <1>3, CatTyped
      <4> QED
        BY <1>4, <2>1, <3>1, <4>1
    <3>2. CASE i # 1
      BY <1>4, <2>1, <3>2
    <3> QED
      BY <3>1, <3>2
  <2>3. Cat(q[i - 1], ss[i]) \in Seq(S)
    BY <1>3, <1>6, CatTyped
  <2> QED
    BY <2>2, <2>3
<1>7. \A i \in 0 .. n : P(i)
  <2> HIDE DEF P
  <2>1. 0 \in G /\ \A i \in 1 .. n : i - 1 \in G => i \in G
    BY <1>5, <1>6
  <2>2. \A i \in 0 .. n : i \in G
    <3> HIDE DEF G
    <3> QED
      BY <2>1, Upward
  <2> QED
    BY <2>2
<1>8. q[n] = FlattenSeq(ss)
  <2>1. CASE n = 0
    BY <1>1, <1>2, <1>4, <2>1, NoneOf
  <2>2. CASE n # 0
    BY <1>2, <1>4, <2>2
  <2> QED
    BY <2>1, <2>2
<1>9. /\ q[0] = <<>> /\ q[Len(ss)] = FlattenSeq(ss)
      /\ \A i \in 1 .. Len(ss) : q[i] = Cat(q[i - 1], ss[i])
      /\ \A i \in 0 .. Len(ss) : q[i] \in Seq(S)
  BY <1>1, <1>4, <1>7, <1>8
<1> QED
  BY <1>9

----
(* Walk, from the end back: its value from a position on is given by those *)
(* from later positions on.                                                *)
Walks(f, c, nx, n) == f = [i \in Nat \ {0} |-> IF i > n THEN <<>> ELSE Cat(c[i], f[nx[i]])]

WalksFrom(f, c, nx, n, k) ==
  /\ f = [i \in Nat \ {0} |-> f[i]]
  /\ \A i \in Nat \ {0} : i >= k => f[i] = IF i > n THEN <<>> ELSE Cat(c[i], f[nx[i]])

LEMMA WalksBack ==
  ASSUME NEW c, NEW nx, NEW n \in Nat, NEW k \in 1 .. n, nx[k] \in Nat, nx[k] > k,
         \A i \in 1 .. n : nx[i] \in Nat /\ nx[i] > i,
         NEW f, WalksFrom(f, c, nx, n, k + 1)
  PROVE  \E g : WalksFrom(g, c, nx, n, k)
<1> DEFINE g == [i \in Nat \ {0} |-> IF i = k THEN Cat(c[k], f[nx[k]]) ELSE f[i]]
<1>1. g[k] = Cat(c[k], f[nx[k]]) /\ \A i \in Nat \ {0} : i # k => g[i] = f[i]
  OBVIOUS
<1>2. g = [i \in Nat \ {0} |-> g[i]]
  OBVIOUS
<1> HIDE DEF g
<1>3. ASSUME NEW i \in Nat \ {0}, i >= k
      PROVE  g[i] = IF i > n THEN <<>> ELSE Cat(c[i], g[nx[i]])
  <2>1. i <= n => g[nx[i]] = f[nx[i]]
    BY <1>1, <1>3
  <2>2. CASE i = k
    BY <1>1, <2>1, <2>2
  <2>3. CASE i # k
    <3>1. f[i] = IF i > n THEN <<>> ELSE Cat(c[i], f[nx[i]])
      BY <1>3, <2>3 DEF WalksFrom
    <3> QED
      BY <1>1, <2>1, <2>3, <3>1
  <2> QED
    BY <2>2, <2>3
<1> QED
  BY <1>2, <1>3 DEF WalksFrom

LEMMA WalkExists ==
  ASSUME NEW c, NEW nx, NEW n \in Nat, \A i \in 1 .. n : nx[i] \in Nat /\ nx[i] > i
  PROVE  \E f : Walks(f, c, nx, n)
<1> DEFINE G == {k \in 0 .. n : \E f : WalksFrom(f, c, nx, n, n + 1 - k)}
<1>1. 0 \in G
  <2> DEFINE g == [i \in Nat \ {0} |-> <<>>]
  <2>1. g = [i \in Nat \ {0} |-> g[i]] /\ \A i \in Nat \ {0} : g[i] = <<>>
    OBVIOUS
  <2> HIDE DEF g
  <2>2. WalksFrom(g, c, nx, n, n + 1 - 0)
    BY <2>1 DEF WalksFrom
  <2> QED
    BY <2>2
<1>2. ASSUME NEW i \in 1 .. n, i - 1 \in G PROVE i \in G
  <2>1. PICK f : WalksFrom(f, c, nx, n, n + 1 - (i - 1))
    BY <1>2
  <2>2. PICK k \in 1 .. n : k = n + 1 - i /\ k + 1 = n + 1 - (i - 1)
    OBVIOUS
  <2>3. \E g : WalksFrom(g, c, nx, n, k)
    BY <2>1, <2>2, WalksBack
  <2> QED
    BY <2>2, <2>3
<1>3. n \in G
  <2>1. n \in 0 .. n
    OBVIOUS
  <2> HIDE DEF G
  <2> QED
    BY <1>1, <1>2, <2>1, Upward
<1>4. PICK f : WalksFrom(f, c, nx, n, n + 1 - n)
  BY <1>3
<1>5. ASSUME NEW i \in Nat \ {0} PROVE f[i] = IF i > n THEN <<>> ELSE Cat(c[i], f[nx[i]])
  <2>1. i >= n + 1 - n
    OBVIOUS
  <2> QED
    BY <1>4, <2>1 DEF WalksFrom
<1>6. f = [i \in Nat \ {0} |-> f[i]]
  BY <1>4 DEF WalksFrom
<1>7. f = [i \in Nat \ {0} |-> IF i > n THEN <<>> ELSE Cat(c[i], f[nx[i]])]
  BY <1>5, <1>6
<1> QED
  BY <1>7, Zenon DEF Walks

LEMMA WalkAt ==
  ASSUME NEW c, NEW nx, NEW n \in Nat, NEW f, Walks(f, c, nx, n), NEW i \in Nat \ {0}
  PROVE  (i > n => f[i] = <<>>) /\ (i <= n => f[i] = Cat(c[i], f[nx[i]]))
<1>1. f[i] = IF i > n THEN <<>> ELSE Cat(c[i], f[nx[i]])
  BY DEF Walks
<1> QED
  BY <1>1

LEMMA WalkEnd ==
  ASSUME NEW c, NEW nx, NEW n \in Nat, NEW f, Walks(f, c, nx, n)
  PROVE  \A i \in Nat \ {0} : i > n => f[i] = <<>>
<1>1. ASSUME NEW i \in Nat \ {0}, i > n PROVE f[i] = <<>>
  BY <1>1 DEF Walks
<1> QED
  BY <1>1

LEMMA WalkTyped ==
  ASSUME NEW S, NEW c, NEW nx, NEW n \in Nat, NEW f, Walks(f, c, nx, n),
         \A i \in 1 .. n : c[i] \in Seq(S) /\ nx[i] \in Nat /\ nx[i] > i
  PROVE  \A i \in Nat \ {0} : f[i] \in Seq(S)
<1>1. ASSUME NEW i \in Nat \ {0}, i > n PROVE f[i] \in Seq(S)
  <2>1. f[i] = <<>>
    BY <1>1, WalkAt
  <2> QED
    BY <2>1, EmptySeq
<1> DEFINE G == {i \in Nat \ {0} : f[i] \in Seq(S)}
<1>2. ASSUME NEW i \in 1 .. n, \A j \in 1 .. n : j > i => j \in G
      PROVE  i \in G
  <2>1. i \in Nat \ {0} /\ i <= n /\ nx[i] \in Nat /\ nx[i] > i
    OBVIOUS
  <2>2. f[i] = Cat(c[i], f[nx[i]])
    BY <2>1, WalkAt
  <2>3. f[nx[i]] \in Seq(S)
    BY <1>1, <1>2, <2>1
  <2>4. Cat(c[i], f[nx[i]]) \in Seq(S)
    BY <2>3, CatTyped
  <2> QED
    BY <2>1, <2>2, <2>4
<1>3. \A i \in 1 .. n : i \in G
  <2> HIDE DEF G
  <2> QED
    BY <1>2, Downward
<1> QED
  BY <1>1, <1>3

(* FlattenSeq from the end back.                                           *)
LEMMA FlatBack ==
  ASSUME NEW S, NEW ss \in Seq(Seq(S))
  PROVE  \E r : /\ r[1] = FlattenSeq(ss)
                /\ \A i \in Nat \ {0} : i > Len(ss) => r[i] = <<>>
                /\ \A i \in 1 .. Len(ss) : r[i] = Cat(ss[i], r[i + 1])
                /\ \A i \in Nat \ {0} : r[i] \in Seq(S)
<1>1. PICK n \in Nat : n = Len(ss)
  OBVIOUS
<1> DEFINE nx == [i \in 1 .. n |-> i + 1]
<1>2. \A i \in 1 .. n : nx[i] \in Nat /\ nx[i] > i /\ nx[i] = i + 1 /\ ss[i] \in Seq(S)
  BY <1>1
<1> HIDE DEF nx
<1>3. PICK r : Walks(r, ss, nx, n)
  BY <1>2, WalkExists
<1>4. \A i \in Nat \ {0} : r[i] \in Seq(S)
  BY <1>2, <1>3, WalkTyped
<1>5. \A i \in 1 .. n : r[i] = Cat(ss[i], r[i + 1])
  <2> TAKE i \in 1 .. n
  <2>1. i \in Nat \ {0} /\ i <= n
    OBVIOUS
  <2>2. r[i] = Cat(ss[i], r[nx[i]])
    BY <1>3, <2>1, WalkAt
  <2> QED
    BY <1>2, <2>2
<1>6. \A i \in Nat \ {0} : i > n => r[i] = <<>>
  BY <1>3, WalkEnd
<1>7. PICK p : /\ p[0] = <<>> /\ p[n] = FlattenSeq(ss)
               /\ \A i \in 1 .. n : p[i] = Cat(p[i - 1], ss[i])
               /\ \A i \in 0 .. n : p[i] \in Seq(S)
  BY <1>1, FlatFront
<1> DEFINE G == {i \in 0 .. n : Cat(p[i], r[i + 1]) = r[1]}
<1>8. 0 \in G
  <2>1. Cat(<<>>, r[1]) = r[1]
    BY <1>4, CatTyped
  <2> QED
    BY <1>7, <2>1
<1>9. ASSUME NEW i \in 1 .. n, i - 1 \in G PROVE i \in G
  <2>1. Cat(p[i - 1], r[i]) = r[1]
    BY <1>9
  <2>2. p[i - 1] \in Seq(S) /\ ss[i] \in Seq(S) /\ r[i + 1] \in Seq(S)
    BY <1>2, <1>4, <1>7
  <2> HIDE DEF G
  <2>3. Cat(Cat(p[i - 1], ss[i]), r[i + 1]) = Cat(p[i - 1], Cat(ss[i], r[i + 1]))
    BY <2>2, CatAssociates
  <2>4. Cat(p[i], r[i + 1]) = r[1]
    BY <1>5, <1>7, <2>1, <2>3
  <2> QED
    BY <2>4 DEF G
<1>10. \A i \in 0 .. n : i \in G
  <2> HIDE DEF G
  <2> QED
    BY <1>8, <1>9, Upward
<1>11. r[1] = FlattenSeq(ss)
  <2>1. Cat(p[n], r[n + 1]) = r[1]
    BY <1>10
  <2>2. Cat(p[n], <<>>) = p[n]
    BY <1>7, CatTyped
  <2> QED
    BY <1>6, <1>7, <2>1, <2>2
<1>12. /\ r[1] = FlattenSeq(ss)
       /\ \A i \in Nat \ {0} : i > Len(ss) => r[i] = <<>>
       /\ \A i \in 1 .. Len(ss) : r[i] = Cat(ss[i], r[i + 1])
       /\ \A i \in Nat \ {0} : r[i] \in Seq(S)
  BY <1>1, <1>4, <1>5, <1>6, <1>11
<1> QED
  BY <1>12

----
(* A reader goes from a state over some bytes to another.                  *)
StepOf(kind, st, b) == IF kind = "json" THEN JSONStep(st, b) ELSE LogfmtStep(st, b)

Path(c, kind, p, line, q) ==
  /\ c[0] = p /\ c[Len(line)] = q
  /\ \A i \in 1 .. Len(line) : c[i] = StepOf(kind, c[i - 1], line[i])

Reads(kind, p, line, q) == \E c : Path(c, kind, p, line, q)

LEMMA CatAt ==
  ASSUME NEW S, NEW s \in Seq(S), NEW t \in Seq(S)
  PROVE  /\ Len(Cat(s, t)) = Len(s) + Len(t)
         /\ \A i \in 1 .. Len(s) : Cat(s, t)[i] = s[i]
         /\ \A i \in 1 .. Len(t) : Cat(s, t)[Len(s) + i] = t[i]
<1>1. Len(s) \in Nat /\ Len(t) \in Nat
  BY LenProperties
<1> QED
  BY <1>1, ConcatProperties DEF Cat

LEMMA ReadsNone == ASSUME NEW kind, NEW p PROVE Reads(kind, p, <<>>, p)
<1> DEFINE c == [i \in {0} |-> p]
<1>1. c[0] = p /\ Len(<<>>) = 0
  OBVIOUS
<1> HIDE DEF c
<1>2. Path(c, kind, p, <<>>, p)
  BY <1>1 DEF Path
<1> QED
  BY <1>2 DEF Reads

LEMMA ReadsOne == ASSUME NEW kind, NEW p, NEW b PROVE Reads(kind, p, <<b>>, StepOf(kind, p, b))
<1> DEFINE c == [i \in 0 .. 1 |-> IF i = 0 THEN p ELSE StepOf(kind, p, b)]
<1>1. c[0] = p /\ c[1] = StepOf(kind, p, b) /\ Len(<<b>>) = 1 /\ <<b>>[1] = b
  OBVIOUS
<1> HIDE DEF c
<1>2. \A i \in 1 .. 1 : i = 1 /\ i - 1 = 0
  OBVIOUS
<1>3. Path(c, kind, p, <<b>>, StepOf(kind, p, b))
  BY <1>1, <1>2 DEF Path
<1> QED
  BY <1>3 DEF Reads

LEMMA ReadsOn ==
  ASSUME NEW S, NEW s \in Seq(S), NEW t \in Seq(S), NEW kind, NEW p, NEW q, NEW r,
         Reads(kind, p, s, q), Reads(kind, q, t, r)
  PROVE  Reads(kind, p, Cat(s, t), r)
<1>1. PICK c : Path(c, kind, p, s, q)
  BY DEF Reads
<1>2. PICK d : Path(d, kind, q, t, r)
  BY DEF Reads
<1>3. PICK m \in Nat, n \in Nat : m = Len(s) /\ n = Len(t)
  BY LenProperties
<1>4. /\ Len(Cat(s, t)) = m + n
      /\ \A i \in 1 .. m : Cat(s, t)[i] = s[i]
      /\ \A i \in 1 .. n : Cat(s, t)[m + i] = t[i]
  BY <1>3, CatAt
<1> DEFINE e == [i \in 0 .. m + n |-> IF i <= m THEN c[i] ELSE d[i - m]]
<1>5. \A i \in 0 .. m : e[i] = c[i]
  OBVIOUS
<1>6. \A i \in 1 .. n : e[m + i] = d[i]
  OBVIOUS
<1> HIDE DEF e
<1>7. e[m] = d[0]
  BY <1>1, <1>2, <1>3, <1>5 DEF Path
<1>8. e[0] = p /\ e[m + n] = r
  <2>1. CASE n = 0
    BY <1>1, <1>2, <1>3, <1>5, <1>7, <2>1 DEF Path
  <2>2. CASE n # 0
    BY <1>1, <1>2, <1>3, <1>5, <1>6, <2>2 DEF Path
  <2> QED
    BY <2>1, <2>2
<1>9. ASSUME NEW i \in 1 .. (m + n) PROVE e[i] = StepOf(kind, e[i - 1], Cat(s, t)[i])
  <2>1. CASE i <= m
    <3>1. i \in 1 .. m /\ i - 1 \in 0 .. m /\ i \in 0 .. m
      BY <2>1
    <3>2. c[i] = StepOf(kind, c[i - 1], s[i])
      BY <1>1, <1>3, <3>1 DEF Path
    <3> QED
      BY <1>4, <1>5, <3>1, <3>2
  <2>2. CASE i > m
    <3>1. PICK j \in 1 .. n : i = m + j
      <4>1. i - m \in 1 .. n /\ i = m + (i - m)
        BY <2>2
      <4> QED
        BY <4>1
    <3>2. d[j] = StepOf(kind, d[j - 1], t[j])
      BY <1>2, <1>3, <3>1 DEF Path
    <3>3. e[i - 1] = d[j - 1]
      <4>1. CASE j = 1
        BY <1>7, <3>1, <4>1
      <4>2. CASE j # 1
        <5>1. j - 1 \in 1 .. n /\ i - 1 = m + (j - 1)
          BY <3>1, <4>2
        <5> QED
          BY <1>6, <5>1
      <4> QED
        BY <4>1, <4>2
    <3> QED
      BY <1>4, <1>6, <3>1, <3>2, <3>3
  <2> QED
    BY <2>1, <2>2
<1>10. Path(e, kind, p, Cat(s, t), r)
  BY <1>4, <1>8, <1>9 DEF Path
<1> QED
  BY <1>10 DEF Reads

LEMMA ReadsSame ==
  ASSUME NEW S, NEW s \in Seq(S), NEW kind, NEW p, NEW q, NEW r,
         Reads(kind, p, s, q), Reads(kind, p, s, r)
  PROVE  q = r
<1>1. PICK c : Path(c, kind, p, s, q)
  BY DEF Reads
<1>2. PICK d : Path(d, kind, p, s, r)
  BY DEF Reads
<1>3. PICK n \in Nat : n = Len(s)
  BY LenProperties
<1> DEFINE G == {i \in 0 .. n : c[i] = d[i]}
<1>4. 0 \in G
  BY <1>1, <1>2 DEF Path
<1>5. ASSUME NEW i \in 1 .. n, i - 1 \in G PROVE i \in G
  <2>1. c[i - 1] = d[i - 1]
    BY <1>5
  <2>2. c[i] = StepOf(kind, c[i - 1], s[i]) /\ d[i] = StepOf(kind, d[i - 1], s[i])
    BY <1>1, <1>2, <1>3 DEF Path
  <2> QED
    BY <2>1, <2>2
<1>6. n \in G
  <2>1. n \in 0 .. n
    OBVIOUS
  <2> HIDE DEF G
  <2> QED
    BY <1>4, <1>5, <2>1, Upward
<1> QED
  BY <1>1, <1>2, <1>3, <1>6 DEF Path

(* The readers of a line are the folds of their steps over it.             *)
Iter(f, kind, base, line, n) ==
  f = [s \in SUBSET (1 .. n) |->
         IF s = {} THEN base ELSE StepOf(kind, f[s \ {Max(s)}], line[Max(s)])]

LEMMA IterExists == \A kind, base, line : \A n \in Nat : \E f : Iter(f, kind, base, line, n)
<1> SUFFICES ASSUME NEW kind, NEW base, NEW line PROVE \A n \in Nat : \E f : Iter(f, kind, base, line, n)
  OBVIOUS
<1> DEFINE step(f, s) == StepOf(kind, f, line[s])
           T == {n \in Nat : ~ \E f : Iter(f, kind, base, line, n)}
<1> SUFFICES ASSUME T # {} PROVE FALSE
  OBVIOUS
<1>1. PICK n \in T : \A m \in T : n <= m
  <2> HIDE DEF T
  <2>1. T \subseteq Nat
    BY DEF T
  <2> QED
    BY <2>1, Least
<1>2. n # 0
  <2>1. SUBSET (1 .. 0) = {{}}
    OBVIOUS
  <2>2. Iter([s \in {{}} |-> base], kind, base, line, 0)
    BY <2>1 DEF Iter
  <2> QED
    BY <2>2
<1>3. PICK f : Iter(f, kind, base, line, n - 1)
  <2>1. n - 1 \in Nat /\ ~(n <= n - 1)
    BY <1>2
  <2> QED
    BY <1>1, <2>1
<1> HIDE DEF step
<1> DEFINE g == [s \in SUBSET (1 .. n) |-> IF n \in s THEN step(f[s \ {n}], n) ELSE f[s]]
<1>4. ASSUME NEW s \in SUBSET (1 .. n)
      PROVE  g[s] = IF s = {} THEN base ELSE step(g[s \ {Max(s)}], Max(s))
  <2>1. \A t \in SUBSET (1 .. n - 1) :
          f[t] = IF t = {} THEN base ELSE step(f[t \ {Max(t)}], Max(t))
    BY <1>3 DEF Iter, step
  <2>2. CASE n \in s
    <3>1. Max(s) = n
      <4>1. s \subseteq Nat /\ n \in s /\ \A x \in s : x <= n
        BY <2>2
      <4> QED
        BY <4>1, MaxIs
    <3>2. g[s \ {n}] = f[s \ {n}]
      OBVIOUS
    <3> QED
      BY <2>2, <3>1, <3>2
  <2>3. CASE n \notin s
    <3>1. s \in SUBSET (1 .. n - 1)
      BY <2>3
    <3>2. g[s] = f[s] /\ g[s \ {Max(s)}] = f[s \ {Max(s)}]
      BY <2>3
    <3> HIDE DEF g
    <3> QED
      BY <2>1, <3>1, <3>2
  <2> QED
    BY <2>2, <2>3
<1>5. g = [s \in SUBSET (1 .. n) |-> IF s = {} THEN base ELSE step(g[s \ {Max(s)}], Max(s))]
  BY <1>4
<1>6. Iter(g, kind, base, line, n)
  <2> HIDE DEF g
  <2> QED
    BY <1>5, Zenon DEF Iter, step
<1> QED
  BY <1>6

LEMMA IterReads ==
  ASSUME NEW S, NEW line \in Seq(S), NEW kind, NEW base, NEW n \in Nat, n = Len(line),
         NEW f, Iter(f, kind, base, line, n)
  PROVE  Reads(kind, base, line, f[1 .. n])
<1> DEFINE c == [i \in 0 .. n |-> f[1 .. i]]
<1>1. f[1 .. 0] = base
  <2>1. 1 .. 0 = {} /\ {} \in SUBSET (1 .. n)
    OBVIOUS
  <2> QED
    BY <2>1 DEF Iter
<1>2. ASSUME NEW i \in 1 .. n PROVE f[1 .. i] = StepOf(kind, f[1 .. (i - 1)], line[i])
  <2>1. 1 .. i \in SUBSET (1 .. n) /\ 1 .. i # {} /\ (1 .. i) \ {i} = 1 .. (i - 1)
    OBVIOUS
  <2>2. Max(1 .. i) = i
    <3>1. 1 .. i \subseteq Nat /\ i \in 1 .. i /\ \A x \in 1 .. i : x <= i
      OBVIOUS
    <3> QED
      BY <3>1, MaxIs
  <2>3. f[1 .. i] = StepOf(kind, f[(1 .. i) \ {Max(1 .. i)}], line[Max(1 .. i)])
    BY <2>1 DEF Iter
  <2> QED
    BY <2>1, <2>2, <2>3
<1>3. \A i \in 0 .. n : c[i] = f[1 .. i]
  OBVIOUS
<1> HIDE DEF c
<1>4. c[0] = base /\ c[n] = f[1 .. n] /\ \A i \in 1 .. n : c[i] = StepOf(kind, c[i - 1], line[i])
  BY <1>1, <1>2, <1>3
<1>5. Path(c, kind, base, line, f[1 .. n])
  BY <1>4 DEF Path
<1> QED
  BY <1>5 DEF Reads

JSONFirst == Outside(<<>>, <<>>)
LogfmtFirst == Reading("key", <<>>, <<>>, <<>>)

IterJSON(f, line, n) ==
  f = [s \in SUBSET (1 .. n) |->
         IF s = {} THEN JSONFirst ELSE JSONStep(f[s \ {Max(s)}], line[Max(s)])]

LEMMA JSONReads ==
  ASSUME NEW S, NEW line \in Seq(S)
  PROVE  Reads("json", JSONFirst, line, ReadJSON(line))
<1>1. PICK n \in Nat : n = Len(line) /\ DOMAIN line = 1 .. n
  BY LenProperties
<1> DEFINE f == CHOOSE f : IterJSON(f, line, n)
<1>2. \A g : IterJSON(g, line, n) <=> Iter(g, "json", JSONFirst, line, n)
  BY DEF IterJSON, Iter, StepOf
<1>3. IterJSON(f, line, n)
  <2>1. \E g : Iter(g, "json", JSONFirst, line, n)
    BY IterExists
  <2> QED
    BY <1>2, <2>1
<1>4. ReadJSON(line) = f[1 .. n]
  BY <1>1, Zenon DEF ReadJSON, JSONFirst, IterJSON, FoldLeft, MapThenFoldSet
<1> HIDE DEF f
<1> QED
  BY <1>1, <1>2, <1>3, <1>4, IterReads

IterLogfmt(f, line, n) ==
  f = [s \in SUBSET (1 .. n) |->
         IF s = {} THEN LogfmtFirst ELSE LogfmtStep(f[s \ {Max(s)}], line[Max(s)])]

LogfmtLast(line) == FoldLeft(LogfmtStep, LogfmtFirst, line)

LEMMA LogfmtReads ==
  ASSUME NEW S, NEW line \in Seq(S)
  PROVE  Reads("logfmt", LogfmtFirst, line, LogfmtLast(line))
<1>1. PICK n \in Nat : n = Len(line) /\ DOMAIN line = 1 .. n
  BY LenProperties
<1> DEFINE f == CHOOSE f : IterLogfmt(f, line, n)
<1>2. \A g : IterLogfmt(g, line, n) <=> Iter(g, "logfmt", LogfmtFirst, line, n)
  BY DEF IterLogfmt, Iter, StepOf
<1>3. IterLogfmt(f, line, n)
  <2>1. \E g : Iter(g, "logfmt", LogfmtFirst, line, n)
    BY IterExists
  <2> QED
    BY <1>2, <2>1
<1>4. LogfmtLast(line) = f[1 .. n]
  BY <1>1, Zenon DEF LogfmtLast, LogfmtFirst, IterLogfmt, FoldLeft, MapThenFoldSet
<1> HIDE DEF f
<1> QED
  BY <1>1, <1>2, <1>3, <1>4, IterReads

----
(* Each rank is that of one key, so that sorting lists keys and no other.  *)
Ranked(keys, i) == \E k \in keys : Cardinality({j \in keys : j < k}) = i - 1

LEMMA RankExists ==
  ASSUME NEW n \in Nat
  PROVE  \A keys \in SUBSET Nat :
           IsFiniteSet(keys) /\ Cardinality(keys) = n => \A i \in 1 .. n : Ranked(keys, i)
<1> DEFINE P(c) == \A keys \in SUBSET Nat :
                     IsFiniteSet(keys) /\ Cardinality(keys) = c => \A i \in 1 .. c : Ranked(keys, i)
           G == {c \in 0 .. n : P(c)}
<1>1. 0 \in G
  OBVIOUS
<1>2. ASSUME NEW c \in 1 .. n, c - 1 \in G PROVE c \in G
  <2>1. P(c - 1)
    BY <1>2
  <2>2. ASSUME NEW keys \in SUBSET Nat, IsFiniteSet(keys), Cardinality(keys) = c, NEW i \in 1 .. c
        PROVE  Ranked(keys, i)
    <3>1. PICK m \in keys : \A x \in keys : m <= x
      <4>1. keys # {}
        BY <2>2, FS_EmptySet
      <4> QED
        BY <4>1, Least
    <3> DEFINE others == keys \ {m}
    <3>2. IsFiniteSet(others) /\ Cardinality(others) = c - 1
      BY <2>2, FS_RemoveElement
    <3>3. CASE i = 1
      <4>1. {j \in keys : j < m} = {}
        <5>1. \A x \in keys : x \in Nat /\ m \in Nat /\ m <= x
          BY <3>1
        <5>2. \A x \in keys : ~(x < m)
          BY <5>1
        <5> QED
          BY <5>2
      <4>2. Cardinality({j \in keys : j < m}) = i - 1
        BY <3>3, <4>1, FS_EmptySet
      <4> QED
        BY <4>2 DEF Ranked
    <3>4. CASE i # 1
      <4>1. i - 1 \in 1 .. (c - 1) /\ others \in SUBSET Nat
        BY <3>4
      <4>2. Ranked(others, i - 1)
        BY <2>1, <3>2, <4>1
      <4>3. PICK k \in others : Cardinality({j \in others : j < k}) = i - 1 - 1
        BY <4>2 DEF Ranked
      <4> DEFINE below == {j \in others : j < k}
      <4>4. {j \in keys : j < k} = below \union {m} /\ m \notin below
        BY <3>1
      <4>5. IsFiniteSet(below)
        BY <3>2, FS_Subset
      <4>6. Cardinality({j \in keys : j < k}) = i - 1
        <5> HIDE DEF below
        <5>1. Cardinality(below \union {m}) = Cardinality(below) + 1
          BY <4>4, <4>5, FS_AddElement
        <5>2. Cardinality(below) = i - 1 - 1
          BY <4>3 DEF below
        <5> QED
          BY <4>4, <5>1, <5>2
      <4> QED
        BY <4>6 DEF Ranked
    <3> QED
      BY <3>3, <3>4
  <2> QED
    BY <2>2
<1>3. n \in G
  <2>1. n \in 0 .. n
    OBVIOUS
  <2> HIDE DEF G
  <2> QED
    BY <1>1, <1>2, <2>1, Upward
<1> QED
  BY <1>3

LEMMA SortedKeys ==
  ASSUME NEW keys, keys \subseteq Nat, IsFiniteSet(keys)
  PROVE  Sorted(keys) \in Seq(keys)
<1>1. PICK n \in Nat : n = Cardinality(keys)
  BY FS_CardinalityType
<1> DEFINE e(i) == CHOOSE k \in keys : Cardinality({j \in keys : j < k}) = i - 1
<1>2. ASSUME NEW i \in 1 .. n PROVE e(i) \in keys
  BY <1>1, RankExists DEF Ranked
<1>3. [i \in 1 .. n |-> e(i)] \in Seq(keys)
  <2> HIDE DEF e
  <2> QED
    BY <1>2, IsASeq
<1> QED
  BY <1>1, <1>3, Zenon DEF Sorted

----
(* Characters as bytes.                                                    *)
LEMMA CharIs ==
  /\ Char.tab = 9 /\ Char.nl = 10 /\ Char.cr = 13 /\ Char.esc = 27 /\ Char.space = 32
  /\ Char.quote = 34 /\ Char.comma = 44 /\ Char.colon = 58 /\ Char.equals = 61
  /\ Char.bracket = 91 /\ Char.backslash = 92 /\ Char.closing = 93
  /\ Char.n = 110 /\ Char.r = 114 /\ Char.t = 116 /\ Char.u = 117
  /\ Char.brace = 123 /\ Char.unbrace = 125
BY DEF Char

Byte == 0 .. 255

RuneLike(s, i, n) ==
  /\ s[i] >= 194 /\ i + n - 1 <= Len(s)
  /\ \A j \in i + 1 .. i + n - 1 : s[j] \in 128 .. 191

LEMMA RuneIsLike ==
  ASSUME NEW s, NEW i \in Nat, NEW n \in 2 .. 4, NEW first, NEW second,
         \A x \in first : x \in 194 .. 244, \A x \in second : x \in 128 .. 191,
         Rune(s, i, n, first, second)
  PROVE  RuneLike(s, i, n)
<1>1. s[i] \in first /\ i + n - 1 <= Len(s) /\ s[i + 1] \in second
  BY DEF Rune
<1>2. s[i] \in 194 .. 244 /\ s[i + 1] \in 128 .. 191
  <2>1. \A x \in first : x \in 194 .. 244
    OBVIOUS
  <2>2. \A x \in second : x \in 128 .. 191
    OBVIOUS
  <2> QED
    BY <1>1, <2>1, <2>2
<1>3. \A j \in i + 2 .. i + n - 1 : s[j] \in 128 .. 191
  BY DEF Rune
<1>4. \A j \in i + 1 .. i + n - 1 : j = i + 1 \/ j \in i + 2 .. i + n - 1
  OBVIOUS
<1>5. s[i] >= 194
  BY <1>2
<1> QED
  BY <1>1, <1>2, <1>3, <1>4, <1>5 DEF RuneLike

LEMMA RuneIs ==
  ASSUME NEW s \in Seq(Byte), NEW i \in 1 .. Len(s)
  PROVE  RuneSize(s, i) \in 1 .. 4 /\ (RuneSize(s, i) > 1 => RuneLike(s, i, RuneSize(s, i)))
<1>1. i \in Nat /\ 2 \in 2 .. 4 /\ 3 \in 2 .. 4 /\ 4 \in 2 .. 4
  BY LenProperties
<1> DEFINE two == Rune(s, i, 2, 194 .. 223, 128 .. 191)
           three == \/ Rune(s, i, 3, {224}, 160 .. 191) \/ Rune(s, i, 3, {237}, 128 .. 159)
                    \/ Rune(s, i, 3, 225 .. 239 \ {237}, 128 .. 191)
           four == \/ Rune(s, i, 4, {240}, 144 .. 191) \/ Rune(s, i, 4, {244}, 128 .. 143)
                   \/ Rune(s, i, 4, 241 .. 243, 128 .. 191)
<1>2. RuneSize(s, i) = CASE two -> 2 [] three -> 3 [] four -> 4 [] OTHER -> 1
  BY DEF RuneSize
<1>3. two => RuneLike(s, i, 2)
  <2>1. Rune(s, i, 2, 194 .. 223, 128 .. 191) => RuneLike(s, i, 2)
    <3>1. (\A x \in 194 .. 223 : x \in 194 .. 244) /\ \A x \in 128 .. 191 : x \in 128 .. 191
      OBVIOUS
    <3> QED
      BY <1>1, <3>1, RuneIsLike
  <2> QED
    BY <2>1
<1>4. three => RuneLike(s, i, 3)
  <2>1. Rune(s, i, 3, {224}, 160 .. 191) => RuneLike(s, i, 3)
    <3>1. (\A x \in {224} : x \in 194 .. 244) /\ \A x \in 160 .. 191 : x \in 128 .. 191
      OBVIOUS
    <3> QED
      BY <1>1, <3>1, RuneIsLike
  <2>2. Rune(s, i, 3, {237}, 128 .. 159) => RuneLike(s, i, 3)
    <3>1. (\A x \in {237} : x \in 194 .. 244) /\ \A x \in 128 .. 159 : x \in 128 .. 191
      OBVIOUS
    <3> QED
      BY <1>1, <3>1, RuneIsLike
  <2>3. Rune(s, i, 3, 225 .. 239 \ {237}, 128 .. 191) => RuneLike(s, i, 3)
    <3>1. (\A x \in (225 .. 239 \ {237}) : x \in 194 .. 244) /\ \A x \in 128 .. 191 : x \in 128 .. 191
      OBVIOUS
    <3> QED
      BY <1>1, <3>1, RuneIsLike
  <2> QED
    BY <2>1, <2>2, <2>3
<1>5. four => RuneLike(s, i, 4)
  <2>1. Rune(s, i, 4, {240}, 144 .. 191) => RuneLike(s, i, 4)
    <3>1. (\A x \in {240} : x \in 194 .. 244) /\ \A x \in 144 .. 191 : x \in 128 .. 191
      OBVIOUS
    <3> QED
      BY <1>1, <3>1, RuneIsLike
  <2>2. Rune(s, i, 4, {244}, 128 .. 143) => RuneLike(s, i, 4)
    <3>1. (\A x \in {244} : x \in 194 .. 244) /\ \A x \in 128 .. 143 : x \in 128 .. 191
      OBVIOUS
    <3> QED
      BY <1>1, <3>1, RuneIsLike
  <2>3. Rune(s, i, 4, 241 .. 243, 128 .. 191) => RuneLike(s, i, 4)
    <3>1. (\A x \in 241 .. 243 : x \in 194 .. 244) /\ \A x \in 128 .. 191 : x \in 128 .. 191
      OBVIOUS
    <3> QED
      BY <1>1, <3>1, RuneIsLike
  <2> QED
    BY <2>1, <2>2, <2>3
<1> HIDE DEF two, three, four
<1> QED
  BY <1>2, <1>3, <1>4, <1>5

----
(* The reader of JSON, step by step.                                       *)
In(t, ss, r) == InString(<<>>, t, ss, r)

LEMMA StepRest ==
  ASSUME NEW ss, NEW r, NEW b, b # 34
  PROVE  StepOf("json", Outside(ss, r), b) = Outside(ss, Append(r, b))
<1> DEFINE st == Outside(ss, r)
<1>1. ~st.in /\ st.strings = ss /\ st.rest = r
  BY DEF Outside
<1> HIDE DEF st
<1>2. JSONStep(st, b) = Outside(st.strings, Append(st.rest, b))
  BY <1>1, CharIs DEF JSONStep
<1> QED
  BY <1>1, <1>2 DEF StepOf, st

LEMMA StepOpen ==
  ASSUME NEW ss, NEW r
  PROVE  StepOf("json", Outside(ss, r), 34) = In(<<>>, ss, r)
<1> DEFINE st == Outside(ss, r)
<1>1. ~st.in /\ st.strings = ss /\ st.rest = r
  BY DEF Outside
<1> HIDE DEF st
<1>2. JSONStep(st, 34) = InString(<<>>, <<>>, st.strings, st.rest)
  BY <1>1, CharIs DEF JSONStep
<1> QED
  BY <1>1, <1>2 DEF StepOf, st, In

LEMMA InStringIs ==
  ASSUME NEW p, NEW t, NEW ss, NEW r, NEW st, st = InString(p, t, ss, r)
  PROVE  st.in /\ st.pending = p /\ st.text = t /\ st.strings = ss /\ st.rest = r
BY DEF InString

LEMMA StepClose ==
  ASSUME NEW t, NEW ss, NEW r
  PROVE  StepOf("json", In(t, ss, r), 34) = Outside(Append(ss, t), r)
<1> DEFINE st == In(t, ss, r)
<1>1. st.in /\ st.pending = <<>> /\ st.text = t /\ st.strings = ss /\ st.rest = r
  BY InStringIs DEF In
<1> HIDE DEF st
<1>2. JSONStep(st, 34) = Outside(Append(st.strings, st.text), st.rest)
  BY <1>1, CharIs DEF JSONStep
<1> QED
  BY <1>1, <1>2 DEF StepOf, st

LEMMA StepText ==
  ASSUME NEW t, NEW ss, NEW r, NEW b, b # 34, b # 92
  PROVE  StepOf("json", In(t, ss, r), b) = In(Append(t, b), ss, r)
<1> DEFINE st == In(t, ss, r)
<1>1. st.in /\ st.pending = <<>> /\ st.text = t /\ st.strings = ss /\ st.rest = r
  BY InStringIs DEF In
<1> HIDE DEF st
<1>2. JSONStep(st, b) = InString(<<>>, Append(st.text, b), st.strings, st.rest)
  BY <1>1, CharIs DEF JSONStep
<1> QED
  BY <1>1, <1>2 DEF StepOf, st, In

LEMMA StepBackslash ==
  ASSUME NEW t, NEW ss, NEW r
  PROVE  StepOf("json", In(t, ss, r), 92) = InString(<<92>>, t, ss, r)
<1>1. Append(<<>>, 92) = <<92>> /\ Len(<<92>>) = 1
  OBVIOUS
<1> DEFINE st == In(t, ss, r)
<1>2. st.in /\ st.pending = <<>> /\ st.text = t /\ st.strings = ss /\ st.rest = r
  BY InStringIs DEF In
<1> HIDE DEF st
<1>3. JSONStep(st, 92) = InString(<<92>>, st.text, st.strings, st.rest)
  BY <1>1, <1>2, CharIs DEF JSONStep
<1> QED
  BY <1>2, <1>3 DEF StepOf, st

(* An escape sequence goes on from p to q with b, and is whole with it.    *)
Goes(p, q, b) == p # <<>> /\ q = Append(p, b)
Whole(q, b) == (Len(q) = 2 /\ b # 117) \/ Len(q) = 6

LEMMA StepAmid ==
  ASSUME NEW p, NEW q, NEW t, NEW ss, NEW r, NEW b, Goes(p, q, b), ~Whole(q, b)
  PROVE  StepOf("json", InString(p, t, ss, r), b) = InString(q, t, ss, r)
<1> DEFINE st == InString(p, t, ss, r)
<1>1. st.in /\ st.pending = p /\ st.text = t /\ st.strings = ss /\ st.rest = r
  BY InStringIs
<1> HIDE DEF st
<1>2. JSONStep(st, b) = InString(q, st.text, st.strings, st.rest)
  BY <1>1, CharIs DEF JSONStep, Goes, Whole
<1> QED
  BY <1>1, <1>2 DEF StepOf, st

LEMMA StepWhole ==
  ASSUME NEW p, NEW q, NEW t, NEW ss, NEW r, NEW b, Goes(p, q, b), Whole(q, b)
  PROVE  StepOf("json", InString(p, t, ss, r), b) = In(Cat(t, Meant(q)), ss, r)
<1> DEFINE st == InString(p, t, ss, r)
<1>1. st.in /\ st.pending = p /\ st.text = t /\ st.strings = ss /\ st.rest = r
  BY InStringIs
<1> HIDE DEF st
<1>2. JSONStep(st, b) = InString(<<>>, Cat(st.text, Meant(q)), st.strings, st.rest)
  BY <1>1, CharIs DEF JSONStep, Goes, Whole, Cat
<1> QED
  BY <1>1, <1>2 DEF StepOf, st, In

LEMMA AppendIs ==
  ASSUME NEW S, NEW s \in Seq(S), NEW b \in S
  PROVE  Append(s, b) = Cat(s, <<b>>) /\ Append(s, b) \in Seq(S) /\ <<b>> \in Seq(S)
BY DEF Cat

LEMMA CatAppend ==
  ASSUME NEW S, NEW s \in Seq(S), NEW t \in Seq(S), NEW b \in S
  PROVE  Cat(s, Cat(t, <<b>>)) = Append(Cat(s, t), b)
<1> DEFINE u == <<b>>
<1>1. u \in Seq(S) /\ Cat(s, t) \in Seq(S)
  BY AppendIs, CatTyped
<1>2. Append(Cat(s, t), b) = Cat(Cat(s, t), u)
  BY <1>1, AppendIs
<1> HIDE DEF u
<1>3. Cat(Cat(s, t), u) = Cat(s, Cat(t, u))
  BY <1>1, CatAssociates
<1> QED
  BY <1>2, <1>3 DEF u

LEMMA ReadsMore ==
  ASSUME NEW S, NEW s \in Seq(S), NEW b \in S, NEW kind, NEW p, NEW q, Reads(kind, p, s, q)
  PROVE  Reads(kind, p, Append(s, b), StepOf(kind, q, b))
<1>1. Append(s, b) = Cat(s, <<b>>) /\ <<b>> \in Seq(S)
  BY AppendIs
<1>2. Reads(kind, q, <<b>>, StepOf(kind, q, b))
  BY ReadsOne
<1> QED
  BY <1>1, <1>2, ReadsOn

LEMMA ReadsAmid ==
  ASSUME NEW t, NEW ss, NEW r, NEW x, NEW p \in Seq(Byte), NEW b \in Byte, NEW q,
         Goes(p, q, b), ~Whole(q, b), Reads("json", x, p, InString(p, t, ss, r))
  PROVE  Reads("json", x, q, InString(q, t, ss, r))
<1>1. StepOf("json", InString(p, t, ss, r), b) = InString(q, t, ss, r)
  BY StepAmid
<1>2. q = Append(p, b)
  BY DEF Goes
<1>3. Reads("json", x, Append(p, b), StepOf("json", InString(p, t, ss, r), b))
  BY ReadsMore
<1> QED
  BY <1>1, <1>2, <1>3

LEMMA ReadsShort ==
  ASSUME NEW t, NEW ss, NEW r, NEW b \in Byte, b # 117
  PROVE  Reads("json", In(t, ss, r), <<92, b>>, In(Cat(t, Meant(<<92, b>>)), ss, r))
<1> DEFINE p == <<92>>
           q == <<92, b>>
<1>1. p \in Seq(Byte) /\ q = Append(p, b)
  BY DEF Byte
<1>2. p # <<>>
  OBVIOUS
<1>3. Whole(q, b)
  BY DEF Whole
<1>4. Reads("json", In(t, ss, r), p, InString(p, t, ss, r))
  BY ReadsOne, StepBackslash
<1> HIDE DEF p, q
<1>5. Goes(p, q, b)
  BY <1>1, <1>2 DEF Goes
<1>6. StepOf("json", InString(p, t, ss, r), b) = In(Cat(t, Meant(q)), ss, r)
  BY <1>3, <1>5, StepWhole
<1>7. Reads("json", In(t, ss, r), q, In(Cat(t, Meant(q)), ss, r))
  BY <1>1, <1>4, <1>6, ReadsMore
<1> QED
  BY <1>7 DEF p, q

LEMMA ReadsLong ==
  ASSUME NEW t, NEW ss, NEW r, NEW a \in Byte, NEW b \in Byte, NEW c \in Byte, NEW d \in Byte
  PROVE  Reads("json", In(t, ss, r), <<92, 117, a, b, c, d>>,
               In(Cat(t, Meant(<<92, 117, a, b, c, d>>)), ss, r))
<1> DEFINE p1 == <<92>>
           p2 == <<92, 117>>
           p3 == <<92, 117, a>>
           p4 == <<92, 117, a, b>>
           p5 == <<92, 117, a, b, c>>
           p6 == <<92, 117, a, b, c, d>>
<1>1. /\ p1 \in Seq(Byte) /\ p2 \in Seq(Byte) /\ p3 \in Seq(Byte) /\ p4 \in Seq(Byte)
      /\ p5 \in Seq(Byte) /\ p6 \in Seq(Byte) /\ 117 \in Byte
  BY DEF Byte
<1>2. /\ p2 = Append(p1, 117) /\ p3 = Append(p2, a) /\ p4 = Append(p3, b)
      /\ p5 = Append(p4, c) /\ p6 = Append(p5, d)
  OBVIOUS
<1>3. ~Whole(p2, 117) /\ ~Whole(p3, a) /\ ~Whole(p4, b) /\ ~Whole(p5, c) /\ Whole(p6, d)
  BY DEF Whole
<1>4. p1 # <<>> /\ p2 # <<>> /\ p3 # <<>> /\ p4 # <<>> /\ p5 # <<>>
  OBVIOUS
<1>5. Reads("json", In(t, ss, r), p1, InString(p1, t, ss, r))
  BY ReadsOne, StepBackslash
<1> HIDE DEF p1, p2, p3, p4, p5, p6
<1>6. Goes(p1, p2, 117) /\ Goes(p2, p3, a) /\ Goes(p3, p4, b) /\ Goes(p4, p5, c) /\ Goes(p5, p6, d)
  BY <1>2, <1>4 DEF Goes
<1>7. Reads("json", In(t, ss, r), p2, InString(p2, t, ss, r))
  <2>1. p1 \in Seq(Byte) /\ 117 \in Byte /\ Goes(p1, p2, 117) /\ ~Whole(p2, 117)
    BY <1>1, <1>3, <1>6
  <2> QED
    BY <1>5, <2>1, ReadsAmid
<1>8. Reads("json", In(t, ss, r), p3, InString(p3, t, ss, r))
  <2>1. p2 \in Seq(Byte) /\ a \in Byte /\ Goes(p2, p3, a) /\ ~Whole(p3, a)
    BY <1>1, <1>3, <1>6
  <2> QED
    BY <1>7, <2>1, ReadsAmid
<1>9. Reads("json", In(t, ss, r), p4, InString(p4, t, ss, r))
  <2>1. p3 \in Seq(Byte) /\ b \in Byte /\ Goes(p3, p4, b) /\ ~Whole(p4, b)
    BY <1>1, <1>3, <1>6
  <2> QED
    BY <1>8, <2>1, ReadsAmid
<1>10. Reads("json", In(t, ss, r), p5, InString(p5, t, ss, r))
  <2>1. p4 \in Seq(Byte) /\ c \in Byte /\ Goes(p4, p5, c) /\ ~Whole(p5, c)
    BY <1>1, <1>3, <1>6
  <2> QED
    BY <1>9, <2>1, ReadsAmid
<1>11. Reads("json", In(t, ss, r), p6, In(Cat(t, Meant(p6)), ss, r))
  <2>1. p5 \in Seq(Byte) /\ Goes(p5, p6, d) /\ p6 = Append(p5, d)
    BY <1>1, <1>2, <1>6
  <2>2. StepOf("json", InString(p5, t, ss, r), d) = In(Cat(t, Meant(p6)), ss, r)
    BY <1>3, <2>1, StepWhole
  <2>3. Reads("json", In(t, ss, r), Append(p5, d), StepOf("json", InString(p5, t, ss, r), d))
    BY <1>10, <2>1, ReadsMore
  <2> QED
    BY <2>1, <2>2, <2>3
<1> QED
  BY <1>11 DEF p6

(* Bytes that mean themselves.                                             *)
LEMMA ReadsText ==
  ASSUME NEW t \in Seq(Byte), NEW ss, NEW r, NEW x \in Seq(Byte \ {34, 92})
  PROVE  Reads("json", In(t, ss, r), x, In(Cat(t, x), ss, r))
<1>1. PICK n \in Nat : n = Len(x) /\ \A i \in 1 .. n : x[i] \in Byte \ {34, 92}
  BY LenProperties, ElementOfSeq
<1> DEFINE front(i) == SubSeq(x, 1, i)
           c == [i \in 0 .. n |-> In(Cat(t, front(i)), ss, r)]
<1>2. x \in Seq(Byte)
  BY SeqMonotonic
<1>3. front(0) = <<>> /\ front(n) = x /\ \A i \in 0 .. n : front(i) \in Seq(Byte)
  <2>1. front(0) = <<>>
    BY SubSeqEmpty
  <2>2. front(n) = x
    BY <1>1, SubSeqFull
  <2>3. ASSUME NEW i \in 0 .. n PROVE front(i) \in Seq(Byte)
    <3>1. 1 \in Int /\ i \in Int /\ \A j \in 1 .. i : x[j] \in Byte
      BY <1>1
    <3> QED
      BY <3>1, SubSeqProperties
  <2> HIDE DEF front
  <2> QED
    BY <2>1, <2>2, <2>3
<1>4. ASSUME NEW i \in 1 .. n PROVE Cat(t, front(i)) = Append(Cat(t, front(i - 1)), x[i])
  <2>1. 1 \in 1 .. Len(x) /\ i \in 1 .. Len(x)
    BY <1>1
  <2>2. front(i) = Cat(front(i - 1), <<x[i]>>)
    BY <1>2, <2>1, SubSeqRecursiveSecond DEF Cat
  <2>3. front(i - 1) \in Seq(Byte) /\ x[i] \in Byte /\ <<x[i]>> \in Seq(Byte)
    <3>1. i - 1 \in 0 .. n
      OBVIOUS
    <3>2. x[i] \in Byte
      BY <1>1
    <3> HIDE DEF front
    <3> QED
      BY <1>3, <3>1, <3>2, AppendIs
  <2> HIDE DEF front, c
  <2>4. t \in Seq(Byte)
    OBVIOUS
  <2> QED
    BY <2>2, <2>3, <2>4, CatAppend
<1>5. \A i \in 0 .. n : c[i] = In(Cat(t, front(i)), ss, r)
  BY Zenon
<1> HIDE DEF c, front
<1>6. c[0] = In(t, ss, r) /\ c[n] = In(Cat(t, x), ss, r)
  <2>1. Cat(t, <<>>) = t
    BY CatTyped
  <2> QED
    BY <1>3, <1>5, <2>1
<1>7. ASSUME NEW i \in 1 .. n PROVE c[i] = StepOf("json", c[i - 1], x[i])
  <2>1. x[i] # 34 /\ x[i] # 92 /\ i - 1 \in 0 .. n /\ i \in 0 .. n
    BY <1>1
  <2>2. c[i - 1] = In(Cat(t, front(i - 1)), ss, r) /\ c[i] = In(Append(Cat(t, front(i - 1)), x[i]), ss, r)
    BY <1>4, <1>5, <2>1
  <2> QED
    BY <2>1, <2>2, StepText
<1>8. Path(c, "json", In(t, ss, r), x, In(Cat(t, x), ss, r))
  BY <1>1, <1>6, <1>7 DEF Path
<1> QED
  BY <1>8 DEF Reads

----
(* What the escape of a byte means: the byte, or the whole of its rune.    *)
Meaning(s, i) == IF s[i] < 128 THEN <<s[i]>>
                 ELSE IF RuneSize(s, i) = 1 THEN <<239, 191, 189>>
                 ELSE SubSeq(s, i, i + RuneSize(s, i) - 1)

LEMMA ShortIs ==
  /\ DOMAIN Short = {9, 10, 13, 34, 92}
  /\ \A b \in DOMAIN Short : /\ Short[b] \in 32 .. 127 /\ Short[b] # 117
                             /\ AntiFunction(Short)[Short[b]] = b
<1>1. DOMAIN Short = {9, 10, 13, 34, 92}
  BY CharIs DEF Short
<1>2. Short[9] = 116 /\ Short[10] = 110 /\ Short[13] = 114 /\ Short[34] = 34 /\ Short[92] = 92
  BY CharIs DEF Short
<1> DEFINE sh == Short
<1> HIDE DEF sh
<1>3. ASSUME NEW b \in DOMAIN Short PROVE AntiFunction(Short)[Short[b]] = b
  <2>1. Short[b] \in Range(Short)
    BY DEF Range
  <2>2. AntiFunction(Short)[Short[b]] =
          CHOOSE x \in DOMAIN Short : Short[b] \in Range(Short) => Short[x] = Short[b]
    BY <2>1, Zenon DEF AntiFunction, Inverse
  <2>3. \A x \in DOMAIN Short : Short[x] = Short[b] => x = b
    BY <1>1, <1>2
  <2> QED
    BY <2>1, <2>2, <2>3
<1> QED
  BY <1>1, <1>2, <1>3

LEMMA ShortByte == \A b \in DOMAIN Short : Short[b] \in 32 .. 127 /\ Short[b] # 117
BY ShortIs

LEMMA HexIs ==
  ASSUME NEW d \in 0 .. 15
  PROVE  HexDigit(d) \in 48 .. 102 /\ Digit(HexDigit(d)) = d
BY DEF HexDigit, Digit

LEMMA MeantShort ==
  ASSUME NEW b \in DOMAIN Short
  PROVE  Meant(<<92, Short[b]>>) = <<b>>
<1> DEFINE p == <<92, Short[b]>>
<1>1. p[2] = Short[b] /\ p[2] # Char.u
  BY ShortIs, CharIs
<1> HIDE DEF p
<1>2. Meant(p) = <<AntiFunction(Short)[p[2]]>>
  BY <1>1 DEF Meant
<1>3. Meant(p) = <<b>>
  BY <1>1, <1>2, ShortIs
<1> QED
  BY <1>3 DEF p

LEMMA MeantControl ==
  ASSUME NEW b \in 0 .. 31
  PROVE  /\ HexDigit(b \div 16) \in 48 .. 102 /\ HexDigit(b % 16) \in 48 .. 102
         /\ Meant(<<92, 117, 48, 48, HexDigit(b \div 16), HexDigit(b % 16)>>) = <<b>>
<1>1. b \div 16 \in 0 .. 15 /\ b % 16 \in 0 .. 15 /\ 16 * (b \div 16) + (b % 16) = b
  OBVIOUS
<1> DEFINE h == HexDigit(b \div 16)
           l == HexDigit(b % 16)
           p == <<92, 117, 48, 48, h, l>>
<1>2. h \in 48 .. 102 /\ l \in 48 .. 102 /\ Digit(h) = b \div 16 /\ Digit(l) = b % 16
  BY <1>1, HexIs
<1> HIDE DEF h, l
<1>3. p[2] = Char.u /\ p[3] # 102 /\ p[5] = h /\ p[6] = l
  BY CharIs
<1> HIDE DEF p
<1>4. Meant(p) = <<16 * Digit(p[5]) + Digit(p[6])>>
  BY <1>3 DEF Meant
<1>5. Meant(p) = <<b>>
  BY <1>1, <1>2, <1>3, <1>4
<1> QED
  BY <1>2, <1>5 DEF p, h, l

LEMMA MeantInvalid == Meant(<<92, 117, 102, 102, 102, 100>>) = <<239, 191, 189>>
<1> DEFINE p == <<92, 117, 102, 102, 102, 100>>
<1>1. p[2] = Char.u /\ p[3] = 102
  BY CharIs
<1> HIDE DEF p
<1>2. Meant(p) = <<239, 191, 189>>
  BY <1>1 DEF Meant
<1> QED
  BY <1>2 DEF p

LEMMA EscapeShort ==
  ASSUME NEW s, NEW i, s[i] \in DOMAIN Short
  PROVE  Escape(s, i) = <<92, Short[s[i]]>>
<1>1. ~(s[i] >= 128) /\ s[i] \notin (32 .. 127 \ DOMAIN Short)
  BY ShortIs
<1> QED
  BY <1>1, CharIs DEF Escape

LEMMA EscapeControl ==
  ASSUME NEW s, NEW i, s[i] \in 0 .. 31, s[i] \notin DOMAIN Short
  PROVE  Escape(s, i) = <<92, 117, 48, 48, HexDigit(s[i] \div 16), HexDigit(s[i] % 16)>>
<1> DEFINE w == <<Char.backslash, Char.u, 48, 48, HexDigit(s[i] \div 16), HexDigit(s[i] % 16)>>
<1>1. s[i] < 32 /\ s[i] \notin 32 .. 127 /\ ~(s[i] >= 128)
  OBVIOUS
<1>2. Escape(s, i) = IF s[i] < 32 THEN w ELSE Escape(s, i)
  BY <1>1 DEF Escape
<1> QED
  BY <1>1, <1>2, CharIs

LEMMA EscapePlain ==
  ASSUME NEW s, NEW i, s[i] \in 32 .. 127, s[i] \notin DOMAIN Short
  PROVE  Escape(s, i) = <<s[i]>>
BY DEF Escape

LEMMA EscapeInvalid ==
  ASSUME NEW s, NEW i, s[i] \in 128 .. 255, RuneSize(s, i) = 1
  PROVE  Escape(s, i) = <<92, 117, 102, 102, 102, 100>>
<1> DEFINE w == <<Char.backslash, Char.u, 102, 102, 102, 100>>
<1>1. s[i] \notin DOMAIN Short /\ ~(s[i] < 32) /\ s[i] \notin 32 .. 127 /\ s[i] >= 128
  BY ShortIs
<1>2. Escape(s, i) = IF s[i] >= 128 /\ RuneSize(s, i) = 1 THEN w ELSE Escape(s, i)
  BY <1>1 DEF Escape
<1> QED
  BY <1>1, <1>2, CharIs

LEMMA EscapeRune ==
  ASSUME NEW s, NEW i, s[i] \in 128 .. 255, RuneSize(s, i) \in Nat, RuneSize(s, i) > 1
  PROVE  Escape(s, i) = SubSeq(s, i, i + RuneSize(s, i) - 1)
<1> DEFINE w == SubSeq(s, i, i + RuneSize(s, i) - 1)
<1>1. /\ s[i] \notin DOMAIN Short /\ ~(s[i] < 32) /\ s[i] \notin 32 .. 127 /\ s[i] >= 128
      /\ ~(RuneSize(s, i) = 1)
  BY ShortIs
<1>2. Escape(s, i) = IF s[i] >= 128 /\ RuneSize(s, i) > 1 THEN w ELSE Escape(s, i)
  BY <1>1 DEF Escape
<1> QED
  BY <1>1, <1>2

LEMMA Itself == ASSUME NEW S, NEW x \in S PROVE \E y \in S : y = x
OBVIOUS

LEMMA ByteAt ==
  ASSUME NEW s \in Seq(Byte), NEW i \in 1 .. Len(s)
  PROVE  \E b \in 0 .. 255 : b = s[i]
<1>1. s[i] \in Byte
  BY ElementOfSeq
<1>2. \E b \in Byte : b = s[i]
  BY <1>1, Itself
<1> QED
  BY <1>2 DEF Byte

LEMMA LowIsNoRune ==
  ASSUME NEW s, NEW i, NEW b \in 0 .. 193, b = s[i], NEW n
  PROVE  ~RuneLike(s, i, n)
<1>1. ~(s[i] >= 194)
  OBVIOUS
<1> QED
  BY <1>1 DEF RuneLike

LEMMA RuneLow ==
  ASSUME NEW s \in Seq(Byte), NEW i \in 1 .. Len(s), NEW b \in 0 .. 193, b = s[i]
  PROVE  RuneSize(s, i) = 1
<1>2. RuneSize(s, i) \in 1 .. 4 /\ (RuneSize(s, i) > 1 => RuneLike(s, i, RuneSize(s, i)))
  BY RuneIs
<1>3. ~RuneLike(s, i, RuneSize(s, i))
  BY LowIsNoRune
<1> QED
  BY <1>2, <1>3

LEMMA RuneBytes ==
  ASSUME NEW s \in Seq(Byte), NEW i \in 1 .. Len(s), RuneSize(s, i) > 1
  PROVE  /\ i + RuneSize(s, i) - 1 \in i .. Len(s)
         /\ SubSeq(s, i, i + RuneSize(s, i) - 1) \in Seq(128 .. 255)
<1>1. PICK n \in Nat : n = Len(s) /\ \A j \in 1 .. n : \E b \in 0 .. 255 : b = s[j]
  <2>1. Len(s) \in Nat /\ \A j \in 1 .. Len(s) : \E b \in 0 .. 255 : b = s[j]
    BY LenProperties, ByteAt
  <2> QED
    BY <2>1
<1>2. PICK k \in 2 .. 4 : k = RuneSize(s, i) /\ RuneLike(s, i, k)
  BY RuneIs
<1>3. s[i] >= 194 /\ i + k - 1 <= n /\ \A j \in i + 1 .. i + k - 1 : s[j] \in 128 .. 191
  BY <1>1, <1>2 DEF RuneLike
<1>4. ASSUME NEW j \in i .. (i + k - 1) PROVE s[j] \in 128 .. 255
  <2>1. j \in 1 .. n
    BY <1>1, <1>3
  <2>2. CASE j = i
    <3>1. PICK b \in 0 .. 255 : b = s[i]
      BY <1>1, <2>1, <2>2
    <3>2. b >= 194
      BY <1>3, <3>1
    <3>3. b \in 128 .. 255
      BY <3>2
    <3> QED
      BY <2>2, <3>1, <3>3
  <2>3. CASE j # i
    <3>1. j \in i + 1 .. i + k - 1
      BY <2>3
    <3>2. PICK b \in 128 .. 191 : b = s[j]
      BY <1>3, <3>1
    <3>3. b \in 128 .. 255
      OBVIOUS
    <3> QED
      BY <3>2, <3>3
  <2> QED
    BY <2>2, <2>3
<1>5. i \in Int /\ i + k - 1 \in Int
  BY <1>1
<1>6. SubSeq(s, i, i + k - 1) \in Seq(128 .. 255)
  BY <1>4, <1>5, SubSeqProperties
<1>7. i + k - 1 \in i .. Len(s)
  BY <1>1, <1>3
<1> QED
  BY <1>2, <1>6, <1>7

LEMMA Wider == ASSUME NEW S, NEW T, S \subseteq T, NEW s \in Seq(S) PROVE s \in Seq(T)
BY SeqMonotonic

(* The escape e of a byte b that begins a rune w of k bytes means m.       *)
Escapes(b, k, w, e, m) ==
  /\ b \in DOMAIN Short => e = <<92, Short[b]>> /\ m = <<b>>
  /\ b \in 0 .. 31 /\ b \notin DOMAIN Short =>
       e = <<92, 117, 48, 48, HexDigit(b \div 16), HexDigit(b % 16)>> /\ m = <<b>>
  /\ b \in 32 .. 127 /\ b \notin DOMAIN Short => e = <<b>> /\ m = <<b>>
  /\ b \in 128 .. 255 /\ k = 1 =>
       e = <<92, 117, 102, 102, 102, 100>> /\ m = <<239, 191, 189>>
  /\ b \in 128 .. 255 /\ k > 1 => e = w /\ m = w

LEMMA EscapeIs ==
  ASSUME NEW s, NEW i, NEW b \in 0 .. 255, b = s[i], NEW k \in 1 .. 4, k = RuneSize(s, i)
  PROVE  Escapes(b, k, SubSeq(s, i, i + k - 1), Escape(s, i), Meaning(s, i))
<1> DEFINE e == Escape(s, i)
           m == Meaning(s, i)
           w == SubSeq(s, i, i + k - 1)
<1>1. b < 128 => m = <<b>>
  BY DEF Meaning
<1>2. b \in DOMAIN Short => e = <<92, Short[b]>> /\ b < 128
  BY EscapeShort, ShortIs
<1>3. b \in 0 .. 31 /\ b \notin DOMAIN Short =>
        e = <<92, 117, 48, 48, HexDigit(b \div 16), HexDigit(b % 16)>> /\ b < 128
  BY EscapeControl
<1>4. b \in 32 .. 127 /\ b \notin DOMAIN Short => e = <<b>> /\ b < 128
  BY EscapePlain
<1>5. b \in 128 .. 255 /\ k = 1 =>
        e = <<92, 117, 102, 102, 102, 100>> /\ m = <<239, 191, 189>>
  <2>1. b \in 128 .. 255 /\ k = 1 => e = <<92, 117, 102, 102, 102, 100>>
    BY EscapeInvalid
  <2>2. b \in 128 .. 255 /\ k = 1 => m = <<239, 191, 189>>
    BY DEF Meaning
  <2> QED
    BY <2>1, <2>2
<1>6. b \in 128 .. 255 /\ k > 1 =>
        e = w /\ m = w
  <2>1. b \in 128 .. 255 /\ k > 1 => e = w
    <3>1. k \in Nat
      OBVIOUS
    <3> QED
      BY <3>1, EscapeRune
  <2>2. b \in 128 .. 255 /\ k > 1 => m = w
    <3>1. b \in 128 .. 255 /\ k > 1 => ~(s[i] < 128) /\ RuneSize(s, i) # 1
      OBVIOUS
    <3> QED
      BY <3>1, Zenon DEF Meaning
  <2> QED
    BY <2>1, <2>2
<1> HIDE DEF e, m, w
<1>7. Escapes(b, k, w, e, m)
  BY <1>1, <1>2, <1>3, <1>4, <1>5, <1>6 DEF Escapes
<1> QED
  BY <1>7 DEF e, m, w

LEMMA ReadsEscapeOf ==
  ASSUME NEW b \in 0 .. 255, NEW k \in 1 .. 4, NEW w, k > 1 => w \in Seq(128 .. 255),
         NEW e, NEW m, Escapes(b, k, w, e, m), NEW t \in Seq(Byte), NEW ss, NEW r
  PROVE  /\ Reads("json", In(t, ss, r), e, In(Cat(t, m), ss, r))
         /\ e \in Seq(32 .. 255) /\ m \in Seq(Byte)
<1>1. b \in Byte /\ <<b>> \in Seq(Byte)
  BY DEF Byte
<1>2. CASE b \in DOMAIN Short
  <2>1. Short[b] \in 32 .. 127 /\ Short[b] # 117
    BY <1>2, ShortByte
  <2>2. e = <<92, Short[b]>> /\ m = <<b>> /\ Meant(<<92, Short[b]>>) = <<b>>
    BY <1>2, MeantShort DEF Escapes
  <2>3. Short[b] \in Byte /\ <<92, Short[b]>> \in Seq(32 .. 255)
    BY <2>1 DEF Byte
  <2>4. Reads("json", In(t, ss, r), <<92, Short[b]>>, In(Cat(t, Meant(<<92, Short[b]>>)), ss, r))
    BY <2>1, <2>3, ReadsShort
  <2> QED
    BY <1>1, <2>2, <2>3, <2>4
<1>3. CASE b \in 0 .. 31 /\ b \notin DOMAIN Short
  <2> DEFINE h == HexDigit(b \div 16)
             l == HexDigit(b % 16)
             c == <<92, 117, 48, 48, h, l>>
  <2>1. h \in 48 .. 102 /\ l \in 48 .. 102 /\ Meant(c) = <<b>>
    BY <1>3, MeantControl
  <2>2. e = c /\ m = <<b>>
    BY <1>3 DEF Escapes
  <2> HIDE DEF h, l
  <2>3. h \in Byte /\ l \in Byte /\ 48 \in Byte /\ c \in Seq(32 .. 255)
    BY <2>1 DEF Byte
  <2>4. Reads("json", In(t, ss, r), c, In(Cat(t, Meant(c)), ss, r))
    BY <2>3, ReadsLong
  <2> HIDE DEF c
  <2> QED
    BY <1>1, <2>1, <2>2, <2>3, <2>4
<1>4. CASE b \in 32 .. 127 /\ b \notin DOMAIN Short
  <2>1. b \in Byte \ {34, 92} /\ b \in 32 .. 255
    BY <1>4, ShortIs DEF Byte
  <2> DEFINE c == <<b>>
  <2>2. e = c /\ m = c
    BY <1>4 DEF Escapes
  <2>3. c \in Seq(Byte \ {34, 92}) /\ c \in Seq(32 .. 255) /\ c \in Seq(Byte)
    BY <1>1, <2>1
  <2> HIDE DEF c
  <2>4. Reads("json", In(t, ss, r), c, In(Cat(t, c), ss, r))
    BY <2>3, ReadsText
  <2> QED
    BY <2>2, <2>3, <2>4
<1>5. CASE b \in 128 .. 255 /\ k = 1
  <2> DEFINE c == <<92, 117, 102, 102, 102, 100>>
             f == <<239, 191, 189>>
  <2>1. e = c /\ m = f
    BY <1>5 DEF Escapes
  <2>2. Meant(c) = f
    BY MeantInvalid
  <2>3. c \in Seq(32 .. 255) /\ f \in Seq(Byte) /\ 102 \in Byte /\ 100 \in Byte
    BY DEF Byte
  <2>4. Reads("json", In(t, ss, r), c, In(Cat(t, Meant(c)), ss, r))
    BY <2>3, ReadsLong
  <2> HIDE DEF c, f
  <2> QED
    BY <2>1, <2>2, <2>3, <2>4
<1>6. CASE b \in 128 .. 255 /\ k > 1
  <2>1. e = w /\ m = w
    BY <1>6 DEF Escapes
  <2>2. w \in Seq(128 .. 255)
    BY <1>6
  <2>3. w \in Seq(Byte \ {34, 92}) /\ w \in Seq(32 .. 255) /\ w \in Seq(Byte)
    <3> DEFINE high == 128 .. 255
               text == Byte \ {34, 92}
               shown == 32 .. 255
    <3>1. high \subseteq text /\ high \subseteq shown /\ high \subseteq Byte
      BY DEF Byte
    <3>2. w \in Seq(high)
      BY <2>2
    <3> HIDE DEF high, text, shown
    <3>3. w \in Seq(text) /\ w \in Seq(shown) /\ w \in Seq(Byte)
      BY <3>1, <3>2, Wider
    <3> QED
      BY <3>3 DEF text, shown
  <2>4. Reads("json", In(t, ss, r), w, In(Cat(t, w), ss, r))
    BY <2>3, ReadsText
  <2> QED
    BY <2>1, <2>3, <2>4
<1>7. \/ b \in DOMAIN Short
      \/ b \in 0 .. 31 /\ b \notin DOMAIN Short
      \/ b \in 32 .. 127 /\ b \notin DOMAIN Short
      \/ b \in 128 .. 255 /\ k = 1
      \/ b \in 128 .. 255 /\ k > 1
  OBVIOUS
<1> QED
  BY <1>2, <1>3, <1>4, <1>5, <1>6, <1>7

LEMMA ReadsEscape ==
  ASSUME NEW s \in Seq(Byte), NEW i \in 1 .. Len(s), NEW t \in Seq(Byte), NEW ss, NEW r
  PROVE  /\ Reads("json", In(t, ss, r), Escape(s, i), In(Cat(t, Meaning(s, i)), ss, r))
         /\ Escape(s, i) \in Seq(32 .. 255) /\ Meaning(s, i) \in Seq(Byte)
<1>1. PICK b \in 0 .. 255 : b = s[i]
  BY ByteAt
<1>2. PICK k \in 1 .. 4 : k = RuneSize(s, i)
  BY RuneIs
<1>3. k > 1 => SubSeq(s, i, i + k - 1) \in Seq(128 .. 255)
  BY <1>2, RuneBytes
<1>4. Escapes(b, k, SubSeq(s, i, i + k - 1), Escape(s, i), Meaning(s, i))
  BY <1>1, <1>2, EscapeIs
<1> QED
  BY <1>3, <1>4, ReadsEscapeOf

----
(* JSONString, read back: from the start of a rune on, what is left of the *)
(* string is read as what is left of its valid text.                       *)
Belongs(s, i) == \/ s[i] < 128
                 \/ \E j \in 1 .. i : RuneSize(s, j) > 1 /\ i < j + RuneSize(s, j)
Kept(s) == [i \in DOMAIN s |-> IF Belongs(s, i) THEN <<s[i]>> ELSE <<239, 191, 189>>]

LEMMA ValidIs == \A s : Valid(s) = FlattenSeq(Kept(s))
BY Zenon DEF Valid, Kept, Belongs

(* No rune that begins before i goes on at i.                              *)
Clear(size, i) == \A j \in 1 .. (i - 1) : j + size[j] <= i

Sizes(size, n) ==
  \A i \in 1 .. n : /\ size[i] \in 1 .. 4 /\ i + size[i] <= n + 1
                    /\ \A j \in (i + 1) .. (i + size[i] - 1) : size[j] = 1

LEMMA ClearAfter ==
  ASSUME NEW n \in Nat, NEW size, Sizes(size, n), NEW i \in 1 .. n, Clear(size, i)
  PROVE  Clear(size, i + size[i])
<1>1. PICK k \in 1 .. 4 : k = size[i] /\ i + k <= n + 1 /\ \A j \in (i + 1) .. (i + k - 1) : size[j] = 1
  BY DEF Sizes
<1>2. ASSUME NEW j \in 1 .. (i + k - 1) PROVE j + size[j] <= i + k
  <2>1. PICK m \in 1 .. 4 : m = size[j]
    BY <1>1 DEF Sizes
  <2>2. CASE j < i
    <3>1. j \in 1 .. (i - 1)
      BY <2>2
    <3>2. j + m <= i
      BY <2>1, <3>1 DEF Clear
    <3> QED
      BY <2>1, <3>2
  <2>3. CASE j = i
    BY <1>1, <2>3
  <2>4. CASE j > i
    <3>1. j \in (i + 1) .. (i + k - 1)
      BY <2>4
    <3>2. m = 1
      BY <1>1, <2>1, <3>1
    <3> QED
      BY <2>1, <3>2
  <2> QED
    BY <2>2, <2>3, <2>4
<1> QED
  BY <1>1, <1>2 DEF Clear

LEMMA SizesAre ==
  ASSUME NEW s \in Seq(Byte), NEW n \in Nat, n = Len(s), NEW size,
         \A i \in 1 .. n : size[i] = RuneSize(s, i)
  PROVE  Sizes(size, n)
<1>1. ASSUME NEW i \in 1 .. n
      PROVE  /\ size[i] \in 1 .. 4 /\ i + size[i] <= n + 1
             /\ \A j \in (i + 1) .. (i + size[i] - 1) : size[j] = 1
  <2>1. PICK k \in 1 .. 4 : k = size[i] /\ (k > 1 => RuneLike(s, i, k))
    BY RuneIs
  <2>2. k > 1 => i + k - 1 <= n /\ \A j \in i + 1 .. i + k - 1 : s[j] \in 128 .. 191
    BY <2>1 DEF RuneLike
  <2>3. i + k <= n + 1
    BY <2>2
  <2>4. ASSUME NEW j \in (i + 1) .. (i + k - 1) PROVE size[j] = 1
    <3>1. k > 1 /\ j \in 1 .. n
      BY <2>3
    <3>2. PICK b \in 0 .. 193 : b = s[j]
      <4>1. s[j] \in 128 .. 191
        BY <2>2, <3>1
      <4>2. s[j] \in 0 .. 193
        BY <4>1
      <4> QED
        BY <4>2, Itself
    <3>3. RuneSize(s, j) = 1
      BY <3>1, <3>2, RuneLow
    <3> QED
      BY <3>1, <3>3
  <2> QED
    BY <2>1, <2>3, <2>4
<1> QED
  BY <1>1 DEF Sizes

SizeOf(size, s, n) == \A x \in 1 .. n : size[x] = RuneSize(s, x)

Singles(v, s, i, k) == \A j \in i .. (i + k - 1) : v[j] = <<s[j]>>

LEMMA KeptIs ==
  ASSUME NEW s, NEW n \in Nat, DOMAIN s = 1 .. n, NEW size,
         SizeOf(size, s, n), Sizes(size, n),
         NEW i \in 1 .. n, Clear(size, i), NEW b \in Byte, b = s[i],
         NEW k \in 1 .. 4, k = size[i]
  PROVE  /\ k = 1 => Kept(s)[i] = Meaning(s, i)
         /\ k > 1 => Singles(Kept(s), s, i, k)
<1> USE DEF SizeOf, Byte
<1>1. \A j \in 1 .. n : Kept(s)[j] = IF Belongs(s, j) THEN <<s[j]>> ELSE <<239, 191, 189>>
  BY DEF Kept
<1>2. k = size[i] /\ i + k <= n + 1
  BY DEF Sizes
<1>3. CASE k = 1
  <2>1. ASSUME NEW j \in 1 .. i PROVE ~(RuneSize(s, j) > 1 /\ i < j + RuneSize(s, j))
    <3>1. PICK m \in 1 .. 4 : m = size[j] /\ m = RuneSize(s, j)
      BY DEF Sizes
    <3>2. CASE j = i
      <4>1. m = 1
        BY <1>2, <1>3, <3>1, <3>2
      <4>2. ~(m > 1)
        BY <4>1
      <4> QED
        BY <3>1, <4>2
    <3>3. CASE j # i
      <4>1. j \in 1 .. (i - 1)
        BY <3>3
      <4>2. j + m <= i
        BY <3>1, <4>1 DEF Clear
      <4> QED
        BY <3>1, <4>2
    <3> QED
      BY <3>2, <3>3
  <2>2. Belongs(s, i) <=> b < 128
    BY <2>1 DEF Belongs
  <2>3. RuneSize(s, i) = 1
    BY <1>2, <1>3
  <2>4. Meaning(s, i) = IF b < 128 THEN <<s[i]>> ELSE <<239, 191, 189>>
    BY <2>3 DEF Meaning
  <2>5. Kept(s)[i] = IF b < 128 THEN <<s[i]>> ELSE <<239, 191, 189>>
    BY <1>1, <2>2, Zenon
  <2> QED
    BY <1>2, <1>3, <2>4, <2>5
<1>4. CASE k > 1
  <2>1. ASSUME NEW j \in i .. (i + k - 1) PROVE Kept(s)[j] = <<s[j]>>
    <3>1. j \in 1 .. n /\ i \in 1 .. j /\ k = RuneSize(s, i) /\ j < i + k
      BY <1>2
    <3>2. Belongs(s, j)
      BY <1>4, <3>1 DEF Belongs
    <3> QED
      BY <1>1, <3>1, <3>2
  <2> QED
    BY <1>4, <2>1 DEF Singles
<1> QED
  BY <1>2, <1>3, <1>4

LEMMA KeptTyped ==
  ASSUME NEW s \in Seq(Byte)
  PROVE  Kept(s) \in Seq(Seq(Byte)) /\ Len(Kept(s)) = Len(s)
<1>1. PICK n \in Nat : n = Len(s) /\ DOMAIN s = 1 .. n
  BY LenProperties
<1> DEFINE e(i) == IF Belongs(s, i) THEN <<s[i]>> ELSE <<239, 191, 189>>
<1>2. ASSUME NEW i \in 1 .. n PROVE e(i) \in Seq(Byte)
  <2>1. s[i] \in Byte
    BY <1>1, ElementOfSeq
  <2>2. 239 \in Byte /\ 191 \in Byte /\ 189 \in Byte
    BY DEF Byte
  <2>3. <<s[i]>> \in Seq(Byte) /\ <<239, 191, 189>> \in Seq(Byte)
    BY <2>1, <2>2
  <2> QED
    BY <2>3
<1>3. Kept(s) = [i \in 1 .. n |-> e(i)]
  BY <1>1 DEF Kept
<1> HIDE DEF e
<1>4. [i \in 1 .. n |-> e(i)] \in Seq(Seq(Byte))
  BY <1>2, IsASeq
<1>5. Len([i \in 1 .. n |-> e(i)]) = n
  OBVIOUS
<1> QED
  BY <1>1, <1>3, <1>4, <1>5

(* What is left of a flattened sequence from i on begins with any piece of *)
(* it that is put together of single elements.                             *)
Flattens(r, v, n, S) ==
  /\ \A x \in Nat \ {0} : r[x] \in Seq(S)
  /\ \A x \in 1 .. n : r[x] = Cat(v[x], r[x + 1])

LEMMA Stretch ==
  ASSUME NEW S, NEW s \in Seq(S), NEW n \in Nat, n = Len(s), NEW v, NEW r, Flattens(r, v, n, S),
         NEW i \in 1 .. n, NEW k \in Nat, i + k <= n + 1, Singles(v, s, i, k)
  PROVE  SubSeq(s, i, i + k - 1) \in Seq(S) /\ r[i] = Cat(SubSeq(s, i, i + k - 1), r[i + k])
<1>0. /\ \A x \in Nat \ {0} : r[x] \in Seq(S)
      /\ \A x \in 1 .. n : r[x] = Cat(v[x], r[x + 1])
      /\ \A j \in i .. (i + k - 1) : v[j] = <<s[j]>>
  BY DEF Flattens, Singles
<1> DEFINE part(m) == SubSeq(s, i, i + m - 1)
           P(m) == part(m) \in Seq(S) /\ r[i] = Cat(part(m), r[i + m])
           G == {m \in 0 .. k : P(m)}
<1>1. 0 \in G
  <2>1. part(0) = <<>>
    <3>1. i \in Int /\ i + 0 - 1 \in Int /\ i > i + 0 - 1
      OBVIOUS
    <3> QED
      BY <3>1, SubSeqEmpty
  <2>2. r[i] \in Seq(S) /\ i + 0 = i
    BY <1>0
  <2> HIDE DEF part
  <2>3. Cat(part(0), r[i]) = r[i] /\ part(0) \in Seq(S)
    BY <2>1, <2>2, CatTyped, EmptySeq
  <2> QED
    BY <2>2, <2>3
<1>2. ASSUME NEW m \in 1 .. k, m - 1 \in G PROVE m \in G
  <2>1. part(m - 1) \in Seq(S) /\ r[i] = Cat(part(m - 1), r[i + (m - 1)])
    BY <1>2
  <2>2. PICK j \in 1 .. n : j = i + m - 1 /\ j = i + (m - 1) /\ j + 1 = i + m /\ j \in i .. (i + k - 1)
    <3>1. i + m - 1 \in 1 .. n /\ i + m - 1 \in i .. (i + k - 1)
      OBVIOUS
    <3> QED
      BY <3>1
  <2> DEFINE one == <<s[j]>>
  <2>3. v[j] = one
    BY <1>0, <2>2
  <2>4. one \in Seq(S)
    <3>1. s[j] \in S
      BY <2>2, ElementOfSeq
    <3> QED
      BY <3>1
  <2>5. part(m) = Cat(part(m - 1), one)
    <3>1. SubSeq(s, i, j) = SubSeq(s, i, j - 1) \o <<s[j]>>
      <4>1. i \in 1 .. Len(s) /\ j \in i .. Len(s)
        BY <2>2
      <4> QED
        BY <4>1, SubSeqRecursiveSecond, Zenon
    <3>2. i + m - 1 = j /\ i + (m - 1) - 1 = j - 1
      BY <2>2
    <3> QED
      BY <3>1, <3>2, Zenon DEF Cat
  <2> HIDE DEF part, one
  <2>6. r[j] = Cat(one, r[j + 1]) /\ r[j + 1] \in Seq(S)
    BY <1>0, <2>2, <2>3
  <2>7. Cat(Cat(part(m - 1), one), r[j + 1]) = Cat(part(m - 1), Cat(one, r[j + 1]))
    BY <2>1, <2>4, <2>6, CatAssociates
  <2>8. r[i] = Cat(part(m), r[i + m])
    BY <2>1, <2>2, <2>5, <2>6, <2>7
  <2>9. part(m) \in Seq(S)
    BY <2>1, <2>4, <2>5, CatTyped
  <2> QED
    BY <2>8, <2>9
<1>3. k \in G
  <2>1. k \in 0 .. k
    OBVIOUS
  <2> HIDE DEF G
  <2> QED
    BY <1>1, <1>2, <2>1, Upward
<1> QED
  BY <1>3

WalkJSON(f, s) ==
  f = [i \in Nat \ {0} |-> IF i > Len(s) THEN <<>> ELSE Escape(s, i) \o f[After(s, i)]]

LEMMA WalkJSONIs ==
  ASSUME NEW s \in Seq(Byte)
  PROVE  \E f : /\ Walk(s, Escape, After) = f[1]
                /\ Walks(f, [i \in 1 .. Len(s) |-> Escape(s, i)], [i \in 1 .. Len(s) |-> After(s, i)], Len(s))
<1>1. PICK n \in Nat : n = Len(s)
  BY LenProperties
<1> DEFINE c == [i \in 1 .. n |-> Escape(s, i)]
           nx == [i \in 1 .. n |-> After(s, i)]
<1>2. \A i \in 1 .. n : c[i] = Escape(s, i) /\ nx[i] = After(s, i)
  OBVIOUS
<1>3. \A i \in 1 .. n : nx[i] \in Nat /\ nx[i] > i
  <2> TAKE i \in 1 .. n
  <2>1. RuneSize(s, i) \in 1 .. 4
    BY <1>1, RuneIs
  <2> QED
    BY <1>2, <2>1 DEF After
<1> HIDE DEF c, nx
<1>4. ASSUME NEW g PROVE Walks(g, c, nx, n) <=> WalkJSON(g, s)
  <2>1. \A i \in Nat \ {0} : (IF i > n THEN <<>> ELSE Cat(c[i], g[nx[i]]))
                               = (IF i > n THEN <<>> ELSE Cat(Escape(s, i), g[After(s, i)]))
    <3> TAKE i \in Nat \ {0}
    <3>1. ~(i > n) => i \in 1 .. n
      OBVIOUS
    <3> QED
      BY <1>2, <3>1
  <2>2. [i \in Nat \ {0} |-> IF i > n THEN <<>> ELSE Cat(c[i], g[nx[i]])]
          = [i \in Nat \ {0} |-> IF i > n THEN <<>> ELSE Cat(Escape(s, i), g[After(s, i)])]
    BY <2>1
  <2> QED
    BY <1>1, <2>2, Zenon DEF Walks, WalkJSON, Cat
<1> DEFINE f == CHOOSE f : WalkJSON(f, s)
<1>5. WalkJSON(f, s)
  <2>1. \E g : Walks(g, c, nx, n)
    BY <1>3, WalkExists
  <2> QED
    BY <1>4, <2>1
<1>6. Walk(s, Escape, After) = f[1]
  BY Zenon DEF Walk, WalkJSON
<1> HIDE DEF f
<1>7. Walk(s, Escape, After) = f[1] /\ Walks(f, c, nx, n)
  BY <1>4, <1>5, <1>6
<1> QED
  BY <1>1, <1>7, Zenon DEF c, nx

LEMMA LowOrHigh == \A b \in 0 .. 255 : b \in 0 .. 193 \/ b \in 128 .. 255
OBVIOUS

LEMMA HighOf ==
  ASSUME NEW s \in Seq(Byte), NEW i \in 1 .. Len(s), RuneSize(s, i) > 1, NEW b \in 0 .. 255, b = s[i]
  PROVE  b \in 128 .. 255
<1>1. RuneSize(s, i) \in 1 .. 4 /\ RuneSize(s, i) > 1
  BY RuneIs
<1>2. RuneSize(s, i) # 1
  BY <1>1
<1>3. b \in 0 .. 193 => RuneSize(s, i) = 1
  BY RuneLow
<1>4. b \in 0 .. 193 \/ b \in 128 .. 255
  BY LowOrHigh
<1> QED
  BY <1>2, <1>3, <1>4

LEMMA KeptFrom ==
  ASSUME NEW s \in Seq(Byte), NEW n \in Nat, n = Len(s), NEW size, Sizes(size, n),
         SizeOf(size, s, n), NEW r, Flattens(r, Kept(s), n, Byte),
         NEW i \in 1 .. n, Clear(size, i), NEW k \in 1 .. 4, k = size[i], i + k <= n + 1
  PROVE  r[i] = Cat(Meaning(s, i), r[i + k])
<1>1. DOMAIN s = 1 .. n /\ i \in 1 .. Len(s)
  BY LenProperties
<1>2. PICK b \in Byte : b = s[i]
  BY <1>1, ElementOfSeq, Itself
<1>3. /\ k = 1 => Kept(s)[i] = Meaning(s, i)
      /\ k > 1 => Singles(Kept(s), s, i, k)
  BY <1>1, <1>2, KeptIs, Zenon
<1>4. k = RuneSize(s, i)
  BY DEF SizeOf
<1>5. CASE k = 1
  <2>1. r[i] = Cat(Kept(s)[i], r[i + 1])
    BY DEF Flattens
  <2> QED
    BY <1>3, <1>5, <2>1
<1>6. CASE k > 1
  <2> DEFINE v == Kept(s)
  <2>1. Singles(v, s, i, k)
    BY <1>3, <1>6
  <2>2. k \in Nat /\ Flattens(r, v, n, Byte)
    OBVIOUS
  <2> HIDE DEF v
  <2>3. r[i] = Cat(SubSeq(s, i, i + k - 1), r[i + k])
    BY <2>1, <2>2, Stretch
  <2>4. Escapes(b, k, SubSeq(s, i, i + k - 1), Escape(s, i), Meaning(s, i))
    BY <1>2, <1>4, EscapeIs DEF Byte
  <2>5. b \in 128 .. 255
    <3>1. RuneSize(s, i) > 1
      BY <1>4, <1>6
    <3> QED
      BY <1>1, <1>2, <3>1, HighOf DEF Byte
  <2>6. Meaning(s, i) = SubSeq(s, i, i + k - 1)
    BY <1>6, <2>4, <2>5 DEF Escapes
  <2> QED
    BY <2>3, <2>6
<1> QED
  BY <1>5, <1>6

LEMMA WholeOf ==
  ASSUME NEW s \in Seq(Byte)
  PROVE  /\ \A t \in Seq(Byte) : \A ss, r :
              Reads("json", In(t, ss, r), Walk(s, Escape, After), In(Cat(t, Valid(s)), ss, r))
         /\ Walk(s, Escape, After) \in Seq(32 .. 255) /\ Valid(s) \in Seq(Byte)
<1>1. PICK n \in Nat : n = Len(s) /\ DOMAIN s = 1 .. n
  BY LenProperties
<1>2. PICK f : /\ Walk(s, Escape, After) = f[1]
               /\ Walks(f, [i \in 1 .. n |-> Escape(s, i)], [i \in 1 .. n |-> After(s, i)], n)
  BY <1>1, WalkJSONIs
<1> DEFINE c == [i \in 1 .. n |-> Escape(s, i)]
           nx == [i \in 1 .. n |-> After(s, i)]
           size == [i \in 1 .. n |-> RuneSize(s, i)]
           v == Kept(s)
<1>3. \A i \in 1 .. n : c[i] = Escape(s, i) /\ nx[i] = i + size[i] /\ size[i] = RuneSize(s, i)
  BY DEF After
<1> HIDE DEF c, nx, size
<1>4. Walks(f, c, nx, n)
  BY <1>2 DEF c, nx
<1>5. Sizes(size, n)
  BY <1>1, <1>3, SizesAre
<1>6. v \in Seq(Seq(Byte)) /\ Len(v) = n
  BY <1>1, KeptTyped
<1>7. PICK r : /\ r[1] = FlattenSeq(v)
               /\ \A i \in Nat \ {0} : i > n => r[i] = <<>>
               /\ \A i \in 1 .. n : r[i] = Cat(v[i], r[i + 1])
               /\ \A i \in Nat \ {0} : r[i] \in Seq(Byte)
  BY <1>6, FlatBack
<1>8. \A i \in 1 .. n : c[i] \in Seq(32 .. 255) /\ nx[i] \in Nat /\ nx[i] > i
  <2> TAKE i \in 1 .. n
  <2>1. c[i] \in Seq(32 .. 255)
    <3>1. <<>> \in Seq(Byte) /\ i \in 1 .. Len(s)
      BY <1>1, EmptySeq
    <3> QED
      BY <1>3, <3>1, ReadsEscape
  <2>2. size[i] \in 1 .. 4
    BY <1>5 DEF Sizes
  <2> QED
    BY <1>3, <2>1, <2>2
<1>9. \A i \in Nat \ {0} : f[i] \in Seq(32 .. 255) /\ f[i] \in Seq(Byte)
  <2> DEFINE shown == 32 .. 255
  <2>1. shown \subseteq Byte
    BY DEF Byte
  <2>2. \A i \in 1 .. n : c[i] \in Seq(shown) /\ nx[i] \in Nat /\ nx[i] > i
    BY <1>8
  <2> HIDE DEF shown
  <2>3. \A i \in Nat \ {0} : f[i] \in Seq(shown)
    BY <1>4, <2>2, WalkTyped
  <2>4. \A i \in Nat \ {0} : f[i] \in Seq(Byte)
    BY <2>1, <2>3, Wider
  <2> QED
    BY <2>3, <2>4 DEF shown
<1> DEFINE P(i) == Clear(size, i) =>
                     \A t \in Seq(Byte) : \A ss, q :
                       Reads("json", In(t, ss, q), f[i], In(Cat(t, r[i]), ss, q))
           G == {i \in 1 .. n : P(i)}
<1>10. ASSUME NEW i \in Nat \ {0}, i > n PROVE P(i)
  <2>1. f[i] = <<>>
    BY <1>4, <1>10, WalkEnd
  <2>2. r[i] = <<>>
    BY <1>7, <1>10
  <2>3. ASSUME NEW t \in Seq(Byte), NEW ss, NEW q
        PROVE  Reads("json", In(t, ss, q), f[i], In(Cat(t, r[i]), ss, q))
    <3>1. Cat(t, <<>>) = t
      BY CatTyped
    <3> QED
      BY <2>1, <2>2, <3>1, ReadsNone
  <2> QED
    BY <2>3
<1>11. ASSUME NEW i \in 1 .. n, \A j \in 1 .. n : j > i => j \in G
       PROVE  i \in G
  <2> SUFFICES ASSUME Clear(size, i), NEW t \in Seq(Byte), NEW ss, NEW q
               PROVE  Reads("json", In(t, ss, q), f[i], In(Cat(t, r[i]), ss, q))
    OBVIOUS
  <2>1. PICK k \in 1 .. 4 : k = size[i] /\ k = RuneSize(s, i) /\ i + k <= n + 1
    BY <1>3, <1>5 DEF Sizes
  <2>2. PICK m \in Nat \ {0} : m = i + k /\ m > i
    <3>1. i + k \in Nat \ {0} /\ i + k > i
      OBVIOUS
    <3> QED
      BY <3>1
  <2>3. Clear(size, m)
    BY <1>5, <2>1, <2>2, ClearAfter
  <2>4. P(m)
    BY <1>10, <1>11, <2>2
  <2>5. f[i] = Cat(Escape(s, i), f[m])
    <3>1. i \in Nat \ {0} /\ i <= n
      OBVIOUS
    <3>2. f[i] = Cat(c[i], f[nx[i]])
      BY <1>4, <3>1, WalkAt
    <3> QED
      BY <1>3, <2>1, <2>2, <3>2
  <2>6. /\ Reads("json", In(t, ss, q), Escape(s, i), In(Cat(t, Meaning(s, i)), ss, q))
        /\ Escape(s, i) \in Seq(32 .. 255) /\ Meaning(s, i) \in Seq(Byte)
    BY <1>1, ReadsEscape
  <2>7. r[i] = Cat(Meaning(s, i), r[m])
    <3>1. Flattens(r, Kept(s), n, Byte) /\ SizeOf(size, s, n)
      BY <1>3, <1>7 DEF Flattens, SizeOf
    <3>2. n = Len(s) /\ k = size[i] /\ i + k <= n + 1 /\ Clear(size, i)
      BY <1>1, <2>1
    <3> HIDE DEF P, G, v
    <3>3. r[i] = Cat(Meaning(s, i), r[i + k])
      BY <1>5, <3>1, <3>2, KeptFrom
    <3> QED
      BY <2>2, <3>3
  <2> DEFINE e == Escape(s, i)
             w == Meaning(s, i)
  <2>8. e \in Seq(Byte) /\ f[m] \in Seq(Byte) /\ w \in Seq(Byte) /\ r[m] \in Seq(Byte)
    <3> DEFINE shown == 32 .. 255
    <3>1. shown \subseteq Byte
      BY DEF Byte
    <3>2. e \in Seq(shown)
      BY <2>6
    <3> HIDE DEF shown, e, w
    <3>3. e \in Seq(Byte)
      BY <3>1, <3>2, Wider
    <3> QED
      BY <1>7, <1>9, <2>6, <3>3 DEF w
  <2>9. t \in Seq(Byte) /\ Reads("json", In(t, ss, q), e, In(Cat(t, w), ss, q))
    BY <2>6
  <2>10. f[i] = Cat(e, f[m]) /\ r[i] = Cat(w, r[m])
    BY <2>5, <2>7
  <2> HIDE DEF e, w, P, G
  <2>11. Cat(t, w) \in Seq(Byte) /\ Cat(Cat(t, w), r[m]) = Cat(t, Cat(w, r[m]))
    <3>1. Cat(t, w) \in Seq(Byte)
      BY <2>8, <2>9, CatTyped
    <3>2. Cat(Cat(t, w), r[m]) = Cat(t, Cat(w, r[m]))
      BY <2>8, <2>9, CatAssociates
    <3> QED
      BY <3>1, <3>2
  <2>12. Reads("json", In(Cat(t, w), ss, q), f[m], In(Cat(Cat(t, w), r[m]), ss, q))
    BY <2>3, <2>4, <2>11 DEF P
  <2>13. Reads("json", In(t, ss, q), Cat(e, f[m]), In(Cat(Cat(t, w), r[m]), ss, q))
    BY <2>8, <2>9, <2>12, ReadsOn
  <2> QED
    BY <2>10, <2>11, <2>13
<1>12. \A i \in 1 .. n : i \in G
  <2> HIDE DEF G
  <2> QED
    BY <1>11, Downward
<1>13. P(1)
  <2>1. CASE n = 0
    <3>1. 1 \in Nat \ {0} /\ 1 > n
      BY <2>1
    <3> HIDE DEF P
    <3> QED
      BY <1>10, <3>1
  <2>2. CASE n # 0
    <3>1. 1 \in 1 .. n
      BY <2>2
    <3> HIDE DEF P
    <3> QED
      BY <1>12, <3>1
  <2> QED
    BY <2>1, <2>2
<1>14. Clear(size, 1)
  BY DEF Clear
<1>15. 1 \in Nat \ {0} /\ Valid(s) = r[1]
  BY <1>7, ValidIs
<1> HIDE DEF G, v
<1>16. f[1] \in Seq(32 .. 255) /\ r[1] \in Seq(Byte)
  BY <1>7, <1>9, <1>15
<1>17. \A t \in Seq(Byte) : \A ss, q : Reads("json", In(t, ss, q), f[1], In(Cat(t, r[1]), ss, q))
  BY <1>13, <1>14
<1> QED
  BY <1>2, <1>15, <1>16, <1>17

----
(* A string of a JSON line, a pair of them, and the line.                  *)
LEMMA ShownIsByte == ASSUME NEW s \in Seq(32 .. 255) PROVE s \in Seq(Byte)
<1> DEFINE shown == 32 .. 255
<1>1. shown \subseteq Byte
  BY DEF Byte
<1>2. s \in Seq(shown)
  OBVIOUS
<1> HIDE DEF shown
<1> QED
  BY <1>1, <1>2, Wider

LEMMA ReadsString ==
  ASSUME NEW s \in Seq(Byte), NEW ss, NEW r
  PROVE  /\ Reads("json", Outside(ss, r), JSONString(s), Outside(Append(ss, Valid(s)), r))
         /\ JSONString(s) \in Seq(32 .. 255) /\ JSONString(s) \in Seq(Byte)
<1> DEFINE w == Walk(s, Escape, After)
           q == <<34>>
           shown == 32 .. 255
<1>1. w \in Seq(shown) /\ w \in Seq(Byte) /\ Valid(s) \in Seq(Byte)
  BY WholeOf, ShownIsByte
<1>2. q \in Seq(shown) /\ q \in Seq(Byte) /\ <<>> \in Seq(Byte)
  BY EmptySeq DEF Byte
<1>3. Reads("json", Outside(ss, r), q, In(<<>>, ss, r))
  BY ReadsOne, StepOpen
<1>4. Reads("json", In(<<>>, ss, r), w, In(Cat(<<>>, Valid(s)), ss, r))
  BY <1>2, WholeOf
<1>5. Reads("json", In(Valid(s), ss, r), q, Outside(Append(ss, Valid(s)), r))
  BY ReadsOne, StepClose
<1>6. JSONString(s) = Cat(Cat(q, w), q)
  BY Zenon, CharIs DEF JSONString, Cat
<1> HIDE DEF w, q, shown
<1>7. Cat(<<>>, Valid(s)) = Valid(s)
  BY <1>1, CatTyped
<1>8. Reads("json", Outside(ss, r), Cat(q, w), In(Valid(s), ss, r))
  BY <1>1, <1>2, <1>3, <1>4, <1>7, ReadsOn
<1>9. Cat(q, w) \in Seq(Byte) /\ Cat(q, w) \in Seq(shown)
  BY <1>1, <1>2, CatTyped
<1>10. Reads("json", Outside(ss, r), Cat(Cat(q, w), q), Outside(Append(ss, Valid(s)), r))
  BY <1>2, <1>5, <1>8, <1>9, ReadsOn
<1>11. Cat(Cat(q, w), q) \in Seq(Byte) /\ Cat(Cat(q, w), q) \in Seq(shown)
  BY <1>2, <1>9, CatTyped
<1> QED
  BY <1>6, <1>10, <1>11 DEF shown

LEMMA AppendOne == ASSUME NEW S, NEW a \in S, NEW b \in S PROVE Append(<<a>>, b) = <<a, b>>
<1> DEFINE x == Append(<<a>>, b)
           y == <<a, b>>
<1>1. x \in Seq(S) /\ Len(x) = 2 /\ x[1] = a /\ x[2] = b
  OBVIOUS
<1>2. y \in Seq(S) /\ Len(y) = 2 /\ y[1] = a /\ y[2] = b
  OBVIOUS
<1> HIDE DEF x, y
<1>3. \A i \in 1 .. 2 : i = 1 \/ i = 2
  OBVIOUS
<1>4. \A i \in 1 .. Len(x) : x[i] = y[i]
  BY <1>1, <1>2, <1>3
<1>5. x = y
  BY <1>1, <1>2, <1>4, SeqEqual
<1> QED
  BY <1>5 DEF x, y

LEMMA OneOrTwo ==
  ASSUME NEW S, NEW a \in S, NEW b \in S
  PROVE  Cat(<<a>>, <<b>>) = <<a, b>> /\ <<a>> \in Seq(S) /\ <<a, b>> \in Seq(S)
<1> DEFINE s == <<a>>
<1>1. s \in Seq(S)
  OBVIOUS
<1>2. Append(s, b) = <<a, b>>
  BY AppendOne, Zenon
<1> HIDE DEF s
<1>3. Append(s, b) = Cat(s, <<b>>) /\ Append(s, b) \in Seq(S)
  BY <1>1, AppendIs
<1>4. Cat(s, <<b>>) = <<a, b>> /\ <<a, b>> \in Seq(S)
  BY <1>2, <1>3, Zenon
<1> QED
  BY <1>1, <1>4, Zenon DEF s

LEMMA TwoMore ==
  ASSUME NEW S, NEW s \in Seq(S), NEW a \in S, NEW b \in S
  PROVE  Append(Append(s, a), b) = Cat(s, <<a, b>>)
<1> DEFINE x == <<a>>
           y == <<b>>
<1>1. x \in Seq(S) /\ y \in Seq(S) /\ Cat(x, y) = <<a, b>>
  BY OneOrTwo
<1>2. Append(s, a) = Cat(s, x) /\ Append(s, a) \in Seq(S)
  BY AppendIs
<1>3. Append(Append(s, a), b) = Cat(Append(s, a), y)
  BY <1>2, AppendIs
<1> HIDE DEF x, y
<1>4. s \in Seq(S)
  OBVIOUS
<1>5. Cat(Cat(s, x), y) = Cat(s, Cat(x, y))
  <2>1. x \in Seq(S) /\ y \in Seq(S)
    BY <1>1
  <2> QED
    BY <1>4, <2>1, CatAssociates
<1> QED
  BY <1>1, <1>2, <1>3, <1>5

LEMMA ByteIsNat == Byte \subseteq Nat
BY DEF Byte

LEMMA KeyText ==
  ASSUME NEW k \in Byte
  PROVE  <<k>> \in Seq(Byte) /\ Valid(<<k>>) \in Seq(Byte)
<1> DEFINE key == <<k>>
<1>1. key \in Seq(Byte)
  OBVIOUS
<1> HIDE DEF key
<1>2. Valid(key) \in Seq(Byte)
  BY <1>1, WholeOf
<1> QED
  BY <1>1, <1>2, Zenon DEF key

LEMMA ReadsPair ==
  ASSUME NEW k \in Byte, NEW v \in Seq(Byte), NEW ss \in Seq(Seq(Byte)), NEW r \in Seq(Byte)
  PROVE  /\ Reads("json", Outside(ss, r), JSONPair(k, v),
                  Outside(Cat(ss, <<Valid(<<k>>), Valid(v)>>), Cat(r, <<58>>)))
         /\ JSONPair(k, v) \in Seq(32 .. 255) /\ JSONPair(k, v) \in Seq(Byte)
<1> DEFINE key == <<k>>
           shown == 32 .. 255
           c == <<58>>
           a == JSONString(key)
           b == JSONString(v)
           text == Valid(key)
           s1 == Append(ss, text)
           s2 == Append(s1, Valid(v))
<1>1. key \in Seq(Byte) /\ text \in Seq(Byte)
  BY KeyText
<1> HIDE DEF key, text
<1>2. c \in Seq(shown) /\ c \in Seq(Byte) /\ 58 \in Byte
  BY DEF Byte
<1>3. Reads("json", Outside(s1, r), c, Outside(s1, Append(r, 58)))
  BY ReadsOne, StepRest
<1>4. Append(r, 58) = Cat(r, c)
  BY <1>2, AppendIs
<1>5. JSONPair(k, v) = Cat(Cat(a, c), b)
  BY Zenon, CharIs DEF JSONPair, Cat, key
<1> HIDE DEF c
<1>6. /\ Reads("json", Outside(ss, r), a, Outside(s1, r))
      /\ a \in Seq(shown) /\ a \in Seq(Byte)
  BY <1>1, ReadsString DEF text
<1>7. /\ Reads("json", Outside(s1, Cat(r, c)), b, Outside(s2, Cat(r, c)))
      /\ b \in Seq(shown) /\ b \in Seq(Byte) /\ Valid(v) \in Seq(Byte)
  BY ReadsString, WholeOf
<1>8. s2 = Cat(ss, <<text, Valid(v)>>)
  <2> DEFINE T == Seq(Byte)
  <2>1. ss \in Seq(T) /\ text \in T /\ Valid(v) \in T
    BY <1>1, <1>7
  <2> HIDE DEF T
  <2> QED
    BY <2>1, TwoMore
<1> HIDE DEF a, b, s1, s2, shown
<1>9. Reads("json", Outside(ss, r), Cat(a, c), Outside(s1, Cat(r, c)))
  BY <1>2, <1>3, <1>4, <1>6, ReadsOn
<1>10. Cat(a, c) \in Seq(Byte) /\ Cat(a, c) \in Seq(shown)
  BY <1>2, <1>6, CatTyped
<1>11. Reads("json", Outside(ss, r), Cat(Cat(a, c), b), Outside(s2, Cat(r, c)))
  BY <1>7, <1>9, <1>10, ReadsOn
<1>12. Cat(Cat(a, c), b) \in Seq(Byte) /\ Cat(Cat(a, c), b) \in Seq(shown)
  BY <1>7, <1>10, CatTyped
<1> QED
  BY <1>5, <1>8, <1>11, <1>12 DEF c, key, text, shown

LEMMA ReadsNext ==
  ASSUME NEW k \in Byte, NEW v \in Seq(Byte), NEW ss \in Seq(Seq(Byte)), NEW r \in Seq(Byte)
  PROVE  /\ Reads("json", Outside(ss, r), Cat(<<44>>, JSONPair(k, v)),
                  Outside(Cat(ss, <<Valid(<<k>>), Valid(v)>>), Cat(r, Cat(<<44>>, <<58>>))))
         /\ Cat(<<44>>, JSONPair(k, v)) \in Seq(32 .. 255)
<1> DEFINE shown == 32 .. 255
           a == <<44>>
           c == <<58>>
           b == JSONPair(k, v)
           two == <<Valid(<<k>>), Valid(v)>>
<1>1. a \in Seq(shown) /\ a \in Seq(Byte) /\ 44 \in Byte /\ c \in Seq(Byte)
  BY DEF Byte
<1>2. Reads("json", Outside(ss, r), a, Outside(ss, Append(r, 44)))
  BY ReadsOne, StepRest
<1>3. Append(r, 44) = Cat(r, a) /\ Append(r, 44) \in Seq(Byte)
  BY <1>1, AppendIs
<1>4. /\ Reads("json", Outside(ss, Cat(r, a)), b, Outside(Cat(ss, two), Cat(Cat(r, a), c)))
      /\ b \in Seq(shown) /\ b \in Seq(Byte)
  <2> DEFINE r1 == Cat(r, a)
  <2>1. r1 \in Seq(Byte)
    BY <1>3
  <2> HIDE DEF r1
  <2>2. /\ Reads("json", Outside(ss, r1), b, Outside(Cat(ss, two), Cat(r1, c)))
        /\ b \in Seq(shown) /\ b \in Seq(Byte)
    BY <2>1, ReadsPair
  <2> QED
    BY <2>2 DEF r1
<1> HIDE DEF a, b, c, shown, two
<1>5. Cat(Cat(r, a), c) = Cat(r, Cat(a, c))
  <2>1. r \in Seq(Byte)
    OBVIOUS
  <2> QED
    BY <1>1, <2>1, CatAssociates
<1>6. Reads("json", Outside(ss, r), Cat(a, b), Outside(Cat(ss, two), Cat(Cat(r, a), c)))
  BY <1>1, <1>2, <1>3, <1>4, ReadsOn
<1>7. Cat(a, b) \in Seq(shown)
  BY <1>1, <1>4, CatTyped
<1>8. Reads("json", Outside(ss, r), Cat(a, b), Outside(Cat(ss, two), Cat(r, Cat(a, c))))
  BY <1>5, <1>6
<1> QED
  BY <1>7, <1>8 DEF a, b, c, shown, two

----
(* What is joined, along the way.                                          *)
Joins(p, ss, sep, n, S) ==
  /\ p[0] = <<>> /\ p[n] = Joined(ss, sep)
  /\ \A i \in 1 .. n : p[i] = Cat(p[i - 1], IF i = 1 THEN ss[i] ELSE Cat(sep, ss[i]))
  /\ \A i \in 0 .. n : p[i] \in Seq(S)

LEMMA JoinedFront ==
  ASSUME NEW S, NEW n \in Nat, NEW ss, ss \in Seq(Seq(S)), n = Len(ss), NEW sep \in Seq(S)
  PROVE  \E p : Joins(p, ss, sep, n, S)
<1> DEFINE e(i) == IF i = 1 THEN ss[i] ELSE Cat(sep, ss[i])
           c == [i \in 1 .. n |-> e(i)]
<1>1. DOMAIN ss = 1 .. n /\ \A i \in 1 .. n : ss[i] \in Seq(S)
  BY LenProperties
<1>2. ASSUME NEW i \in 1 .. n PROVE e(i) \in Seq(S)
  <2>1. ss[i] \in Seq(S) /\ sep \in Seq(S)
    BY <1>1
  <2>2. Cat(sep, ss[i]) \in Seq(S)
    BY <2>1, CatTyped
  <2> QED
    BY <2>1, <2>2
<1>3. Joined(ss, sep) = FlattenSeq(c)
  BY <1>1, Zenon DEF Joined, Cat
<1>4. \A i \in 1 .. n : c[i] = e(i)
  OBVIOUS
<1>5. Len(c) = n
  OBVIOUS
<1> HIDE DEF e
<1>6. c \in Seq(Seq(S))
  BY <1>2, IsASeq
<1> HIDE DEF c
<1>7. PICK p : /\ p[0] = <<>> /\ p[Len(c)] = FlattenSeq(c)
               /\ \A i \in 1 .. Len(c) : p[i] = Cat(p[i - 1], c[i])
               /\ \A i \in 0 .. Len(c) : p[i] \in Seq(S)
  BY <1>6, FlatFront
<1>8. /\ p[0] = <<>> /\ p[n] = Joined(ss, sep)
      /\ \A i \in 1 .. n : p[i] = Cat(p[i - 1], e(i))
      /\ \A i \in 0 .. n : p[i] \in Seq(S)
  BY <1>3, <1>4, <1>5, <1>7
<1>9. Joins(p, ss, sep, n, S)
  BY <1>8 DEF e, Joins
<1> QED
  BY <1>9

(* A JSON line, up to its pairs.                                           *)
Colons(keys) == [i \in DOMAIN keys |-> <<Char.colon>>]
Pairs(m, keys) == [i \in DOMAIN keys |-> JSONPair(keys[i], m[keys[i]])]
Texts(m, keys) == [i \in DOMAIN keys |-> <<Valid(<<keys[i]>>), Valid(m[keys[i]])>>]

PairsAre(m, keys, n) ==
  \A i \in 1 .. n : /\ Pairs(m, keys)[i] = JSONPair(keys[i], m[keys[i]])
                    /\ Colons(keys)[i] = <<58>>
                    /\ Texts(m, keys)[i] = <<Valid(<<keys[i]>>), Valid(m[keys[i]])>>

LEMMA PairsTyped ==
  ASSUME NEW n \in Nat, NEW keys \in Seq(Byte), n = Len(keys), NEW m,
         \A i \in 1 .. n : m[keys[i]] \in Seq(Byte)
  PROVE  /\ Pairs(m, keys) \in Seq(Seq(32 .. 255)) /\ Len(Pairs(m, keys)) = n
         /\ Colons(keys) \in Seq(Seq(Byte)) /\ Len(Colons(keys)) = n
         /\ Texts(m, keys) \in Seq(Seq(Seq(Byte))) /\ Len(Texts(m, keys)) = n
         /\ PairsAre(m, keys, n)
<1>1. DOMAIN keys = 1 .. n /\ \A i \in 1 .. n : keys[i] \in Byte
  BY LenProperties, ElementOfSeq
<1> DEFINE c == <<58>>
           d(i) == JSONPair(keys[i], m[keys[i]])
           t(i) == <<Valid(<<keys[i]>>), Valid(m[keys[i]])>>
<1>2. Colons(keys) = [i \in 1 .. n |-> c] /\ c \in Seq(Byte)
  BY <1>1, CharIs DEF Colons, Byte
<1>3. Pairs(m, keys) = [i \in 1 .. n |-> d(i)] /\ Texts(m, keys) = [i \in 1 .. n |-> t(i)]
  BY <1>1, Zenon DEF Pairs, Texts
<1>4. ASSUME NEW i \in 1 .. n PROVE d(i) \in Seq(32 .. 255) /\ t(i) \in Seq(Seq(Byte))
  <2>1. keys[i] \in Byte /\ m[keys[i]] \in Seq(Byte)
    BY <1>1
  <2>2. Valid(<<keys[i]>>) \in Seq(Byte) /\ Valid(m[keys[i]]) \in Seq(Byte)
    BY <2>1, KeyText, WholeOf
  <2>3. t(i) \in Seq(Seq(Byte))
    <3> DEFINE T == Seq(Byte)
    <3>1. Valid(<<keys[i]>>) \in T /\ Valid(m[keys[i]]) \in T
      BY <2>2
    <3> HIDE DEF T
    <3>2. t(i) \in Seq(T)
      BY <3>1, OneOrTwo
    <3> QED
      BY <3>2 DEF T
  <2>4. d(i) \in Seq(32 .. 255)
    <3>1. <<>> \in Seq(Seq(Byte)) /\ <<>> \in Seq(Byte)
      BY EmptySeq
    <3> QED
      BY <2>1, <3>1, ReadsPair
  <2> QED
    BY <2>3, <2>4
<1> HIDE DEF d, t, c
<1>5. /\ [i \in 1 .. n |-> d(i)] \in Seq(Seq(32 .. 255)) /\ Len([i \in 1 .. n |-> d(i)]) = n
      /\ \A i \in 1 .. n : [j \in 1 .. n |-> d(j)][i] = d(i)
  <2> DEFINE T == Seq(32 .. 255)
  <2>1. \A i \in 1 .. n : d(i) \in T
    BY <1>4
  <2> HIDE DEF T
  <2>2. [i \in 1 .. n |-> d(i)] \in Seq(T)
    BY <2>1, IsASeq
  <2> QED
    BY <2>2 DEF T
<1>6. /\ [i \in 1 .. n |-> t(i)] \in Seq(Seq(Seq(Byte))) /\ Len([i \in 1 .. n |-> t(i)]) = n
      /\ \A i \in 1 .. n : [j \in 1 .. n |-> t(j)][i] = t(i)
  <2> DEFINE T == Seq(Seq(Byte))
  <2>1. \A i \in 1 .. n : t(i) \in T
    BY <1>4
  <2> HIDE DEF T
  <2>2. [i \in 1 .. n |-> t(i)] \in Seq(T)
    BY <2>1, IsASeq
  <2> QED
    BY <2>2 DEF T
<1>7. /\ [i \in 1 .. n |-> c] \in Seq(Seq(Byte)) /\ Len([i \in 1 .. n |-> c]) = n
      /\ \A i \in 1 .. n : [j \in 1 .. n |-> c][i] = c
  <2> DEFINE T == Seq(Byte)
  <2>1. c \in T
    BY <1>2
  <2> HIDE DEF T
  <2>2. [i \in 1 .. n |-> c] \in Seq(T)
    BY <2>1, IsASeq
  <2> QED
    BY <2>2 DEF T
<1> QED
  BY <1>2, <1>3, <1>5, <1>6, <1>7 DEF c, d, t, PairsAre

LEMMA ReadsPairs ==
  ASSUME NEW n \in Nat, NEW keys \in Seq(Byte), n = Len(keys), NEW m,
         \A i \in 1 .. n : m[keys[i]] \in Seq(Byte)
  PROVE  /\ Reads("json", Outside(<<>>, <<123>>), Joined(Pairs(m, keys), <<44>>),
                  Outside(FlattenSeq(Texts(m, keys)), Cat(<<123>>, Joined(Colons(keys), <<44>>))))
         /\ Joined(Pairs(m, keys), <<44>>) \in Seq(32 .. 255)
         /\ Joined(Colons(keys), <<44>>) \in Seq(Byte)
<1> DEFINE shown == 32 .. 255
           comma == <<44>>
           colon == <<58>>
           brace == <<123>>
           pairs == Pairs(m, keys)
           colons == Colons(keys)
           texts == Texts(m, keys)
           T == Seq(Byte)
<1>1. comma \in Seq(shown) /\ comma \in T /\ colon \in T /\ brace \in T
  BY DEF Byte
<1>2. /\ pairs \in Seq(Seq(shown)) /\ Len(pairs) = n
      /\ colons \in Seq(Seq(Byte)) /\ Len(colons) = n
      /\ texts \in Seq(Seq(T)) /\ Len(texts) = n
      /\ PairsAre(m, keys, n)
  BY PairsTyped
<1>3. \A i \in 1 .. n : /\ pairs[i] = JSONPair(keys[i], m[keys[i]])
                        /\ colons[i] = colon
                        /\ texts[i] = <<Valid(<<keys[i]>>), Valid(m[keys[i]])>>
  BY <1>2 DEF PairsAre
<1> HIDE DEF shown, comma, colon, brace, pairs, colons, texts, T
<1>4. PICK p : Joins(p, pairs, comma, n, shown)
  BY <1>1, <1>2, JoinedFront
<1>5. PICK q : Joins(q, colons, comma, n, Byte)
  BY <1>1, <1>2, JoinedFront DEF T
<1>6. PICK w : /\ w[0] = <<>> /\ w[n] = FlattenSeq(texts)
               /\ \A i \in 1 .. n : w[i] = Cat(w[i - 1], texts[i])
               /\ \A i \in 0 .. n : w[i] \in Seq(T)
  <2>1. \E u : /\ u[0] = <<>> /\ u[Len(texts)] = FlattenSeq(texts)
               /\ \A i \in 1 .. Len(texts) : u[i] = Cat(u[i - 1], texts[i])
               /\ \A i \in 0 .. Len(texts) : u[i] \in Seq(T)
    BY <1>2, FlatFront
  <2> QED
    BY <1>2, <2>1
<1> DEFINE P(i) == Reads("json", Outside(<<>>, brace), p[i], Outside(w[i], Cat(brace, q[i])))
           G == {i \in 0 .. n : P(i)}
<1>7. 0 \in G
  <2>1. Cat(brace, <<>>) = brace
    BY <1>1, CatTyped DEF T
  <2> QED
    BY <1>4, <1>5, <1>6, <2>1, ReadsNone DEF Joins
<1>8. ASSUME NEW i \in 1 .. n, i - 1 \in G PROVE i \in G
  <2> DEFINE k == keys[i]
             v == m[k]
             c == IF i = 1 THEN pairs[i] ELSE Cat(comma, pairs[i])
             d == IF i = 1 THEN colons[i] ELSE Cat(comma, colons[i])
             ss == w[i - 1]
             r == Cat(brace, q[i - 1])
  <2>1. i - 1 \in 0 .. n /\ k \in Byte /\ v \in Seq(Byte)
    BY ElementOfSeq
  <2>2. Reads("json", Outside(<<>>, brace), p[i - 1], Outside(ss, r))
    BY <1>8
  <2>3. /\ p[i] = Cat(p[i - 1], c) /\ p[i - 1] \in Seq(shown)
        /\ q[i] = Cat(q[i - 1], d) /\ q[i - 1] \in T
        /\ w[i] = Cat(ss, texts[i]) /\ ss \in Seq(T)
    BY <1>4, <1>5, <1>6, <2>1 DEF Joins, T
  <2>4. r \in T
    BY <1>1, <2>3, CatTyped DEF T
  <2>5. c = IF i = 1 THEN JSONPair(k, v) ELSE Cat(comma, JSONPair(k, v))
    BY <1>3
  <2>6. d = IF i = 1 THEN colon ELSE Cat(comma, colon)
    BY <1>3
  <2>7. texts[i] = <<Valid(<<k>>), Valid(v)>>
    BY <1>3
  <2> HIDE DEF P, G, c, d, ss, r, k, v
  <2>8. d \in T
    <3>1. Cat(comma, colon) \in T
      BY <1>1, CatTyped DEF T
    <3> QED
      BY <1>1, <2>6, <3>1
  <2>9. /\ Reads("json", Outside(ss, r), c, Outside(Cat(ss, texts[i]), Cat(r, d)))
        /\ c \in Seq(shown)
    <3>1. ss \in Seq(Seq(Byte)) /\ r \in Seq(Byte)
      BY <2>3, <2>4 DEF T
    <3>2. CASE i = 1
      <4>1. /\ Reads("json", Outside(ss, r), JSONPair(k, v), Outside(Cat(ss, <<Valid(<<k>>), Valid(v)>>), Cat(r, colon)))
            /\ JSONPair(k, v) \in Seq(shown)
        BY <2>1, <3>1, ReadsPair DEF colon, shown
      <4> QED
        BY <2>5, <2>6, <2>7, <3>2, <4>1
    <3>3. CASE i # 1
      <4>1. /\ Reads("json", Outside(ss, r), Cat(comma, JSONPair(k, v)),
                     Outside(Cat(ss, <<Valid(<<k>>), Valid(v)>>), Cat(r, Cat(comma, colon))))
            /\ Cat(comma, JSONPair(k, v)) \in Seq(shown)
        BY <2>1, <3>1, ReadsNext DEF colon, comma, shown
      <4> QED
        BY <2>5, <2>6, <2>7, <3>3, <4>1
    <3> QED
      BY <3>2, <3>3
  <2>10. Cat(r, d) = Cat(brace, q[i])
    <3>1. Cat(Cat(brace, q[i - 1]), d) = Cat(brace, Cat(q[i - 1], d))
      BY <1>1, <2>3, <2>8, CatAssociates DEF T
    <3> QED
      BY <2>3, <3>1 DEF r
  <2>11. Reads("json", Outside(<<>>, brace), Cat(p[i - 1], c), Outside(Cat(ss, texts[i]), Cat(r, d)))
    BY <2>2, <2>3, <2>9, ReadsOn
  <2>12. P(i)
    BY <2>3, <2>10, <2>11 DEF P
  <2> QED
    BY <2>12 DEF G
<1>9. n \in G
  <2>1. n \in 0 .. n
    OBVIOUS
  <2> HIDE DEF G
  <2> QED
    BY <1>7, <1>8, <2>1, Upward
<1>10. /\ Reads("json", Outside(<<>>, brace), Joined(pairs, comma),
                Outside(FlattenSeq(texts), Cat(brace, Joined(colons, comma))))
       /\ Joined(pairs, comma) \in Seq(shown) /\ Joined(colons, comma) \in T
  <2>1. n \in 0 .. n
    OBVIOUS
  <2> QED
    BY <1>4, <1>5, <1>6, <1>9, <2>1 DEF Joins, T
<1> QED
  BY <1>10 DEF shown, comma, brace, pairs, colons, texts, T

LEMMA JSONOpens == Reads("json", JSONFirst, <<123>>, Outside(<<>>, <<123>>))
<1> DEFINE e == <<>>
           s == Append(e, 123)
<1>1. s = <<123>>
  OBVIOUS
<1> HIDE DEF e, s
<1>2. StepOf("json", Outside(e, e), 123) = Outside(e, Append(e, 123))
  BY StepRest
<1>3. Reads("json", Outside(e, e), <<123>>, Outside(e, Append(e, 123)))
  BY <1>2, ReadsOne
<1> QED
  BY <1>1, <1>3, Zenon DEF JSONFirst, e, s

(* JSONFormatter.Format: a JSON line has no control characters, and what   *)
(* an encoder of JSON promises reads back from it, whatever the bytes.     *)
THEOREM JSONReadsBack ==
  ASSUME NEW m, DOMAIN m \subseteq Byte, IsFiniteSet(DOMAIN m),
         \A k \in DOMAIN m : m[k] \in Seq(Byte)
  PROVE  JSONRight(m)
<1> DEFINE keys == Sorted(DOMAIN m)
           line == JSONLine(m)
           brace == <<123>>
           unbrace == <<125>>
           comma == <<44>>
           pairs == Joined(Pairs(m, keys), comma)
           colons == Joined(Colons(keys), comma)
           strings == FlattenSeq(Texts(m, keys))
           shown == 32 .. 255
           rest == Cat(Cat(brace, colons), unbrace)
<1>1. keys \in Seq(DOMAIN m)
  <2>1. DOMAIN m \subseteq Nat
    BY ByteIsNat, Zenon
  <2> QED
    BY <2>1, SortedKeys
<1>2. PICK n \in Nat : n = Len(keys)
  BY <1>1, LenProperties
<1>3. keys \in Seq(Byte) /\ \A i \in 1 .. n : m[keys[i]] \in Seq(Byte)
  <2>1. keys \in Seq(Byte)
    <3> DEFINE low == Byte
    <3>1. DOMAIN m \subseteq low
      OBVIOUS
    <3> HIDE DEF low, keys
    <3>2. keys \in Seq(low)
      BY <1>1, <3>1, Wider
    <3> QED
      BY <3>2 DEF low
  <2>2. ASSUME NEW i \in 1 .. n PROVE m[keys[i]] \in Seq(Byte)
    <3> HIDE DEF keys
    <3>1. keys[i] \in DOMAIN m
      BY <1>1, <1>2, ElementOfSeq
    <3> QED
      BY <3>1
  <2> QED
    BY <2>1, <2>2
<1> HIDE DEF keys
<1>4. /\ Reads("json", Outside(<<>>, brace), pairs, Outside(strings, Cat(brace, colons)))
      /\ pairs \in Seq(shown) /\ colons \in Seq(Byte)
  BY <1>2, <1>3, ReadsPairs
<1>5. /\ brace \in Seq(shown) /\ brace \in Seq(Byte) /\ unbrace \in Seq(shown)
      /\ unbrace \in Seq(Byte) /\ 125 \in Byte /\ 123 \in Byte
  BY DEF Byte
<1>6. Reads("json", JSONFirst, brace, Outside(<<>>, brace))
  BY JSONOpens
<1>7. Reads("json", Outside(strings, Cat(brace, colons)), unbrace, Outside(strings, Append(Cat(brace, colons), 125)))
  BY ReadsOne, StepRest
<1>8. line = Cat(Cat(brace, pairs), unbrace)
  BY Zenon, CharIs DEF JSONLine, Pairs, JSONPair, Cat, keys
<1>9. rest = <<Char.brace>> \o Joined([i \in DOMAIN keys |-> <<Char.colon>>], <<Char.comma>>) \o <<Char.unbrace>>
  BY Zenon, CharIs DEF Colons, Cat
<1> DEFINE head == Cat(brace, pairs)
           front == Cat(brace, colons)
<1> HIDE DEF line, brace, unbrace, comma, pairs, colons, strings, shown, rest
<1>10. head \in Seq(shown) /\ front \in Seq(Byte) /\ Reads("json", JSONFirst, head, Outside(strings, front))
  BY <1>4, <1>5, <1>6, CatTyped, ReadsOn
<1>11. Append(front, 125) = rest
  <2> HIDE DEF head, front
  <2>1. Append(front, 125) = Cat(front, <<125>>)
    BY <1>5, <1>10, AppendIs
  <2> QED
    BY <2>1 DEF unbrace, front, rest
<1>12. Reads("json", JSONFirst, line, Outside(strings, rest)) /\ line \in Seq(shown)
  <2>1. Reads("json", Outside(strings, front), unbrace, Outside(strings, rest))
    BY <1>7, <1>11
  <2>2. line = Cat(head, unbrace)
    BY <1>8
  <2> HIDE DEF head, front
  <2> QED
    BY <1>5, <1>10, <2>1, <2>2, CatTyped, ReadsOn
<1>13. ReadJSON(line) = Outside(strings, rest)
  <2>1. Reads("json", JSONFirst, line, ReadJSON(line))
    BY <1>12, JSONReads
  <2> QED
    BY <1>12, <2>1, ReadsSame
<1>14. ReadJSON(line).rest = rest /\ ReadJSON(line).strings = strings
  BY <1>13 DEF Outside
<1>15. \A b \in Range(line) : b >= 32
  <2>1. \A i \in DOMAIN line : line[i] \in shown
    BY <1>12, ElementOfSeq, LenProperties
  <2>2. ASSUME NEW b \in Range(line) PROVE b >= 32
    <3>1. PICK i \in DOMAIN line : b = line[i]
      BY DEF Range
    <3>2. b \in shown
      BY <2>1, <3>1
    <3> QED
      BY <3>2 DEF shown
  <2> QED
    BY <2>2
<1>16. /\ \A b \in Range(JSONLine(m)) : b >= 32
       /\ ReadJSON(JSONLine(m)).rest =
            <<Char.brace>> \o Joined([i \in DOMAIN Sorted(DOMAIN m) |-> <<Char.colon>>], <<Char.comma>>)
              \o <<Char.unbrace>>
       /\ ReadJSON(JSONLine(m)).strings =
            FlattenSeq([i \in DOMAIN Sorted(DOMAIN m) |->
                          <<Valid(<<Sorted(DOMAIN m)[i]>>), Valid(m[Sorted(DOMAIN m)[i]])>>])
  BY <1>9, <1>14, <1>15, Zenon DEF line, strings, Texts, keys
<1> QED
  BY <1>16, Zenon DEF JSONRight

----
(* The reader of logfmt, step by step.                                     *)
LEMMA ReadingIs ==
  ASSUME NEW in, NEW k, NEW v, NEW ps, NEW st, st = Reading(in, k, v, ps)
  PROVE  st.in = in /\ st.key = k /\ st.value = v /\ st.pairs = ps
BY DEF Reading

LEMMA StepKey ==
  ASSUME NEW k, NEW v, NEW ps, NEW b, b # 61, b # 32
  PROVE  StepOf("logfmt", Reading("key", k, v, ps), b) = Reading("key", Append(k, b), v, ps)
<1> DEFINE st == Reading("key", k, v, ps)
<1>1. st.in = "key" /\ st.key = k /\ st.value = v /\ st.pairs = ps
  BY ReadingIs
<1> HIDE DEF st
<1>2. LogfmtStep(st, b) = Reading("key", Append(st.key, b), st.value, st.pairs)
  BY <1>1, CharIs DEF LogfmtStep
<1> QED
  BY <1>1, <1>2 DEF StepOf, st

LEMMA StepEquals ==
  ASSUME NEW k, NEW v, NEW ps
  PROVE  StepOf("logfmt", Reading("key", k, v, ps), 61) = Reading("first", k, v, ps)
<1> DEFINE st == Reading("key", k, v, ps)
<1>1. st.in = "key" /\ st.key = k /\ st.value = v /\ st.pairs = ps
  BY ReadingIs
<1> HIDE DEF st
<1>2. LogfmtStep(st, 61) = Reading("first", st.key, st.value, st.pairs)
  BY <1>1, CharIs DEF LogfmtStep
<1> QED
  BY <1>1, <1>2 DEF StepOf, st

LEMMA StepGap ==
  ASSUME NEW k, NEW v, NEW ps
  PROVE  StepOf("logfmt", Reading("key", k, v, ps), 32) = Reading("key", k, v, ps)
<1> DEFINE st == Reading("key", k, v, ps)
<1>1. st.in = "key" /\ st.key = k /\ st.value = v /\ st.pairs = ps
  BY ReadingIs
<1> HIDE DEF st
<1>2. LogfmtStep(st, 32) = Reading("key", st.key, st.value, st.pairs)
  BY <1>1, CharIs DEF LogfmtStep
<1> QED
  BY <1>1, <1>2 DEF StepOf, st

LEMMA StepQuote ==
  ASSUME NEW k, NEW v, NEW ps
  PROVE  StepOf("logfmt", Reading("first", k, v, ps), 34) = Reading("quoted", k, v, ps)
<1> DEFINE st == Reading("first", k, v, ps)
<1>1. st.in = "first" /\ st.key = k /\ st.value = v /\ st.pairs = ps
  BY ReadingIs
<1> HIDE DEF st
<1>2. LogfmtStep(st, 34) = Reading("quoted", st.key, st.value, st.pairs)
  BY <1>1, CharIs DEF LogfmtStep
<1> QED
  BY <1>1, <1>2 DEF StepOf, st

LEMMA StepUnquote ==
  ASSUME NEW k, NEW v, NEW ps
  PROVE  StepOf("logfmt", Reading("quoted", k, v, ps), 34) = Reading("key", <<>>, <<>>, Append(ps, <<k, v>>))
<1> DEFINE st == Reading("quoted", k, v, ps)
<1>1. st.in = "quoted" /\ st.key = k /\ st.value = v /\ st.pairs = ps
  BY ReadingIs
<1> HIDE DEF st
<1>2. LogfmtStep(st, 34) = PairEnd(st)
  BY <1>1, CharIs DEF LogfmtStep
<1>3. PairEnd(st) = Reading("key", <<>>, <<>>, Append(ps, <<k, v>>))
  BY <1>1 DEF PairEnd
<1> QED
  BY <1>2, <1>3 DEF StepOf, st

LEMMA StepQuoted ==
  ASSUME NEW k, NEW v, NEW ps, NEW b, b # 34, b # 92
  PROVE  StepOf("logfmt", Reading("quoted", k, v, ps), b) = Reading("quoted", k, Append(v, b), ps)
<1> DEFINE st == Reading("quoted", k, v, ps)
<1>1. st.in = "quoted" /\ st.key = k /\ st.value = v /\ st.pairs = ps
  BY ReadingIs
<1> HIDE DEF st
<1>2. LogfmtStep(st, b) = Reading("quoted", st.key, Append(st.value, b), st.pairs)
  BY <1>1, CharIs DEF LogfmtStep
<1> QED
  BY <1>1, <1>2 DEF StepOf, st

LEMMA StepEscape ==
  ASSUME NEW k, NEW v, NEW ps
  PROVE  StepOf("logfmt", Reading("quoted", k, v, ps), 92) = Reading("escape", k, v, ps)
<1> DEFINE st == Reading("quoted", k, v, ps)
<1>1. st.in = "quoted" /\ st.key = k /\ st.value = v /\ st.pairs = ps
  BY ReadingIs
<1> HIDE DEF st
<1>2. LogfmtStep(st, 92) = Reading("escape", st.key, st.value, st.pairs)
  BY <1>1, CharIs DEF LogfmtStep
<1> QED
  BY <1>1, <1>2 DEF StepOf, st

LEMMA StepEscaped ==
  ASSUME NEW k, NEW v, NEW ps, NEW b
  PROVE  StepOf("logfmt", Reading("escape", k, v, ps), b) = Reading("quoted", k, Append(v, b), ps)
<1> DEFINE st == Reading("escape", k, v, ps)
<1>1. st.in = "escape" /\ st.key = k /\ st.value = v /\ st.pairs = ps
  BY ReadingIs
<1> HIDE DEF st
<1>2. LogfmtStep(st, b) = Reading("quoted", st.key, Append(st.value, b), st.pairs)
  BY <1>1, CharIs DEF LogfmtStep
<1> QED
  BY <1>1, <1>2 DEF StepOf, st

LEMMA StepBareEnd ==
  ASSUME NEW k, NEW v, NEW ps
  PROVE  StepOf("logfmt", Reading("bare", k, v, ps), 32) = Reading("key", <<>>, <<>>, Append(ps, <<k, v>>))
<1> DEFINE st == Reading("bare", k, v, ps)
<1>1. st.in = "bare" /\ st.key = k /\ st.value = v /\ st.pairs = ps
  BY ReadingIs
<1> HIDE DEF st
<1>2. LogfmtStep(st, 32) = PairEnd(st)
  BY <1>1, CharIs DEF LogfmtStep
<1>3. PairEnd(st) = Reading("key", <<>>, <<>>, Append(ps, <<k, v>>))
  BY <1>1 DEF PairEnd
<1> QED
  BY <1>2, <1>3 DEF StepOf, st

LEMMA StepBare ==
  ASSUME NEW k, NEW v, NEW ps, NEW b, b # 32, b # 34, NEW in \in {"first", "bare"}
  PROVE  StepOf("logfmt", Reading(in, k, v, ps), b) = Reading("bare", k, Append(v, b), ps)
<1> DEFINE st == Reading(in, k, v, ps)
<1>1. st.in = in /\ st.key = k /\ st.value = v /\ st.pairs = ps
  BY ReadingIs
<1> HIDE DEF st
<1>2. LogfmtStep(st, b) = Reading("bare", st.key, Append(st.value, b), st.pairs)
  <2>1. CASE in = "first"
    BY <1>1, <2>1, CharIs DEF LogfmtStep
  <2>2. CASE in = "bare"
    BY <1>1, <2>2, CharIs DEF LogfmtStep
  <2> QED
    BY <2>1, <2>2
<1> QED
  BY <1>1, <1>2 DEF StepOf, st

----
(* The first i elements of a sequence.                                     *)
UpTo(s, i) == SubSeq(s, 1, i)

LEMMA Fronts ==
  ASSUME NEW S, NEW s \in Seq(S), NEW n \in Nat, n = Len(s)
  PROVE  /\ UpTo(s, 0) = <<>> /\ UpTo(s, n) = s
         /\ \A i \in 0 .. n : UpTo(s, i) \in Seq(S)
         /\ \A i \in 1 .. n : UpTo(s, i) = Append(UpTo(s, i - 1), s[i])
<1>1. UpTo(s, 0) = <<>>
  BY SubSeqEmpty DEF UpTo
<1>2. UpTo(s, n) = s
  BY SubSeqFull DEF UpTo
<1>3. ASSUME NEW i \in 0 .. n PROVE UpTo(s, i) \in Seq(S)
  <2>1. 1 \in Int /\ i \in Int /\ \A j \in 1 .. i : s[j] \in S
    BY ElementOfSeq
  <2> QED
    BY <2>1, SubSeqProperties DEF UpTo
<1>4. ASSUME NEW i \in 1 .. n PROVE UpTo(s, i) = Append(UpTo(s, i - 1), s[i])
  <2>1. 1 \in 1 .. Len(s) /\ i \in 1 .. Len(s)
    OBVIOUS
  <2>2. UpTo(s, i) = Cat(UpTo(s, i - 1), <<s[i]>>)
    BY <2>1, SubSeqRecursiveSecond DEF Cat, UpTo
  <2>3. UpTo(s, i - 1) \in Seq(S) /\ s[i] \in S
    <3>1. i - 1 \in 0 .. n
      OBVIOUS
    <3>2. s[i] \in S
      BY ElementOfSeq
    <3> QED
      BY <1>3, <3>1, <3>2
  <2> QED
    BY <2>2, <2>3, AppendIs
<1> QED
  BY <1>1, <1>2, <1>3, <1>4

(* Replaced, along the way.                                                *)
Replaces(p, s, b, by, n, T) ==
  /\ p[0] = <<>> /\ p[n] = Replaced(s, b, by)
  /\ \A i \in 1 .. n : p[i] = Cat(p[i - 1], IF s[i] = b THEN by ELSE <<s[i]>>)
  /\ \A i \in 0 .. n : p[i] \in Seq(T)

LEMMA ReplacedFront ==
  ASSUME NEW S, NEW s \in Seq(S), NEW n \in Nat, n = Len(s), NEW b, NEW T, NEW by \in Seq(T),
         \A i \in 1 .. n : s[i] = b \/ s[i] \in T
  PROVE  \E p : Replaces(p, s, b, by, n, T)
<1> DEFINE e(i) == IF s[i] = b THEN by ELSE <<s[i]>>
           c == [i \in 1 .. n |-> e(i)]
<1>1. DOMAIN s = 1 .. n
  BY LenProperties
<1>2. ASSUME NEW i \in 1 .. n PROVE e(i) \in Seq(T)
  <2>1. s[i] \in T => <<s[i]>> \in Seq(T)
    OBVIOUS
  <2> QED
    BY <2>1
<1>3. Replaced(s, b, by) = FlattenSeq(c)
  BY <1>1, Zenon DEF Replaced
<1>4. \A i \in 1 .. n : c[i] = e(i)
  OBVIOUS
<1>5. Len(c) = n
  OBVIOUS
<1> HIDE DEF e
<1>6. c \in Seq(Seq(T))
  BY <1>2, IsASeq
<1> HIDE DEF c
<1>7. PICK p : /\ p[0] = <<>> /\ p[Len(c)] = FlattenSeq(c)
               /\ \A i \in 1 .. Len(c) : p[i] = Cat(p[i - 1], c[i])
               /\ \A i \in 0 .. Len(c) : p[i] \in Seq(T)
  BY <1>6, FlatFront
<1>8. Replaces(p, s, b, by, n, T)
  BY <1>3, <1>4, <1>5, <1>7 DEF e, Replaces
<1> QED
  BY <1>8

LEMMA ReadsQuoted ==
  ASSUME NEW S, NEW v \in Seq(S), NEW n \in Nat, n = Len(v), 34 \in S, 92 \in S,
         \A i \in 1 .. n : v[i] # 92, NEW k, NEW ps
  PROVE  /\ Reads("logfmt", Reading("quoted", k, <<>>, ps), Replaced(v, 34, <<92, 34>>),
                  Reading("quoted", k, v, ps))
         /\ Replaced(v, 34, <<92, 34>>) \in Seq(S)
<1> DEFINE by == <<92, 34>>
           empty == <<>>
<1>1. by \in Seq(S)
  BY OneOrTwo
<1>2. \A i \in 1 .. n : v[i] \in S
  BY ElementOfSeq
<1>3. /\ UpTo(v, 0) = empty /\ UpTo(v, n) = v
      /\ \A i \in 0 .. n : UpTo(v, i) \in Seq(S)
      /\ \A i \in 1 .. n : UpTo(v, i) = Append(UpTo(v, i - 1), v[i])
  BY Fronts
<1>4. ASSUME NEW x, NEW b \in S, b # 92
      PROVE  Reads("logfmt", Reading("quoted", k, x, ps), IF b = 34 THEN by ELSE <<b>>,
                   Reading("quoted", k, Append(x, b), ps))
  <2>1. CASE b = 34
    <3> DEFINE one == <<92>>
    <3>1. Reads("logfmt", Reading("quoted", k, x, ps), one, Reading("escape", k, x, ps))
      BY ReadsOne, StepEscape
    <3>2. one \in Seq(S)
      OBVIOUS
    <3>3. Append(one, 34) = by
      BY AppendOne
    <3> HIDE DEF one, by
    <3>4. Reads("logfmt", Reading("quoted", k, x, ps), Append(one, 34), Reading("quoted", k, Append(x, 34), ps))
      <4>1. StepOf("logfmt", Reading("escape", k, x, ps), 34) = Reading("quoted", k, Append(x, 34), ps)
        BY StepEscaped
      <4> QED
        BY <3>1, <3>2, <4>1, ReadsMore
    <3> QED
      BY <2>1, <3>3, <3>4
  <2>2. CASE b # 34
    <3>1. StepOf("logfmt", Reading("quoted", k, x, ps), b) = Reading("quoted", k, Append(x, b), ps)
      BY <1>4, <2>2, StepQuoted
    <3> QED
      BY <2>2, <3>1, ReadsOne
  <2> QED
    BY <2>1, <2>2
<1>5. \A i \in 1 .. n : (IF v[i] = 34 THEN by ELSE <<v[i]>>) \in Seq(S)
  <2> TAKE i \in 1 .. n
  <2>1. v[i] \in S
    BY <1>2
  <2>2. <<v[i]>> \in Seq(S)
    BY <2>1
  <2> QED
    BY <1>1, <2>2
<1> HIDE DEF by, empty
<1>6. PICK p : Replaces(p, v, 34, by, n, S)
  BY <1>1, <1>2, ReplacedFront
<1>7. /\ p[0] = empty /\ p[n] = Replaced(v, 34, by)
      /\ \A i \in 1 .. n : p[i] = Cat(p[i - 1], IF v[i] = 34 THEN by ELSE <<v[i]>>)
      /\ \A i \in 0 .. n : p[i] \in Seq(S)
  BY <1>6 DEF Replaces, empty
<1> DEFINE P(i) == Reads("logfmt", Reading("quoted", k, empty, ps), p[i], Reading("quoted", k, UpTo(v, i), ps))
           G == {i \in 0 .. n : P(i)}
<1>8. 0 \in G
  BY <1>3, <1>7, ReadsNone DEF empty
<1>9. ASSUME NEW i \in 1 .. n, i - 1 \in G PROVE i \in G
  <2> DEFINE c == IF v[i] = 34 THEN by ELSE <<v[i]>>
  <2>1. P(i - 1) /\ i - 1 \in 0 .. n
    BY <1>9
  <2>2. Reads("logfmt", Reading("quoted", k, UpTo(v, i - 1), ps), c,
              Reading("quoted", k, Append(UpTo(v, i - 1), v[i]), ps))
    BY <1>2, <1>4
  <2>3. c \in Seq(S) /\ p[i - 1] \in Seq(S) /\ p[i] = Cat(p[i - 1], c)
    BY <1>5, <1>7, <2>1
  <2>4. Append(UpTo(v, i - 1), v[i]) = UpTo(v, i)
    BY <1>3
  <2> HIDE DEF c, G
  <2>5. P(i)
    BY <2>1, <2>2, <2>3, <2>4, ReadsOn
  <2> QED
    BY <2>5 DEF G
<1>10. n \in G
  <2>1. n \in 0 .. n
    OBVIOUS
  <2> HIDE DEF G
  <2> QED
    BY <1>8, <1>9, <2>1, Upward
<1>11. n \in 0 .. n
  OBVIOUS
<1>12. /\ Reads("logfmt", Reading("quoted", k, empty, ps), Replaced(v, 34, by), Reading("quoted", k, v, ps))
       /\ Replaced(v, 34, by) \in Seq(S)
  BY <1>3, <1>7, <1>10, <1>11
<1> QED
  BY <1>12 DEF by, empty

LEMMA ReadsBare ==
  ASSUME NEW S, NEW v \in Seq(S), NEW n \in Nat, n = Len(v), n # 0,
         \A i \in 1 .. n : v[i] # 32 /\ v[i] # 34, NEW k, NEW ps
  PROVE  Reads("logfmt", Reading("first", k, <<>>, ps), v, Reading("bare", k, v, ps))
<1> DEFINE empty == <<>>
<1>1. /\ UpTo(v, 0) = empty /\ UpTo(v, n) = v
      /\ \A i \in 1 .. n : UpTo(v, i) = Append(UpTo(v, i - 1), v[i])
  BY Fronts
<1> HIDE DEF empty
<1> DEFINE c == [i \in 0 .. n |-> Reading(IF i = 0 THEN "first" ELSE "bare", k, UpTo(v, i), ps)]
<1>2. \A i \in 0 .. n : c[i] = Reading(IF i = 0 THEN "first" ELSE "bare", k, UpTo(v, i), ps)
  OBVIOUS
<1> HIDE DEF c
<1>3. c[0] = Reading("first", k, empty, ps) /\ c[n] = Reading("bare", k, v, ps)
  BY <1>1, <1>2
<1>4. ASSUME NEW i \in 1 .. n PROVE c[i] = StepOf("logfmt", c[i - 1], v[i])
  <2> DEFINE in == IF i - 1 = 0 THEN "first" ELSE "bare"
  <2>1. i - 1 \in 0 .. n /\ i \in 0 .. n /\ in \in {"first", "bare"} /\ v[i] # 32 /\ v[i] # 34
    OBVIOUS
  <2>2. c[i - 1] = Reading(in, k, UpTo(v, i - 1), ps)
    BY <1>2, <2>1
  <2>3. c[i] = Reading("bare", k, UpTo(v, i), ps)
    BY <1>2, <2>1
  <2> HIDE DEF in
  <2>4. StepOf("logfmt", Reading(in, k, UpTo(v, i - 1), ps), v[i])
          = Reading("bare", k, Append(UpTo(v, i - 1), v[i]), ps)
    BY <2>1, StepBare
  <2> QED
    BY <1>1, <2>2, <2>3, <2>4
<1>5. Path(c, "logfmt", Reading("first", k, empty, ps), v, Reading("bare", k, v, ps))
  BY <1>3, <1>4 DEF Path
<1> QED
  BY <1>5 DEF Reads, empty

(* Where the reader is left by a pair: after a closing quote, or in a bare *)
(* value that the next space or the end of the line closes.                *)
Left(k, v, ps) == IF NeedsQuoting(v) THEN Reading("key", <<>>, <<>>, Append(ps, <<<<k>>, v>>))
                  ELSE Reading("bare", <<k>>, v, ps)

LEMMA ReadsKey ==
  ASSUME NEW k \in Byte, k # 61, k # 32, NEW ps
  PROVE  /\ Reads("logfmt", Reading("key", <<>>, <<>>, ps), <<k, 61>>, Reading("first", <<k>>, <<>>, ps))
         /\ <<k, 61>> \in Seq(Byte) /\ <<k>> \in Seq(Byte)
<1> DEFINE empty == <<>>
           one == <<k>>
<1>1. Append(empty, k) = one
  OBVIOUS
<1>2. one \in Seq(Byte) /\ 61 \in Byte
  BY DEF Byte
<1>3. Append(one, 61) = <<k, 61>> /\ <<k, 61>> \in Seq(Byte)
  BY <1>2, AppendOne, OneOrTwo
<1> HIDE DEF empty
<1>4. Reads("logfmt", Reading("key", empty, empty, ps), one, Reading("key", one, empty, ps))
  <2>1. StepOf("logfmt", Reading("key", empty, empty, ps), k) = Reading("key", Append(empty, k), empty, ps)
    BY StepKey
  <2>2. Reads("logfmt", Reading("key", empty, empty, ps), <<k>>, Reading("key", Append(empty, k), empty, ps))
    BY <2>1, ReadsOne
  <2> QED
    BY <1>1, <2>2, Zenon DEF one
<1> HIDE DEF one
<1>5. Reads("logfmt", Reading("key", empty, empty, ps), Append(one, 61), Reading("first", one, empty, ps))
  BY <1>2, <1>4, ReadsMore, StepEquals
<1> QED
  BY <1>2, <1>3, <1>5, Zenon DEF one, empty

LEMMA QuotingIs ==
  ASSUME NEW v \in Seq(Byte), ~NeedsQuoting(v)
  PROVE  Len(v) # 0 /\ \A i \in 1 .. Len(v) : v[i] # 32 /\ v[i] # 34
<1>1. v # <<>> /\ \A b \in Range(v) : ~(b <= 32 \/ b \in {34, 61, 92})
  BY CharIs DEF NeedsQuoting
<1>2. Len(v) # 0
  BY <1>1, NoneOf
<1>3. ASSUME NEW i \in 1 .. Len(v) PROVE v[i] # 32 /\ v[i] # 34
  <2>1. v[i] \in Range(v)
    <3>1. i \in DOMAIN v
      BY LenProperties
    <3> QED
      BY <3>1 DEF Range
  <2>2. \A b \in Range(v) : b # 32 /\ b # 34
    BY <1>1
  <2> QED
    BY <2>1, <2>2
<1> QED
  BY <1>2, <1>3

LEMMA ReadsLogfmtPair ==
  ASSUME NEW k \in Byte, k # 61, k # 32, NEW v \in Seq(Byte), \A i \in 1 .. Len(v) : v[i] # 92, NEW ps
  PROVE  /\ Reads("logfmt", Reading("key", <<>>, <<>>, ps), LogfmtPair(k, v), Left(k, v, ps))
         /\ LogfmtPair(k, v) \in Seq(Byte)
<1> DEFINE empty == <<>>
           one == <<k>>
           head == <<k, 61>>
           q == <<34>>
           w == Replaced(v, 34, <<92, 34>>)
           done == Append(ps, <<one, v>>)
<1>1. /\ Reads("logfmt", Reading("key", empty, empty, ps), head, Reading("first", one, empty, ps))
      /\ head \in Seq(Byte) /\ one \in Seq(Byte)
  BY ReadsKey
<1>2. 34 \in Byte /\ 92 \in Byte /\ q \in Seq(Byte)
  BY DEF Byte
<1>3. LogfmtPair(k, v) = Cat(head, IF NeedsQuoting(v) THEN Cat(Cat(q, w), q) ELSE v)
  BY Zenon, CharIs DEF LogfmtPair, Cat
<1>4. Left(k, v, ps) = IF NeedsQuoting(v) THEN Reading("key", empty, empty, done)
                       ELSE Reading("bare", one, v, ps)
  BY DEF Left
<1>5. PICK n \in Nat : n = Len(v)
  BY LenProperties
<1>6. Reads("logfmt", Reading("quoted", one, empty, ps), w, Reading("quoted", one, v, ps)) /\ w \in Seq(Byte)
  BY <1>2, <1>5, ReadsQuoted
<1>7. Reads("logfmt", Reading("first", one, empty, ps), q, Reading("quoted", one, empty, ps))
  BY ReadsOne, StepQuote
<1>8. Reads("logfmt", Reading("quoted", one, v, ps), q, Reading("key", empty, empty, done))
  BY ReadsOne, StepUnquote
<1>9. ~NeedsQuoting(v) => Reads("logfmt", Reading("first", one, empty, ps), v, Reading("bare", one, v, ps))
  BY <1>5, QuotingIs, ReadsBare
<1> HIDE DEF empty, one, head, q, w, done
<1>10. Cat(q, w) \in Seq(Byte) /\ Reads("logfmt", Reading("first", one, empty, ps), Cat(q, w), Reading("quoted", one, v, ps))
  BY <1>2, <1>6, <1>7, CatTyped, ReadsOn
<1> DEFINE qwq == Cat(Cat(q, w), q)
<1>11. qwq \in Seq(Byte) /\ Reads("logfmt", Reading("first", one, empty, ps), qwq, Reading("key", empty, empty, done))
  BY <1>2, <1>8, <1>10, CatTyped, ReadsOn
<1> HIDE DEF qwq
<1>12. CASE NeedsQuoting(v)
  <2>1. /\ Cat(head, qwq) \in Seq(Byte)
        /\ Reads("logfmt", Reading("key", empty, empty, ps), Cat(head, qwq), Reading("key", empty, empty, done))
    BY <1>1, <1>11, CatTyped, ReadsOn
  <2>2. LogfmtPair(k, v) = Cat(head, qwq) /\ Left(k, v, ps) = Reading("key", empty, empty, done)
    BY <1>3, <1>4, <1>12 DEF qwq
  <2> QED
    BY <2>1, <2>2 DEF empty
<1>13. CASE ~NeedsQuoting(v)
  <2>1. v \in Seq(Byte)
    OBVIOUS
  <2>2. /\ Cat(head, v) \in Seq(Byte)
        /\ Reads("logfmt", Reading("key", empty, empty, ps), Cat(head, v), Reading("bare", one, v, ps))
    BY <1>1, <1>9, <1>13, <2>1, CatTyped, ReadsOn
  <2>3. LogfmtPair(k, v) = Cat(head, v) /\ Left(k, v, ps) = Reading("bare", one, v, ps)
    BY <1>3, <1>4, <1>13
  <2> QED
    BY <2>2, <2>3 DEF empty
<1> QED
  BY <1>12, <1>13

LEMMA ReadsGap ==
  ASSUME NEW k, NEW v, NEW ps
  PROVE  Reads("logfmt", Left(k, v, ps), <<32>>, Reading("key", <<>>, <<>>, Append(ps, <<<<k>>, v>>)))
<1> DEFINE done == Append(ps, <<<<k>>, v>>)
           one == <<k>>
           empty == <<>>
<1>1. NeedsQuoting(v) => Left(k, v, ps) = Reading("key", empty, empty, done)
  BY DEF Left
<1>2. ~NeedsQuoting(v) => Left(k, v, ps) = Reading("bare", one, v, ps)
  BY DEF Left
<1>3. done = Append(ps, <<one, v>>)
  OBVIOUS
<1> HIDE DEF one, empty, done
<1>4. StepOf("logfmt", Reading("key", empty, empty, done), 32) = Reading("key", empty, empty, done)
  BY StepGap
<1>5. StepOf("logfmt", Reading("bare", one, v, ps), 32) = Reading("key", empty, empty, done)
  BY <1>3, StepBareEnd DEF empty
<1>6. StepOf("logfmt", Left(k, v, ps), 32) = Reading("key", empty, empty, done)
  BY <1>1, <1>2, <1>4, <1>5
<1>7. Reads("logfmt", Left(k, v, ps), <<32>>, Reading("key", empty, empty, done))
  BY <1>6, ReadsOne
<1> QED
  BY <1>7 DEF empty, done

LEMMA LeftIs ==
  ASSUME NEW k, NEW v, NEW ps, NEW q, q = Left(k, v, ps)
  PROVE  (IF q.in \in {"first", "bare"} THEN PairEnd(q).pairs ELSE q.pairs) = Append(ps, <<<<k>>, v>>)
<1> DEFINE done == Append(ps, <<<<k>>, v>>)
           one == <<k>>
           empty == <<>>
<1>1. NeedsQuoting(v) => q = Reading("key", empty, empty, done)
  BY DEF Left
<1>2. ~NeedsQuoting(v) => q = Reading("bare", one, v, ps)
  BY DEF Left
<1>3. done = Append(ps, <<one, v>>)
  OBVIOUS
<1> HIDE DEF one, empty, done
<1>4. CASE NeedsQuoting(v)
  <2>1. q.in = "key" /\ q.pairs = done
    BY <1>1, <1>4, ReadingIs
  <2> QED
    BY <2>1 DEF done
<1>5. CASE ~NeedsQuoting(v)
  <2>1. q.in = "bare" /\ q.key = one /\ q.value = v /\ q.pairs = ps
    BY <1>2, <1>5, ReadingIs
  <2>2. PairEnd(q) = Reading("key", <<>>, <<>>, done)
    BY <1>3, <2>1 DEF PairEnd
  <2>3. PairEnd(q).pairs = done
    BY <2>2, ReadingIs
  <2> QED
    BY <2>1, <2>3 DEF done
<1> QED
  BY <1>4, <1>5

----
(* A logfmt line.                                                          *)
LEMMA OrderTyped ==
  ASSUME NEW m, DOMAIN m \subseteq Nat, IsFiniteSet(DOMAIN m), NEW S, CoreOrder \in Seq(S)
  PROVE  Order(m) \in Seq(DOMAIN m)
<1> DEFINE e(i) == IF CoreOrder[i] \in DOMAIN m THEN <<CoreOrder[i]>> ELSE <<>>
           T == DOMAIN m
           rest == T \ Range(CoreOrder)
           after == Sorted(rest)
<1>1. PICK n \in Nat : n = Len(CoreOrder) /\ DOMAIN CoreOrder = 1 .. n
  BY LenProperties
<1> DEFINE c == [i \in 1 .. n |-> e(i)]
<1>2. ASSUME NEW i \in 1 .. n PROVE e(i) \in Seq(T)
  <2>1. CoreOrder[i] \in T => <<CoreOrder[i]>> \in Seq(T)
    OBVIOUS
  <2> QED
    BY <2>1, EmptySeq
<1>3. after \in Seq(T)
  <2>1. rest \subseteq Nat /\ rest \subseteq T /\ IsFiniteSet(rest)
    BY FS_Subset
  <2> HIDE DEF rest, T
  <2>2. after \in Seq(rest)
    BY <2>1, SortedKeys
  <2> HIDE DEF after
  <2> QED
    BY <2>1, <2>2, Wider
<1>4. Order(m) = Cat(FlattenSeq(c), after)
  BY <1>1, Zenon DEF Order, Cat
<1> HIDE DEF e
<1>5. c \in Seq(Seq(T))
  BY <1>2, IsASeq
<1> HIDE DEF c, T, after
<1>6. FlattenSeq(c) \in Seq(T)
  <2>1. PICK p : p[Len(c)] = FlattenSeq(c) /\ \A i \in 0 .. Len(c) : p[i] \in Seq(T)
    BY <1>5, FlatFront
  <2>2. Len(c) \in 0 .. Len(c)
    BY <1>5, LenProperties
  <2> QED
    BY <2>1, <2>2
<1> QED
  BY <1>3, <1>4, <1>6, CatTyped DEF T

(* What the reader is to find, and where it is after i pairs of the line.  *)
Found(m, ord) == [i \in DOMAIN ord |-> <<<<ord[i]>>, m[ord[i]]>>]
AfterPairs(m, ord, i) ==
  IF i = 0 THEN LogfmtFirst ELSE Left(ord[i], m[ord[i]], UpTo(Found(m, ord), i - 1))

LEMMA FoundIs ==
  ASSUME NEW S, NEW ord \in Seq(S), NEW n \in Nat, n = Len(ord), NEW m
  PROVE  /\ \E T : Found(m, ord) \in Seq(T)
         /\ Len(Found(m, ord)) = n
         /\ UpTo(Found(m, ord), 0) = <<>> /\ UpTo(Found(m, ord), n) = Found(m, ord)
         /\ \A i \in 1 .. n : UpTo(Found(m, ord), i)
                                = Append(UpTo(Found(m, ord), i - 1), <<<<ord[i]>>, m[ord[i]]>>)
<1> DEFINE e(i) == <<<<ord[i]>>, m[ord[i]]>>
           T == {e(i) : i \in 1 .. n}
           w == [i \in 1 .. n |-> e(i)]
<1>1. Found(m, ord) = w
  <2>1. DOMAIN ord = 1 .. n
    BY LenProperties
  <2> QED
    BY <2>1, Zenon DEF Found
<1>2. \A i \in 1 .. n : e(i) \in T
  OBVIOUS
<1> HIDE DEF e, T
<1>3. w \in Seq(T)
  BY <1>2, IsASeq
<1>4. Len(w) = n /\ \A i \in 1 .. n : w[i] = e(i)
  OBVIOUS
<1> HIDE DEF w
<1>5. /\ UpTo(w, 0) = <<>> /\ UpTo(w, n) = w
      /\ \A i \in 1 .. n : UpTo(w, i) = Append(UpTo(w, i - 1), w[i])
  BY <1>3, <1>4, Fronts
<1> QED
  BY <1>1, <1>3, <1>4, <1>5 DEF e

Clean(m, ord, n) ==
  \A i \in 1 .. n : m[ord[i]] \in Seq(Byte) /\ \A j \in 1 .. Len(m[ord[i]]) : m[ord[i]][j] # 92
LogfmtPairs(m, ord) == [i \in DOMAIN ord |-> LogfmtPair(ord[i], m[ord[i]])]

LEMMA ReadsLogfmtPairs ==
  ASSUME NEW m, NEW n \in Nat, NEW ord \in Seq(Byte \ {61, 32}), n = Len(ord), Clean(m, ord, n),
         NEW line, line = Joined(LogfmtPairs(m, ord), << 32 >>)
  PROVE  Reads("logfmt", LogfmtFirst, line, AfterPairs(m, ord, n)) /\ line \in Seq(Byte)
<1> DEFINE e(i) == LogfmtPair(ord[i], m[ord[i]])
           pairs == [i \in 1 .. n |-> e(i)]
           gap == <<32>>
           found == Found(m, ord)
           empty == <<>>
<1>1. DOMAIN ord = 1 .. n /\ \A i \in 1 .. n : ord[i] \in Byte \ {61, 32}
  BY LenProperties, ElementOfSeq
<1>2. gap \in Seq(Byte)
  BY DEF Byte
<1>3. ASSUME NEW i \in 1 .. n, NEW ps
      PROVE  /\ Reads("logfmt", Reading("key", empty, empty, ps), e(i), Left(ord[i], m[ord[i]], ps))
             /\ e(i) \in Seq(Byte)
  <2>1. /\ ord[i] \in Byte /\ ord[i] # 61 /\ ord[i] # 32
        /\ m[ord[i]] \in Seq(Byte) /\ \A j \in 1 .. Len(m[ord[i]]) : m[ord[i]][j] # 92
    BY <1>1 DEF Clean
  <2> QED
    BY <2>1, ReadsLogfmtPair
<1>4. \A i \in 1 .. n : e(i) \in Seq(Byte)
  BY <1>3
<1>5. /\ UpTo(found, 0) = empty
      /\ \A i \in 1 .. n : UpTo(found, i) = Append(UpTo(found, i - 1), <<<<ord[i]>>, m[ord[i]]>>)
  BY FoundIs
<1> HIDE DEF e, gap, found
<1>6. Len(pairs) = n /\ \A i \in 1 .. n : pairs[i] = e(i)
  OBVIOUS
<1>7. pairs \in Seq(Seq(Byte))
  BY <1>4, IsASeq
<1> HIDE DEF pairs
<1>8. PICK p : Joins(p, pairs, gap, n, Byte)
  BY <1>2, <1>6, <1>7, JoinedFront
<1>9. /\ p[0] = empty /\ p[n] = Joined(pairs, gap)
      /\ \A i \in 1 .. n : p[i] = Cat(p[i - 1], IF i = 1 THEN e(i) ELSE Cat(gap, e(i)))
      /\ \A i \in 0 .. n : p[i] \in Seq(Byte)
  BY <1>6, <1>8 DEF Joins
<1> HIDE DEF empty
<1> DEFINE st(i) == AfterPairs(m, ord, i)
           P(i) == Reads("logfmt", LogfmtFirst, p[i], st(i))
           G == {i \in 0 .. n : P(i)}
<1>10. 0 \in G
  <2>1. st(0) = LogfmtFirst
    BY DEF AfterPairs
  <2>2. Reads("logfmt", LogfmtFirst, empty, LogfmtFirst)
    BY ReadsNone DEF empty
  <2> QED
    BY <1>9, <2>1, <2>2
<1>11. ASSUME NEW i \in 1 .. n, i - 1 \in G PROVE i \in G
  <2> DEFINE c == IF i = 1 THEN e(i) ELSE Cat(gap, e(i))
             before == UpTo(found, i - 1)
  <2>1. P(i - 1) /\ i - 1 \in 0 .. n
    BY <1>11
  <2>2. st(i) = Left(ord[i], m[ord[i]], before)
    BY DEF AfterPairs, found
  <2>3. /\ Reads("logfmt", Reading("key", empty, empty, before), e(i), Left(ord[i], m[ord[i]], before))
        /\ e(i) \in Seq(Byte)
    BY <1>3
  <2>4. p[i] = Cat(p[i - 1], c) /\ p[i - 1] \in Seq(Byte)
    BY <1>9, <2>1
  <2>5. Reads("logfmt", st(i - 1), c, st(i)) /\ c \in Seq(Byte)
    <3>1. CASE i = 1
      <4>1. before = empty /\ st(i - 1) = LogfmtFirst
        BY <1>5, <3>1 DEF AfterPairs
      <4>2. LogfmtFirst = Reading("key", empty, empty, empty)
        BY DEF LogfmtFirst, empty
      <4> HIDE DEF st, before
      <4> QED
        BY <2>2, <2>3, <3>1, <4>1, <4>2
    <3>2. CASE i # 1
      <4> DEFINE prev == UpTo(found, i - 1 - 1)
                 k == ord[i - 1]
                 v == m[ord[i - 1]]
      <4>1. i - 1 \in 1 .. n /\ i - 1 # 0
        BY <3>2
      <4>2. st(i - 1) = Left(k, v, prev)
        BY <4>1 DEF AfterPairs, found
      <4>3. before = Append(prev, <<<<k>>, v>>)
        BY <1>5, <4>1
      <4> HIDE DEF st, before, prev, k, v
      <4>4. Reads("logfmt", Left(k, v, prev), gap, Reading("key", empty, empty, before))
        BY <4>3, ReadsGap DEF gap, empty
      <4>5. Cat(gap, e(i)) \in Seq(Byte) /\ Reads("logfmt", st(i - 1), Cat(gap, e(i)), st(i))
        BY <1>2, <2>2, <2>3, <4>2, <4>4, CatTyped, ReadsOn
      <4> QED
        BY <3>2, <4>5
    <3> QED
      BY <3>1, <3>2
  <2> HIDE DEF c, st, before
  <2>6. P(i)
    BY <2>1, <2>4, <2>5, ReadsOn
  <2> QED
    BY <2>6
<1>12. n \in G
  <2>1. n \in 0 .. n
    OBVIOUS
  <2> HIDE DEF G
  <2> QED
    BY <1>10, <1>11, <2>1, Upward
<1>13. n \in 0 .. n
  OBVIOUS
<1>14. Reads("logfmt", LogfmtFirst, Joined(pairs, gap), AfterPairs(m, ord, n)) /\ Joined(pairs, gap) \in Seq(Byte)
  BY <1>9, <1>12, <1>13
<1>15. pairs = LogfmtPairs(m, ord)
  BY <1>1, Zenon DEF pairs, e, LogfmtPairs
<1> QED
  BY <1>14, <1>15, Zenon DEF gap

(* LogfmtFormatter.Format: a logfmt line reads back as its values in the   *)
(* order promised, unless one of them holds a backslash or a key holds a   *)
(* space or equals sign.                                                   *)
THEOREM LogfmtReadsBack ==
  ASSUME NEW m, DOMAIN m \subseteq Byte, IsFiniteSet(DOMAIN m),
         \A k \in DOMAIN m : m[k] \in Seq(Byte), NEW S, CoreOrder \in Seq(S)
  PROVE  LogfmtRight(m)
<1> SUFFICES ASSUME \A k \in DOMAIN m : k \notin {32, 61} /\ 92 \notin Range(m[k])
             PROVE  ReadLogfmt(LogfmtLine(m)) = Found(m, Order(m))
  BY Zenon, CharIs DEF LogfmtRight, Found
<1> DEFINE ord == Order(m)
           line == LogfmtLine(m)
           K == DOMAIN m
           B == Byte \ {61, 32}
           last == LogfmtLast(line)
           found == Found(m, ord)
<1>1. K \subseteq Nat
  BY ByteIsNat, Zenon
<1>2. ord \in Seq(K)
  BY <1>1, OrderTyped
<1>3. PICK n \in Nat : n = Len(ord)
  BY <1>2, LenProperties
<1>4. Clean(m, ord, n)
  <2> SUFFICES ASSUME NEW i \in 1 .. n
               PROVE  m[ord[i]] \in Seq(Byte) /\ \A j \in 1 .. Len(m[ord[i]]) : m[ord[i]][j] # 92
    BY DEF Clean
  <2> HIDE DEF ord
  <2>1. ord[i] \in K
    BY <1>2, <1>3, ElementOfSeq
  <2>2. m[ord[i]] \in Seq(Byte) /\ 92 \notin Range(m[ord[i]])
    BY <2>1
  <2>3. DOMAIN m[ord[i]] = 1 .. Len(m[ord[i]])
    BY <2>2, LenProperties
  <2> QED
    BY <2>2, <2>3 DEF Range
<1>5. ord \in Seq(B)
  <2> HIDE DEF ord
  <2>1. K \subseteq B
    OBVIOUS
  <2> HIDE DEF K, B
  <2> QED
    BY <1>2, <2>1, Wider
<1>6. line = Joined(LogfmtPairs(m, ord), <<32>>)
  BY Zenon, CharIs DEF LogfmtLine, LogfmtPairs
<1>7. ReadLogfmt(line) = IF last.in \in {"first", "bare"} THEN PairEnd(last).pairs ELSE last.pairs
  BY Zenon DEF ReadLogfmt, LogfmtLast, LogfmtFirst
<1> HIDE DEF ord
<1> HIDE DEF line
<1>8. Reads("logfmt", LogfmtFirst, line, AfterPairs(m, ord, n)) /\ line \in Seq(Byte)
  BY <1>3, <1>4, <1>5, <1>6, ReadsLogfmtPairs
<1> HIDE DEF found, K, B
<1>9. last = AfterPairs(m, ord, n)
  <2>1. Reads("logfmt", LogfmtFirst, line, last)
    BY <1>8, LogfmtReads
  <2> QED
    BY <1>8, <2>1, ReadsSame
<1> HIDE DEF last
<1>10. /\ UpTo(found, 0) = <<>> /\ UpTo(found, n) = found
       /\ \A i \in 1 .. n : UpTo(found, i) = Append(UpTo(found, i - 1), <<<<ord[i]>>, m[ord[i]]>>)
  BY <1>2, <1>3, FoundIs DEF found
<1>11. CASE n = 0
  <2>1. last = Reading("key", <<>>, <<>>, <<>>)
    BY <1>9, <1>11 DEF AfterPairs, LogfmtFirst
  <2>2. last.in = "key" /\ last.pairs = <<>>
    BY <2>1, ReadingIs
  <2>3. found = <<>>
    BY <1>10, <1>11
  <2> QED
    BY <1>7, <2>2, <2>3 DEF line, found, ord
<1>12. CASE n # 0
  <2> DEFINE k == ord[n]
             v == m[k]
             ps == UpTo(found, n - 1)
  <2>1. last = Left(k, v, ps)
    BY <1>9, <1>12 DEF AfterPairs, found
  <2>2. found = Append(ps, <<<<k>>, v>>)
    <3>1. n \in 1 .. n
      BY <1>12
    <3> QED
      BY <1>10, <3>1
  <2> HIDE DEF k, v, ps
  <2>3. (IF last.in \in {"first", "bare"} THEN PairEnd(last).pairs ELSE last.pairs) = found
    BY <2>1, <2>2, LeftIs
  <2>4. ReadLogfmt(line) = found
    BY <1>7, <2>3
  <2> QED
    BY <2>4, Zenon DEF line, found, ord
<1> QED
  BY <1>11, <1>12

----
(* Escape sequences, by the positions O that open one and those E that end *)
(* one: from the opening at i the walk goes on after the first end, nx[i]. *)
Follows(O, E, nx, n) ==
  \A i \in 1 .. n :
    /\ i \notin O => nx[i] = i + 1
    /\ i \in O => /\ nx[i] \in i + 2 .. n + 1
                  /\ nx[i] # n + 1 => nx[i] - 1 \in E /\ nx[i] - 1 >= i + 2
                  /\ \A x \in i + 2 .. nx[i] - 2 : x \notin E

Covered(O, E, i) == \E j \in 1 .. i : j \in O /\ \A x \in j + 2 .. i - 1 : x \notin E
Apart(O, E, n) == \A j \in O : \A i \in j + 1 .. n : i \in O => \E x \in j + 2 .. i - 1 : x \in E
Walked(f, c, nx, O, n) ==
  \A i \in 1 .. n : f[i] = IF i \in O THEN f[nx[i]] ELSE Cat(c[i], f[nx[i]])
Uncovered(r, c, O, E, n) ==
  \A i \in 1 .. n : r[i] = IF Covered(O, E, i) THEN r[i + 1] ELSE Cat(c[i], r[i + 1])

(* The walk from i on shows what is uncovered, if no earlier opening still *)
(* covers i.                                                               *)
Free(O, E, i) == \A j \in 1 .. i - 1 : j \in O => \E x \in j + 2 .. i - 1 : x \in E

LEMMA FreeAfter ==
  ASSUME NEW n \in Nat, NEW O, NEW E, NEW nx, Follows(O, E, nx, n), Apart(O, E, n),
         NEW i \in 1 .. n, Free(O, E, i)
  PROVE  nx[i] # n + 1 => Free(O, E, nx[i])
<1> SUFFICES ASSUME nx[i] # n + 1 PROVE Free(O, E, nx[i])
  OBVIOUS
<1>1. CASE i \notin O
  <2>1. nx[i] = i + 1
    BY <1>1 DEF Follows
  <2>2. ASSUME NEW j \in 1 .. (i + 1) - 1, j \in O PROVE \E x \in j + 2 .. (i + 1) - 1 : x \in E
    <3>1. j \in 1 .. i - 1
      BY <1>1, <2>2
    <3>2. PICK x \in j + 2 .. i - 1 : x \in E
      BY <2>2, <3>1 DEF Free
    <3>3. x \in j + 2 .. (i + 1) - 1
      BY <3>1, <3>2
    <3> QED
      BY <3>2, <3>3
  <2> QED
    BY <2>1, <2>2 DEF Free
<1>2. CASE i \in O
  <2>1. PICK e \in i + 2 .. n : nx[i] = e + 1 /\ e \in E
    <3>1. nx[i] \in i + 2 .. n + 1 /\ nx[i] - 1 \in E /\ nx[i] - 1 >= i + 2
      BY <1>2 DEF Follows
    <3>2. nx[i] - 1 \in i + 2 .. n /\ nx[i] = (nx[i] - 1) + 1
      BY <3>1
    <3> QED
      BY <3>1, <3>2
  <2>2. \A x \in i + 2 .. e - 1 : x \notin E
    <3>1. \A x \in i + 2 .. nx[i] - 2 : x \notin E
      BY <1>2 DEF Follows
    <3>2. nx[i] - 2 = e - 1
      BY <2>1
    <3> QED
      BY <3>1, <3>2
  <2>3. ASSUME NEW j \in 1 .. (e + 1) - 1, j \in O PROVE \E x \in j + 2 .. (e + 1) - 1 : x \in E
    <3>1. CASE j < i
      <4>1. j \in 1 .. i - 1
        BY <3>1
      <4>2. PICK x \in j + 2 .. i - 1 : x \in E
        BY <2>3, <4>1 DEF Free
      <4>3. x \in j + 2 .. (e + 1) - 1
        BY <4>1, <4>2
      <4> QED
        BY <4>2, <4>3
    <3>2. CASE j = i
      <4>1. e \in j + 2 .. (e + 1) - 1
        BY <3>2
      <4> QED
        BY <2>1, <4>1
    <3>3. CASE j > i
      <4>1. j \in i + 1 .. n
        BY <3>3
      <4>2. PICK x \in i + 2 .. j - 1 : x \in E
        BY <1>2, <2>3, <4>1 DEF Apart
      <4>3. x \in i + 2 .. e - 1
        BY <4>2
      <4> QED
        BY <2>2, <4>2, <4>3
    <3> QED
      BY <3>1, <3>2, <3>3
  <2> QED
    BY <2>1, <2>3 DEF Free
<1> QED
  BY <1>1, <1>2

LEMMA SkipsCovered ==
  ASSUME NEW n \in Nat, NEW O, NEW E, NEW c, NEW r, Uncovered(r, c, O, E, n), NEW i \in 1 .. n, i \in O,
         NEW k \in 1 .. n, i <= k, \A x \in i + 2 .. k - 1 : x \notin E
  PROVE  r[i] = r[k + 1]
<1> DEFINE P(m) == r[i] = r[i + m]
           last == k + 1 - i
           G == {m \in 0 .. last : P(m)}
<1>1. last \in Nat /\ i + last = k + 1 /\ i + 0 = i
  OBVIOUS
<1> HIDE DEF last
<1>2. 0 \in G
  BY <1>1
<1>3. ASSUME NEW m \in 1 .. last, m - 1 \in G PROVE m \in G
  <2>1. PICK j \in 1 .. n : j = i + (m - 1) /\ j + 1 = i + m /\ i <= j /\ j <= k
    <3>1. i + (m - 1) \in 1 .. n /\ i <= i + (m - 1) /\ i + (m - 1) <= k
      BY <1>1
    <3> QED
      BY <3>1
  <2>2. Covered(O, E, j)
    <3>1. i \in 1 .. j /\ \A x \in i + 2 .. j - 1 : x \notin E
      BY <2>1
    <3> QED
      BY <3>1 DEF Covered
  <2>3. r[j] = r[j + 1]
    BY <2>2 DEF Uncovered
  <2> QED
    BY <1>3, <2>1, <2>3
<1>4. last \in G
  <2>1. last \in 0 .. last
    BY <1>1
  <2> HIDE DEF G
  <2> QED
    BY <1>1, <1>2, <1>3, <2>1, Upward
<1> QED
  BY <1>1, <1>4

LEMMA WalkedIs ==
  ASSUME NEW n \in Nat, NEW O, NEW E, NEW nx, Follows(O, E, nx, n), Apart(O, E, n), NEW c,
         NEW f, Walked(f, c, nx, O, n), NEW r, Uncovered(r, c, O, E, n), f[n + 1] = r[n + 1]
  PROVE  f[1] = r[1]
<1> DEFINE P(i) == Free(O, E, i) => f[i] = r[i]
           G == {i \in 1 .. n : P(i)}
<1>1. ASSUME NEW i \in 1 .. n, \A j \in 1 .. n : j > i => j \in G
      PROVE  i \in G
  <2> SUFFICES ASSUME Free(O, E, i) PROVE f[i] = r[i]
    OBVIOUS
  <2>1. nx[i] \in Nat /\ nx[i] > i /\ nx[i] <= n + 1
    <3>1. i \notin O => nx[i] = i + 1
      BY DEF Follows
    <3>2. i \in O => nx[i] \in i + 2 .. n + 1
      BY DEF Follows
    <3> QED
      BY <3>1, <3>2
  <2>2. f[nx[i]] = r[nx[i]]
    <3>1. CASE nx[i] = n + 1
      BY <3>1
    <3>2. CASE nx[i] # n + 1
      <4>1. Free(O, E, nx[i])
        BY <3>2, FreeAfter
      <4>2. nx[i] \in 1 .. n
        BY <2>1, <3>2
      <4> QED
        BY <1>1, <2>1, <4>1, <4>2
    <3> QED
      BY <3>1, <3>2
  <2>3. CASE i \notin O
    <3>1. nx[i] = i + 1 /\ f[i] = Cat(c[i], f[nx[i]])
      BY <2>3 DEF Follows, Walked
    <3>2. ~Covered(O, E, i)
      <4> SUFFICES ASSUME NEW j \in 1 .. i, j \in O PROVE \E x \in j + 2 .. i - 1 : x \in E
        BY DEF Covered
      <4>1. j \in 1 .. i - 1
        BY <2>3
      <4> QED
        BY <4>1 DEF Free
    <3>3. r[i] = Cat(c[i], r[i + 1])
      BY <3>2 DEF Uncovered
    <3> QED
      BY <2>2, <3>1, <3>3
  <2>4. CASE i \in O
    <3>1. f[i] = f[nx[i]]
      BY <2>4 DEF Walked
    <3>2. nx[i] \in i + 2 .. n + 1 /\ \A x \in i + 2 .. nx[i] - 2 : x \notin E
      BY <2>4 DEF Follows
    <3>3. PICK k \in 1 .. n : nx[i] = k + 1 /\ i <= k
      <4>1. nx[i] - 1 \in 1 .. n /\ nx[i] = (nx[i] - 1) + 1 /\ i <= nx[i] - 1
        BY <3>2
      <4> QED
        BY <4>1
    <3>4. \A x \in i + 2 .. k - 1 : x \notin E
      <4>1. nx[i] - 2 = k - 1
        BY <3>3
      <4> QED
        BY <3>2, <4>1
    <3>5. r[i] = r[k + 1]
      BY <2>4, <3>3, <3>4, SkipsCovered
    <3> QED
      BY <2>2, <3>1, <3>3, <3>5
  <2> QED
    BY <2>3, <2>4
<1>2. \A i \in 1 .. n : i \in G
  <2> HIDE DEF G
  <2> QED
    BY <1>1, Downward
<1>3. CASE n = 0
  BY <1>3
<1>4. CASE n # 0
  <2>1. 1 \in 1 .. n /\ Free(O, E, 1)
    BY <1>4 DEF Free
  <2> QED
    BY <1>2, <2>1
<1> QED
  BY <1>3, <1>4

(* Where the text of a message opens and ends escape sequences.            *)
Openings(s, n) == {j \in 1 .. n : Opens(s, j)}
Endings(s, n) == {x \in 1 .. n : Ends(s[x])}

LEMMA MinIs ==
  ASSUME NEW S, S \subseteq Nat, S # {}
  PROVE  Min(S) \in S /\ \A x \in S : Min(S) <= x
<1>1. \E m \in S : \A x \in S : m <= x
  BY Least
<1> QED
  BY <1>1 DEF Min

LEMMA OpeningIs ==
  ASSUME NEW s \in Seq(Byte), NEW n \in Nat, n = Len(s), NEW i \in 1 .. n
  PROVE  /\ i \in Openings(s, n) => i < n /\ i \notin Endings(s, n) /\ i + 1 \notin Openings(s, n)
         /\ i \in Openings(s, n) => s[i] = 27
         /\ s[i] = 27 => i \notin Endings(s, n)
<1>1. Opens(s, i) => s[i] = 27 /\ i < n /\ s[i + 1] = 91
  BY CharIs DEF Opens
<1>2. ~Ends(27)
  BY DEF Ends
<1>3. s[i] = 27 => i \notin Endings(s, n)
  BY <1>2, Zenon DEF Endings
<1>4. Opens(s, i + 1) => s[i + 1] = 27
  BY CharIs DEF Opens
<1>5. 27 # 91
  OBVIOUS
<1>6. Opens(s, i) => ~Opens(s, i + 1)
  BY <1>1, <1>4, <1>5
<1> QED
  BY <1>1, <1>3, <1>6, Zenon DEF Openings

LEMMA PastIs ==
  ASSUME NEW s, NEW n \in Nat, n = Len(s), NEW i \in 1 .. n
  PROVE  /\ ~Opens(s, i) => Past(s, i) = i + 1
         /\ Opens(s, i) => \E e \in i + 1 .. n :
              /\ Past(s, i) = e + 1
              /\ e # n => e >= i + 2 /\ Ends(s[e])
              /\ \A x \in i + 2 .. e - 1 : ~Ends(s[x])
<1>1. ~Opens(s, i) => Past(s, i) = i + 1
  BY DEF Past
<1>2. ASSUME Opens(s, i)
      PROVE  \E e \in i + 1 .. n : /\ Past(s, i) = e + 1
                                   /\ e # n => e >= i + 2 /\ Ends(s[e])
                                   /\ \A x \in i + 2 .. e - 1 : ~Ends(s[x])
  <2> DEFINE found == {x \in i + 2 .. n : Ends(s[x])}
             all == found \union {n}
             e == Min(all)
  <2>1. i < n
    BY <1>2 DEF Opens
  <2>2. all \subseteq Nat /\ all # {} /\ all \subseteq i + 1 .. n
    BY <2>1
  <2>3. e \in all /\ \A x \in all : e <= x
    <3> HIDE DEF all
    <3> QED
      BY <2>2, MinIs
  <2>4. Past(s, i) = 1 + e
    BY <1>2, Zenon DEF Past
  <2>5. PICK d \in i + 1 .. n : d = e
    <3> HIDE DEF e, all
    <3> QED
      BY <2>2, <2>3
  <2>6. Past(s, i) = d + 1
    <3> HIDE DEF e
    <3> QED
      BY <2>4, <2>5
  <2>7. d # n => d >= i + 2 /\ Ends(s[d])
    <3>1. d \in all
      BY <2>3, <2>5
    <3> HIDE DEF e
    <3>2. d # n => d \in found
      BY <3>1
    <3> QED
      BY <3>2
  <2>8. \A x \in i + 2 .. d - 1 : ~Ends(s[x])
    <3> SUFFICES ASSUME NEW x \in i + 2 .. d - 1, Ends(s[x]) PROVE FALSE
      OBVIOUS
    <3>1. x \in all
      OBVIOUS
    <3>2. d <= x
      BY <2>3, <2>5, <3>1
    <3> HIDE DEF e, all, found
    <3> QED
      BY <3>2
  <2> HIDE DEF e
  <2> QED
    BY <2>6, <2>7, <2>8
<1> QED
  BY <1>1, <1>2

WalkText(f, s) ==
  f = [i \in Nat \ {0} |-> IF i > Len(s) THEN <<>> ELSE Shown(s, i) \o f[Past(s, i)]]

LEMMA WalkTextIs ==
  ASSUME NEW s, NEW n \in Nat, n = Len(s)
  PROVE  \E f, c, nx :
           /\ StripANSI(s) = f[1] /\ Walks(f, c, nx, n)
           /\ \A i \in 1 .. n : c[i] = Shown(s, i) /\ nx[i] = Past(s, i) /\ nx[i] \in i + 1 .. n + 1
<1> DEFINE c == [i \in 1 .. n |-> Shown(s, i)]
           nx == [i \in 1 .. n |-> Past(s, i)]
<1>1. \A i \in 1 .. n : c[i] = Shown(s, i) /\ nx[i] = Past(s, i)
  OBVIOUS
<1> HIDE DEF c, nx
<1>2. ASSUME NEW i \in 1 .. n PROVE nx[i] \in i + 1 .. n + 1
  <2>1. ~Opens(s, i) => Past(s, i) = i + 1
    BY PastIs
  <2>2. Opens(s, i) => \E e \in i + 1 .. n : Past(s, i) = e + 1
    BY PastIs
  <2> QED
    BY <1>1, <2>1, <2>2
<1>3. ASSUME NEW g PROVE Walks(g, c, nx, n) <=> WalkText(g, s)
  <2>1. \A i \in Nat \ {0} : (IF i > n THEN <<>> ELSE Cat(c[i], g[nx[i]]))
                               = (IF i > n THEN <<>> ELSE Cat(Shown(s, i), g[Past(s, i)]))
    <3> TAKE i \in Nat \ {0}
    <3>1. ~(i > n) => i \in 1 .. n
      OBVIOUS
    <3> QED
      BY <1>1, <3>1
  <2>2. [i \in Nat \ {0} |-> IF i > n THEN <<>> ELSE Cat(c[i], g[nx[i]])]
          = [i \in Nat \ {0} |-> IF i > n THEN <<>> ELSE Cat(Shown(s, i), g[Past(s, i)])]
    BY <2>1
  <2> QED
    BY <2>2, Zenon DEF Walks, WalkText, Cat
<1> DEFINE f == CHOOSE f : WalkText(f, s)
<1>4. WalkText(f, s)
  <2>1. \A i \in 1 .. n : nx[i] \in Nat /\ nx[i] > i
    BY <1>2
  <2>2. \E g : Walks(g, c, nx, n)
    BY <2>1, WalkExists
  <2> QED
    BY <1>3, <2>2
<1>5. StripANSI(s) = f[1]
  BY Zenon DEF StripANSI, Walk, WalkText
<1> HIDE DEF f
<1>6. Walks(f, c, nx, n)
  BY <1>3, <1>4
<1> QED
  BY <1>1, <1>2, <1>5, <1>6

ShownIs(c, s, n) ==
  \A i \in 1 .. n : c[i] = IF i \in Openings(s, n) THEN <<>> ELSE <<s[i]>>
PlainParts(s) ==
  [i \in DOMAIN s |-> IF \E j \in 1 .. i : Opens(s, j) /\ \A x \in j + 2 .. i - 1 : ~Ends(s[x])
                      THEN <<>> ELSE <<s[i]>>]

LEMMA CoveredIs ==
  ASSUME NEW s, NEW n \in Nat, NEW i \in 1 .. n
  PROVE  Covered(Openings(s, n), Endings(s, n), i)
           <=> \E j \in 1 .. i : Opens(s, j) /\ \A x \in j + 2 .. i - 1 : ~Ends(s[x])
<1>1. \A j \in 1 .. i : j \in Openings(s, n) <=> Opens(s, j)
  BY DEF Openings
<1>2. ASSUME NEW j \in 1 .. i, NEW x \in j + 2 .. i - 1 PROVE x \in Endings(s, n) <=> Ends(s[x])
  <2>1. x \in 1 .. n
    OBVIOUS
  <2> QED
    BY <2>1, Zenon DEF Endings
<1> QED
  BY <1>1, <1>2, Zenon DEF Covered

LEMMA ApartIs ==
  ASSUME NEW s \in Seq(Byte), NEW n \in Nat, n = Len(s), ~NestedEscape(s)
  PROVE  Apart(Openings(s, n), Endings(s, n), n)
<1> DEFINE O == Openings(s, n)
           E == Endings(s, n)
<1>1. DOMAIN s = 1 .. n
  BY LenProperties
<1>2. \A i \in 1 .. n : (i \in O => i < n /\ i + 1 \notin O /\ s[i] = 27) /\ (s[i] = 27 => i \notin E)
  BY OpeningIs
<1>3. ASSUME NEW j \in 1 .. n, j \in O, NEW i \in j + 2 .. n, s[i] = 27
      PROVE  \E x \in j + 2 .. i : Ends(s[x])
  <2>1. Opens(s, j) /\ s[i] = Char.esc
    BY <1>3, CharIs DEF Openings
  <2> QED
    BY <1>1, <2>1, Zenon DEF NestedEscape
<1>4. ASSUME NEW i \in 1 .. n PROVE Ends(s[i]) => i \in E
  BY DEF Endings
<1> SUFFICES ASSUME NEW j \in O, NEW i \in j + 1 .. n, i \in O PROVE \E x \in j + 2 .. i - 1 : x \in E
  BY Zenon DEF Apart
<1>5. j \in 1 .. n
  BY DEF Openings
<1> HIDE DEF O, E
<1>6. i \in 1 .. n
  BY <1>5
<1>7. i # j + 1
  BY <1>2, <1>5
<1>8. i \in j + 2 .. n
  BY <1>5, <1>7
<1>9. s[i] = 27
  BY <1>2, <1>6
<1>10. PICK x \in j + 2 .. i : Ends(s[x])
  BY <1>3, <1>5, <1>8, <1>9
<1>11. x \in 1 .. n
  BY <1>5, <1>6, <1>10
<1>12. x \in E
  BY <1>4, <1>10, <1>11
<1>13. x # i
  BY <1>2, <1>6, <1>9, <1>12
<1>14. x \in j + 2 .. i - 1
  BY <1>5, <1>6, <1>13
<1> QED
  BY <1>12, <1>14

LEMMA StripsText ==
  ASSUME NEW s \in Seq(Byte)
  PROVE  StripANSI(s) \in Seq(Byte) /\ (~NestedEscape(s) => StripANSI(s) = Plain(s))
<1>1. PICK n \in Nat : n = Len(s) /\ DOMAIN s = 1 .. n
  BY LenProperties
<1> DEFINE O == Openings(s, n)
           E == Endings(s, n)
           v == PlainParts(s)
<1>2. PICK f, c, nx :
        /\ StripANSI(s) = f[1] /\ Walks(f, c, nx, n)
        /\ \A i \in 1 .. n : c[i] = Shown(s, i) /\ nx[i] = Past(s, i) /\ nx[i] \in i + 1 .. n + 1
  BY <1>1, WalkTextIs
<1>3. \A i \in 1 .. n : i \in O <=> Opens(s, i)
  BY DEF Openings
<1>4. ShownIs(c, s, n)
  BY <1>2, <1>3, Zenon DEF Shown, ShownIs
<1>5. \A i \in 1 .. n : <<s[i]>> \in Seq(Byte) /\ <<>> \in Seq(Byte)
  <2> TAKE i \in 1 .. n
  <2>1. s[i] \in Byte
    BY <1>1, ElementOfSeq
  <2>2. <<s[i]>> \in Seq(Byte)
    BY <2>1
  <2> QED
    BY <2>2, EmptySeq
<1>6. \A i \in 1 .. n : c[i] = (IF i \in O THEN <<>> ELSE <<s[i]>>) /\ c[i] \in Seq(Byte)
  BY <1>4, <1>5 DEF ShownIs
<1> HIDE DEF O, E
<1>7. \A i \in Nat \ {0} : f[i] \in Seq(Byte)
  <2>1. ASSUME NEW i \in 1 .. n PROVE c[i] \in Seq(Byte) /\ nx[i] \in Nat /\ nx[i] > i
    <3>1. c[i] \in Seq(Byte)
      BY <1>6, Zenon
    <3>2. nx[i] \in i + 1 .. n + 1
      BY <1>2, Zenon
    <3> QED
      BY <3>1, <3>2
  <2>2. Walks(f, c, nx, n)
    BY <1>2, Zenon
  <2> QED
    BY <2>1, <2>2, WalkTyped
<1>8. ASSUME ~NestedEscape(s) PROVE f[1] = Plain(s)
  <2>1. v \in Seq(Seq(Byte)) /\ Len(v) = n
    <3> DEFINE e(i) == IF \E j \in 1 .. i : Opens(s, j) /\ \A x \in j + 2 .. i - 1 : ~Ends(s[x])
                       THEN <<>> ELSE <<s[i]>>
               w == [i \in 1 .. n |-> e(i)]
    <3>1. \A i \in 1 .. n : e(i) \in Seq(Byte)
      BY <1>5
    <3>2. v = w
      BY <1>1, Zenon DEF PlainParts
    <3> HIDE DEF e
    <3>3. w \in Seq(Seq(Byte))
      BY <3>1, IsASeq
    <3>4. Len(w) = n
      OBVIOUS
    <3> QED
      BY <3>2, <3>3, <3>4
  <2>2. Plain(s) = FlattenSeq(v)
    BY Zenon DEF Plain, PlainParts
  <2>3. ASSUME NEW i \in 1 .. n PROVE v[i] = IF Covered(O, E, i) THEN <<>> ELSE <<s[i]>>
    BY <1>1, CoveredIs DEF PlainParts, O, E
  <2> HIDE DEF v
  <2>4. PICK r : /\ r[1] = FlattenSeq(v)
                 /\ \A i \in Nat \ {0} : i > Len(v) => r[i] = <<>>
                 /\ \A i \in 1 .. Len(v) : r[i] = Cat(v[i], r[i + 1])
                 /\ \A i \in Nat \ {0} : r[i] \in Seq(Byte)
    BY <2>1, FlatBack
  <2>5. Apart(O, E, n)
    BY <1>1, <1>8, ApartIs DEF O, E
  <2>6. Follows(O, E, nx, n)
    <3> SUFFICES ASSUME NEW i \in 1 .. n
                 PROVE  /\ i \notin O => nx[i] = i + 1
                        /\ i \in O => /\ nx[i] \in i + 2 .. n + 1
                                      /\ nx[i] # n + 1 => nx[i] - 1 \in E /\ nx[i] - 1 >= i + 2
                                      /\ \A x \in i + 2 .. nx[i] - 2 : x \notin E
      BY DEF Follows
    <3>1. i \notin O => nx[i] = i + 1
      BY <1>1, <1>2, <1>3, PastIs
    <3>2. ASSUME i \in O
          PROVE  /\ nx[i] \in i + 2 .. n + 1
                 /\ nx[i] # n + 1 => nx[i] - 1 \in E /\ nx[i] - 1 >= i + 2
                 /\ \A x \in i + 2 .. nx[i] - 2 : x \notin E
      <4>1. Opens(s, i)
        BY <1>3, <3>2
      <4>2. PICK e \in i + 1 .. n : /\ Past(s, i) = e + 1
                                    /\ e # n => e >= i + 2 /\ Ends(s[e])
                                    /\ \A x \in i + 2 .. e - 1 : ~Ends(s[x])
        BY <1>1, <4>1, PastIs
      <4>3. nx[i] = e + 1
        BY <1>2, <4>2
      <4>4. e # n => e \in E
        <5>1. e \in 1 .. n
          OBVIOUS
        <5> QED
          BY <4>2, <5>1, Zenon DEF E, Endings
      <4>5. ASSUME NEW x \in i + 2 .. nx[i] - 2 PROVE x \notin E
        <5>1. x \in i + 2 .. e - 1
          BY <4>3
        <5>2. ~Ends(s[x])
          BY <4>2, <5>1
        <5> QED
          BY <5>2, Zenon DEF E, Endings
      <4>6. nx[i] \in i + 2 .. n + 1
        BY <4>3
      <4>7. nx[i] # n + 1 => nx[i] - 1 \in E /\ nx[i] - 1 >= i + 2
        <5>1. e \in Int /\ nx[i] - 1 = e
          BY <4>3
        <5>2. nx[i] # n + 1 => e # n
          BY <4>3
        <5> QED
          BY <4>2, <4>4, <5>1, <5>2
      <4> QED
        BY <4>5, <4>6, <4>7
    <3> QED
      BY <3>1, <3>2
  <2>7. Walked(f, c, nx, O, n)
    <3> SUFFICES ASSUME NEW i \in 1 .. n
                 PROVE  f[i] = IF i \in O THEN f[nx[i]] ELSE Cat(c[i], f[nx[i]])
      BY DEF Walked
    <3>1. i \in Nat \ {0} /\ i <= n
      OBVIOUS
    <3>2. f[i] = Cat(c[i], f[nx[i]])
      BY <1>2, <3>1, WalkAt
    <3>3. nx[i] \in Nat \ {0}
      BY <1>2
    <3>4. Cat(<<>>, f[nx[i]]) = f[nx[i]]
      BY <1>7, <3>3, CatTyped
    <3>5. i \in O => c[i] = <<>>
      BY <1>6
    <3> QED
      BY <3>2, <3>4, <3>5
  <2>8. Uncovered(r, c, O, E, n)
    <3> SUFFICES ASSUME NEW i \in 1 .. n
                 PROVE  r[i] = IF Covered(O, E, i) THEN r[i + 1] ELSE Cat(c[i], r[i + 1])
      BY DEF Uncovered
    <3>1. r[i] = Cat(v[i], r[i + 1])
      BY <2>1, <2>4
    <3>2. i + 1 \in Nat \ {0}
      OBVIOUS
    <3>3. Cat(<<>>, r[i + 1]) = r[i + 1]
      BY <2>4, <3>2, CatTyped
    <3>4. i \in O => Covered(O, E, i)
      <4>1. i \in 1 .. i /\ \A x \in i + 2 .. i - 1 : x \notin E
        OBVIOUS
      <4> QED
        BY <4>1, Zenon DEF Covered
    <3>5. ~Covered(O, E, i) => v[i] = c[i]
      BY <1>6, <2>3, <3>4
    <3>6. Covered(O, E, i) => v[i] = <<>>
      BY <2>3
    <3> QED
      BY <3>1, <3>3, <3>5, <3>6
  <2>9. f[n + 1] = r[n + 1]
    <3>1. n + 1 \in Nat \ {0} /\ n + 1 > n
      OBVIOUS
    <3>2. f[n + 1] = <<>>
      <4>1. Walks(f, c, nx, n)
        BY <1>2, Zenon
      <4>2. \A i \in Nat \ {0} : i > n => f[i] = <<>>
        BY <4>1, WalkEnd
      <4> QED
        BY <3>1, <4>2
    <3> QED
      BY <2>1, <2>4, <3>1, <3>2
  <2> QED
    BY <2>2, <2>4, <2>5, <2>6, <2>7, <2>8, <2>9, WalkedIs
<1>9. 1 \in Nat \ {0}
  OBVIOUS
<1> QED
  BY <1>2, <1>7, <1>8, <1>9

----
(* A text line has no line breaks but those written as they are.           *)
Calm == Byte \ {10, 13}

LEMMA ReplacedTyped ==
  ASSUME NEW S, NEW s \in Seq(S), NEW b, NEW T, NEW by \in Seq(T), S \ {b} \subseteq T
  PROVE  Replaced(s, b, by) \in Seq(T)
<1>1. PICK n \in Nat : n = Len(s)
  BY LenProperties
<1>2. \A i \in 1 .. n : s[i] = b \/ s[i] \in T
  <2> TAKE i \in 1 .. n
  <2>1. s[i] \in S
    BY <1>1, ElementOfSeq
  <2> QED
    BY <2>1
<1>3. PICK p : Replaces(p, s, b, by, n, T)
  BY <1>1, <1>2, ReplacedFront
<1>4. n \in 0 .. n
  OBVIOUS
<1> QED
  BY <1>3, <1>4 DEF Replaces

LEMMA JoinedTyped ==
  ASSUME NEW S, NEW ss \in Seq(Seq(S)), NEW sep \in Seq(S)
  PROVE  Joined(ss, sep) \in Seq(S)
<1>1. PICK n \in Nat : n = Len(ss)
  BY LenProperties
<1>2. PICK p : Joins(p, ss, sep, n, S)
  BY <1>1, JoinedFront
<1>3. n \in 0 .. n
  OBVIOUS
<1> QED
  BY <1>2, <1>3 DEF Joins

LEMMA SanitizedIs ==
  ASSUME NEW s \in Seq(Byte)
  PROVE  SanitizeText(s) \in Seq(Calm)
<1> DEFINE T == Byte \ {10}
           nl == <<92, 110>>
           cr == <<92, 114>>
           stripped == StripANSI(s)
           once == Replaced(stripped, 10, nl)
<1>1. /\ 92 \in T /\ 110 \in T /\ 92 \in Calm /\ 114 \in Calm
      /\ T \ {13} \subseteq Calm /\ Byte \ {10} \subseteq T
  BY DEF Byte, Calm
<1>2. SanitizeText(s) = Replaced(once, 13, cr)
  BY Zenon, CharIs DEF SanitizeText
<1>3. stripped \in Seq(Byte)
  BY StripsText
<1> HIDE DEF T, stripped
<1>4. nl \in Seq(T) /\ cr \in Seq(Calm)
  BY <1>1, OneOrTwo
<1> HIDE DEF nl, cr
<1>5. once \in Seq(T)
  BY <1>1, <1>3, <1>4, ReplacedTyped
<1> HIDE DEF once
<1>6. Replaced(once, 13, cr) \in Seq(Calm)
  BY <1>1, <1>4, <1>5, ReplacedTyped
<1> QED
  BY <1>2, <1>6

LEMMA PaddingIs ==
  ASSUME NEW S, NEW b \in S, NEW n \in Int
  PROVE  [i \in 1 .. n |-> b] \in Seq(S)
<1>1. CASE n \in Nat
  BY <1>1, IsASeq
<1>2. CASE n \notin Nat
  <2>1. 1 .. n = {}
    BY <1>2
  <2>2. [i \in {} |-> b] = <<>>
    OBVIOUS
  <2> QED
    BY <2>1, <2>2, EmptySeq
<1> QED
  BY <1>1, <1>2

LEMMA FourTyped ==
  ASSUME NEW S, NEW a \in S, NEW b \in S, NEW c \in S, NEW d \in S
  PROVE  <<a, b, c, d>> \in Seq(S)
OBVIOUS

LEMMA Without ==
  ASSUME NEW S, NEW s \in Seq(S), NEW b, b \notin Range(s)
  PROVE  s \in Seq(S \ {b})
<1>1. PICK n \in Nat : n = Len(s) /\ DOMAIN s = 1 .. n
  BY LenProperties
<1>2. \A i \in 1 .. n : s[i] \in S \ {b}
  <2> TAKE i \in 1 .. n
  <2>1. s[i] \in S
    BY <1>1, ElementOfSeq
  <2>2. s[i] # b
    BY <1>1 DEF Range
  <2> QED
    BY <2>1, <2>2
<1>3. s = [i \in 1 .. n |-> s[i]]
  BY <1>1
<1> QED
  BY <1>2, <1>3, IsASeq

LEMMA RunesIs == ASSUME NEW S, NEW s \in Seq(S) PROVE Runes(s) \in Nat
<1> DEFINE starts == {i \in DOMAIN s : \A j \in 1 .. i - 1 : i >= j + RuneSize(s, j)}
<1>1. PICK n \in Nat : DOMAIN s = 1 .. n
  BY LenProperties
<1>2. starts \subseteq 1 .. n /\ IsFiniteSet(1 .. n)
  BY <1>1, FS_Interval
<1> HIDE DEF starts
<1>3. Cardinality(starts) \in Nat
  BY <1>2, FS_Subset, FS_CardinalityType
<1> QED
  BY <1>3, Zenon DEF Runes, starts

LEMMA TextBreaksAreRaw ==
  ASSUME NEW m, DOMAIN m \subseteq Byte, IsFiniteSet(DOMAIN m),
         \A k \in DOMAIN m : m[k] \in Seq(Byte),
         NEW b \in {10, 13}, b \notin Raw(m)
  PROVE  b \notin Range(TextLine(m))
<1> DEFINE C == Byte \ {b}
           K == DOMAIN m
           value(k) == IF k \in K THEN m[k] ELSE <<>>
           pad == [i \in 1 .. 7 - Runes(value(Level)) |-> Char.space]
           others == K \ Range(CoreOrder)
           extras == Sorted(others)
           extra(i) == Cat(<<Char.space, Char.space, extras[i], Char.equals>>, SanitizeText(m[extras[i]]))
           open == <<Char.bracket>>
           close == <<Char.closing>>
           gap == <<Char.space>>
           time == value(Time)
           level == Cat(value(Level), pad)
           file == Cat(Cat(open, value(File)), close)
           message == SanitizeText(value(Message))
           core == <<time, level, file, message>>
           more == [i \in DOMAIN extras |-> extra(i)]
           empty == <<>>
           line == Cat(Joined(core, gap), Joined(more, empty))
<1>1. TextLine(m) = line
  BY Zenon DEF TextLine, TextField, Cat
<1>2. /\ Char.space \in C /\ Char.equals \in C
      /\ Char.bracket \in C /\ Char.closing \in C
  BY CharIs DEF Byte
<1>3. gap \in Seq(C) /\ open \in Seq(C) /\ close \in Seq(C) /\ empty \in Seq(C)
  BY <1>2, EmptySeq
<1>4. ASSUME NEW k \in {Time, Level, File} PROVE value(k) \in Seq(C)
  <2>1. ASSUME k \in DOMAIN m PROVE m[k] \in Seq(C)
    <3>1. Range(m[k]) \subseteq Raw(m)
      BY <2>1 DEF Raw
    <3>2. m[k] \in Seq(Byte) /\ b \notin Range(m[k])
      BY <2>1, <3>1
    <3> QED
      BY <3>2, Without
  <2> QED
    BY <2>1, EmptySeq
<1>5. value(Message) \in Seq(Byte)
  BY EmptySeq
<1> HIDE DEF value
<1>6. time \in Seq(C) /\ value(Level) \in Seq(C) /\ value(File) \in Seq(C)
  BY <1>4
<1>7. pad \in Seq(C)
  <2>1. 7 - Runes(value(Level)) \in Int
    <3>1. Runes(value(Level)) \in Nat
      BY <1>6, RunesIs
    <3> QED
      BY <3>1
  <2> QED
    BY <1>2, <2>1, PaddingIs
<1>8. ASSUME NEW v \in Seq(Byte) PROVE SanitizeText(v) \in Seq(C)
  <2>1. Calm \subseteq C
    BY DEF Calm
  <2> QED
    BY <2>1, SanitizedIs, Wider
<1>9. message \in Seq(C)
  BY <1>5, <1>8
<1> HIDE DEF time, pad, message, gap, open, close
<1>10. level \in Seq(C) /\ file \in Seq(C)
  BY <1>3, <1>6, <1>7, CatTyped
<1> HIDE DEF level, file
<1>11. core \in Seq(Seq(C))
  BY <1>6, <1>9, <1>10, FourTyped
<1> HIDE DEF core
<1>12. extras \in Seq(others)
  <2>1. others \subseteq Nat /\ IsFiniteSet(others)
    BY ByteIsNat, FS_Subset
  <2> HIDE DEF others, K
  <2> QED
    BY <2>1, SortedKeys
<1>13. extras \in Seq(K)
  <2>1. others \subseteq Nat /\ others \subseteq K /\ IsFiniteSet(others)
    <3> QED
      BY ByteIsNat, FS_Subset
  <2> HIDE DEF others, K
  <2> HIDE DEF extras
  <2> QED
    BY <1>12, <2>1, Wider
<1>14. PICK n \in Nat : n = Len(extras) /\ DOMAIN extras = 1 .. n
  <2> HIDE DEF extras, K
  <2> QED
    BY <1>13, LenProperties
<1>15. more \in Seq(Seq(C))
  <2>1. ASSUME NEW i \in 1 .. n PROVE extra(i) \in Seq(C)
    <3> DEFINE k == extras[i]
               head == <<Char.space, Char.space, k, Char.equals>>
               tail == SanitizeText(m[k])
    <3>1. k \in K
      <4> HIDE DEF extras, K
      <4> QED
        BY <1>13, <1>14, ElementOfSeq
    <3>2. k \in C /\ m[k] \in Seq(Byte)
      <4>1. k \in others
        BY <1>14, <1>12, ElementOfSeq
      <4>2. k \in Raw(m)
        BY <4>1 DEF Raw
      <4> QED
        BY <3>1, <4>2
    <3> HIDE DEF k
    <3>3. head \in Seq(C) /\ tail \in Seq(C)
      BY <1>2, <1>8, <3>2, FourTyped
    <3> HIDE DEF head, tail
    <3>4. Cat(head, tail) \in Seq(C)
      BY <3>3, CatTyped
    <3> QED
      BY <3>4 DEF head, tail, k
  <2> HIDE DEF extra
  <2>2. [i \in 1 .. n |-> extra(i)] \in Seq(Seq(C))
    BY <2>1, IsASeq
  <2> QED
    BY <1>14, <2>2
<1> HIDE DEF more, empty
<1>16. Joined(core, gap) \in Seq(C) /\ Joined(more, empty) \in Seq(C)
  BY <1>3, <1>11, <1>15, JoinedTyped
<1>17. line \in Seq(C)
  BY <1>16, CatTyped
<1> HIDE DEF line
<1>18. ASSUME NEW i \in DOMAIN line PROVE line[i] # b
  <2>1. line[i] \in C
    BY <1>17, ElementOfSeq, LenProperties
  <2> QED
    BY <2>1
<1> QED
  BY <1>1, <1>18 DEF Range

(* Stripping a text in which every ESC opens a sequence leaves no ESC.     *)
LEMMA StripsAll ==
  ASSUME NEW s \in Seq(Byte), \A i \in DOMAIN s : s[i] = 27 => Opens(s, i)
  PROVE  27 \notin Range(StripANSI(s))
<1> DEFINE C == Byte \ {27}
<1>1. PICK n \in Nat : n = Len(s) /\ DOMAIN s = 1 .. n
  BY LenProperties
<1>2. PICK f, c, nx :
        /\ StripANSI(s) = f[1] /\ Walks(f, c, nx, n)
        /\ \A i \in 1 .. n : c[i] = Shown(s, i) /\ nx[i] = Past(s, i) /\ nx[i] \in i + 1 .. n + 1
  BY <1>1, WalkTextIs
<1>3. ASSUME NEW i \in 1 .. n PROVE c[i] \in Seq(C) /\ nx[i] \in Nat /\ nx[i] > i
  <2>1. c[i] = IF Opens(s, i) THEN <<>> ELSE <<s[i]>>
    BY <1>2 DEF Shown
  <2>2. ~Opens(s, i) => s[i] \in C
    <3>1. s[i] \in Byte
      BY <1>1, ElementOfSeq
    <3> QED
      BY <1>1, <3>1
  <2>3. ~Opens(s, i) => <<s[i]>> \in Seq(C)
    <3> HIDE DEF C
    <3> QED
      BY <2>2
  <2>4. c[i] \in Seq(C)
    BY <2>1, <2>3, EmptySeq
  <2>5. nx[i] \in i + 1 .. n + 1
    BY <1>2, Zenon
  <2> QED
    BY <2>4, <2>5
<1> HIDE DEF C
<1>4. Walks(f, c, nx, n)
  BY <1>2, Zenon
<1>5. f[1] \in Seq(C)
  <2>1. \A i \in Nat \ {0} : f[i] \in Seq(C)
    BY <1>3, <1>4, WalkTyped
  <2> QED
    BY <2>1
<1>6. ASSUME NEW i \in DOMAIN StripANSI(s) PROVE StripANSI(s)[i] # 27
  <2>1. StripANSI(s) \in Seq(C)
    BY <1>2, <1>5
  <2>2. StripANSI(s)[i] \in C
    BY <2>1, ElementOfSeq, LenProperties
  <2> QED
    BY <2>2 DEF C
<1> QED
  BY <1>6 DEF Range

(* TextFormatter.Format: the line breaks of a text line are those of a key *)
(* or of a value written as it is; stripping leaves of a value what no     *)
(* escape sequence covers, unless one has an ESC inside, and no ESC, if    *)
(* each opens a sequence.                                                  *)
THEOREM TextLineIs ==
  ASSUME NEW m, DOMAIN m \subseteq Byte, IsFiniteSet(DOMAIN m),
         \A k \in DOMAIN m : m[k] \in Seq(Byte)
  PROVE  TextRight(m)
<1>1. Range(TextLine(m)) \intersect {Char.nl, Char.cr} \subseteq Raw(m)
  <2>1. ASSUME NEW b \in {10, 13}, b \notin Raw(m) PROVE b \notin Range(TextLine(m))
    BY <2>1, TextBreaksAreRaw
  <2> QED
    BY <2>1, CharIs
<1>2. ASSUME NEW k \in DOMAIN m, ~NestedEscape(m[k]) PROVE StripANSI(m[k]) = Plain(m[k])
  <2>1. m[k] \in Seq(Byte)
    OBVIOUS
  <2> QED
    BY <1>2, <2>1, StripsText
<1>3. ASSUME NEW k \in DOMAIN m, \A i \in DOMAIN m[k] : m[k][i] = Char.esc => Opens(m[k], i)
      PROVE  Char.esc \notin Range(StripANSI(m[k]))
  <2>1. m[k] \in Seq(Byte)
    OBVIOUS
  <2>2. Char.esc = 27
    BY CharIs
  <2> QED
    BY <1>3, <2>1, <2>2, StripsAll
<1> QED
  BY <1>1, <1>2, <1>3, Zenon DEF TextRight

----
(* What holds of an entry: the core keys and perhaps one user field, the   *)
(* values of message and user field made of bytes, the others of the keys. *)
EntryIs ==
  /\ keyMap \in KeyMaps
  /\ \E own \in {{}} \union {{k} : k \in UserKeys} : DOMAIN entry = Range(CoreOrder) \union own
  /\ \A k \in DOMAIN entry : /\ k \in Grown => entry[k] \in Seq(Bytes)
                             /\ k \notin Grown => entry[k] = <<k>>

LEMMA CoreIs ==
  ASSUME FormattingAssumption
  PROVE  {Time, Level, Message, File} \subseteq Range(CoreOrder) /\ Range(CoreOrder) \subseteq Keys
<1>1. CoreOrder \in Seq(Keys) /\ Len(CoreOrder) = 4
  BY DEF FormattingAssumption
<1>2. DOMAIN CoreOrder = 1 .. 4
  BY <1>1, LenProperties
<1>3. \A i \in 1 .. 4 : CoreOrder[i] \in Keys /\ CoreOrder[i] \in Range(CoreOrder)
  BY <1>1, <1>2, ElementOfSeq DEF Range
<1>4. Range(CoreOrder) \subseteq Keys
  BY <1>2, <1>3 DEF Range
<1> QED
  BY <1>3, <1>4 DEF Time, Level, Message, File

LEMMA KeysAre == Keys = Byte
BY DEF Keys, Byte

LEMMA KeysFinite == ASSUME NEW S, S \subseteq Keys PROVE IsFiniteSet(S)
<1>1. 0 \in Int /\ 255 \in Int
  OBVIOUS
<1>2. IsFiniteSet(Keys)
  BY <1>1, FS_Interval, Zenon DEF Keys
<1> QED
  BY <1>2, FS_Subset

LEMMA EntryKeys ==
  ASSUME FormattingAssumption, EntryIs
  PROVE  DOMAIN entry \subseteq Keys
<1>1. PICK own \in {{}} \union {{k} : k \in UserKeys} : DOMAIN entry = Range(CoreOrder) \union own
  BY DEF EntryIs
<1>2. own \subseteq Keys
  BY DEF FormattingAssumption
<1> QED
  BY <1>1, <1>2, CoreIs

LEMMA RenamedIs ==
  ASSUME FormattingAssumption, EntryIs, NEW k \in DOMAIN entry
  PROVE  Renamed(k) \in Keys
<1>1. k \in Keys
  BY EntryKeys
<1>2. \A j \in DOMAIN keyMap : keyMap[j] \in Keys
  BY DEF EntryIs, FormattingAssumption
<1> QED
  BY <1>1, <1>2 DEF Renamed

(* Each key of what is written comes from one that is renamed to it.       *)
LEMMA RemappedIs ==
  ASSUME NEW m \in Remapped
  PROVE  /\ DOMAIN m = {Renamed(k) : k \in DOMAIN entry}
         /\ \A q \in DOMAIN m : \E k \in Holders(q) : m[q] = entry[k]
<1> DEFINE keys == {Renamed(k) : k \in DOMAIN entry}
           met == {q \in keys : Cardinality(Holders(q)) > 1}
           last == {f \in [met -> DOMAIN entry] : \A q \in met : f[q] \in Holders(q)}
           of(f, q) == IF q \in met THEN f[q] ELSE CHOOSE k \in Holders(q) : TRUE
<1>1. PICK f \in last : m = [q \in keys |-> entry[of(f, q)]]
  BY Zenon DEF Remapped
<1>2. ASSUME NEW q \in keys PROVE of(f, q) \in Holders(q)
  <2>1. \E k \in Holders(q) : TRUE
    BY DEF Holders
  <2>2. (CHOOSE k \in Holders(q) : TRUE) \in Holders(q)
    BY <2>1
  <2> QED
    BY <2>2
<1> HIDE DEF of
<1> QED
  BY <1>1, <1>2

LEMMA RemappedTyped ==
  ASSUME FormattingAssumption, EntryIs, NEW m \in Remapped
  PROVE  /\ DOMAIN m \subseteq Byte /\ IsFiniteSet(DOMAIN m)
         /\ \A q \in DOMAIN m : m[q] \in Seq(Byte)
<1>1. /\ DOMAIN m = {Renamed(k) : k \in DOMAIN entry}
      /\ \A q \in DOMAIN m : \E k \in Holders(q) : m[q] = entry[k]
  BY RemappedIs
<1>2. DOMAIN m \subseteq Keys
  BY <1>1, RenamedIs
<1>3. DOMAIN m \subseteq Byte /\ IsFiniteSet(DOMAIN m)
  BY <1>2, KeysAre, KeysFinite
<1>4. ASSUME NEW k \in DOMAIN entry PROVE entry[k] \in Seq(Byte)
  <2>1. CASE k \in Grown
    <3>1. entry[k] \in Seq(Bytes) /\ Bytes \subseteq Byte
      BY <2>1 DEF EntryIs, FormattingAssumption, Byte
    <3> QED
      BY <3>1, Wider
  <2>2. CASE k \notin Grown
    <3>1. entry[k] = <<k>>
      BY <2>2 DEF EntryIs
    <3>2. k \in Byte
      BY EntryKeys, KeysAre
    <3> QED
      BY <3>1, <3>2, KeyText
  <2> QED
    BY <2>1, <2>2
<1>5. ASSUME NEW q \in DOMAIN m PROVE m[q] \in Seq(Byte)
  <2>1. PICK k \in Holders(q) : m[q] = entry[k]
    BY <1>1
  <2> QED
    BY <1>4, <2>1 DEF Holders
<1> QED
  BY <1>3, <1>5

(* An entry is encoded whatever the bytes of its values.                   *)
LEMMA EntryEncoded == ASSUME FormattingAssumption, EntryIs PROVE Encoded
<1> SUFFICES ASSUME NEW m \in Remapped
             PROVE  /\ JSONRight(m) /\ LogfmtRight(m) /\ TextRight(m)
                    /\ \A k \in DOMAIN entry : Holders(Renamed(k)) = {k} => m[Renamed(k)] = entry[k]
  BY Zenon DEF Encoded
<1>1. /\ DOMAIN m \subseteq Byte /\ IsFiniteSet(DOMAIN m)
      /\ \A q \in DOMAIN m : m[q] \in Seq(Byte)
  BY RemappedTyped
<1>2. JSONRight(m)
  BY <1>1, JSONReadsBack, Zenon
<1>3. LogfmtRight(m)
  <2>1. CoreOrder \in Seq(Keys)
    BY DEF FormattingAssumption
  <2> QED
    BY <1>1, <2>1, LogfmtReadsBack, Zenon
<1>4. TextRight(m)
  BY <1>1, TextLineIs, Zenon
<1>5. ASSUME NEW k \in DOMAIN entry, Holders(Renamed(k)) = {k} PROVE m[Renamed(k)] = entry[k]
  BY <1>5, RemappedIs
<1> QED
  BY <1>2, <1>3, <1>4, <1>5

LEMMA EntryInit == ASSUME FormattingAssumption, Init PROVE EntryIs
<1>1. PICK own \in {{}} \union {{k} : k \in UserKeys} :
        entry = [k \in Range(CoreOrder) \union own |-> IF k \in Grown THEN <<>> ELSE <<k>>]
  BY DEF Init
<1>2. DOMAIN entry = Range(CoreOrder) \union own
  BY <1>1
<1>3. \A k \in DOMAIN entry : /\ k \in Grown => entry[k] \in Seq(Bytes)
                              /\ k \notin Grown => entry[k] = <<k>>
  BY <1>1, EmptySeq
<1> QED
  BY <1>2, <1>3 DEF EntryIs, Init

LEMMA EntryNext == ASSUME EntryIs, [Next]_vars PROVE EntryIs'
<1>1. CASE UNCHANGED vars
  BY <1>1 DEF EntryIs, vars
<1>2. CASE Next
  <2>1. PICK j \in DOMAIN entry \intersect Grown, b \in Bytes : Grow(j, b)
    BY <1>2 DEF Next
  <2>2. entry' = [entry EXCEPT ![j] = Append(@, b)] /\ keyMap' = keyMap
    BY <2>1 DEF Grow
  <2>3. Append(entry[j], b) \in Seq(Bytes)
    <3>1. entry[j] \in Seq(Bytes)
      BY DEF EntryIs
    <3> QED
      BY <3>1, AppendProperties
  <2>4. DOMAIN entry' = DOMAIN entry
    BY <2>2
  <2>5. ASSUME NEW k \in DOMAIN entry
        PROVE  /\ k \in Grown => entry'[k] \in Seq(Bytes)
               /\ k \notin Grown => entry'[k] = <<k>>
    <3>1. entry'[k] = IF k = j THEN Append(entry[j], b) ELSE entry[k]
      BY <2>2
    <3> QED
      BY <2>3, <3>1 DEF EntryIs
  <2> QED
    BY <2>2, <2>4, <2>5 DEF EntryIs
<1> QED
  BY <1>1, <1>2

(* formatter.go, encode.go: every entry that grows byte by byte is encoded *)
(* in all three formats.                                                   *)
THEOREM AllEncoded == ASSUME FormattingAssumption PROVE Spec => []Encoded
<1>1. Spec => []EntryIs
  BY EntryInit, EntryNext, PTL DEF Spec
<1> QED
  BY <1>1, EntryEncoded, PTL

====
