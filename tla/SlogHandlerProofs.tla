---- MODULE SlogHandlerProofs ----
(***************************************************************************)
(* Handled, for any attributes, groups, levels and number of handlers.     *)
(***************************************************************************)
EXTENDS SlogHandler, SequenceTheorems, WellFoundedInduction, TLAPS

----
(* Induction over the naturals, in the form that has no operator for a     *)
(* parameter: what does not hold of all fails for a least one.             *)
LEMMA Least ==
  ASSUME NEW T, T \subseteq Nat, T # {}
  PROVE  \E x \in T : \A y \in T : x <= y
<1> DEFINE R == OpToRel(<, Nat)
<1>1. IsWellFoundedOn(R, Nat)
  BY NatLessThanWellFounded
<1>2. R = {ss \in Nat \X Nat : ss[1] < ss[2]}
  BY DEF OpToRel
<1> HIDE DEF R
<1>3. PICK x \in T : \A y \in T : ~ (<<y, x>> \in R)
  BY <1>1, WFMin
<1>4. ASSUME NEW y \in T PROVE x <= y
  <2>1. ~(y < x)
    BY <1>2, <1>3
  <2> QED
    BY <2>1
<1> QED
  BY <1>4

LEMMA MaxIs ==
  ASSUME NEW S, S \subseteq Nat, NEW m \in S, \A x \in S : x <= m
  PROVE  Max(S) = m
<1>1. \A x \in S : (\A y \in S : x >= y) => x = m
  OBVIOUS
<1>2. \A y \in S : m >= y
  OBVIOUS
<1> QED
  BY <1>1, <1>2 DEF Max

(* A set of naturals below a bound has a greatest.                         *)
LEMMA Greatest ==
  ASSUME NEW n \in Nat, NEW S, S \subseteq 1 .. n, S # {}
  PROVE  Max(S) \in S /\ \A x \in S : x <= Max(S)
<1> DEFINE T == {n - x : x \in S}
<1>1. PICK d \in T : \A e \in T : d <= e
  <2>1. T \subseteq Nat /\ T # {}
    OBVIOUS
  <2> HIDE DEF T
  <2> QED
    BY <2>1, Least
<1>2. PICK m \in S : d = n - m
  BY <1>1
<1>3. ASSUME NEW x \in S PROVE x <= m
  <2>1. d <= n - x
    BY <1>1
  <2> QED
    BY <1>2, <2>1
<1>4. S \subseteq Nat
  OBVIOUS
<1> QED
  BY <1>3, <1>4, MaxIs

----
(* What the loop over the attributes has collected, attribute by attribute *)
Full(h, attrs, i) == PrefixKey(h, attrs[i].key)

Iter(f, h, attrs, n) ==
  f = [s \in SUBSET (1 .. n) |->
         IF s = {} THEN <<>>
         ELSE Set(f[s \ {Max(s)}], Full(h, attrs, Max(s)), attrs[Max(s)].value)]

LEMMA IterExists == \A h, attrs : \A n \in Nat : \E f : Iter(f, h, attrs, n)
<1> SUFFICES ASSUME NEW h, NEW attrs PROVE \A n \in Nat : \E f : Iter(f, h, attrs, n)
  OBVIOUS
<1> DEFINE step(f, s) == Set(f, Full(h, attrs, s), attrs[s].value)
           T == {n \in Nat : ~ \E f : Iter(f, h, attrs, n)}
<1> SUFFICES ASSUME T # {} PROVE FALSE
  OBVIOUS
<1>1. PICK n \in T : \A m \in T : n <= m
  <2> HIDE DEF T
  <2>1. T \subseteq Nat
    BY DEF T
  <2> QED
    BY <2>1, Least
<1>2. n # 0
  <2>1. SUBSET (1 .. 0) = {{}}
    OBVIOUS
  <2>2. Iter([s \in {{}} |-> <<>>], h, attrs, 0)
    BY <2>1 DEF Iter
  <2> QED
    BY <2>2
<1>3. PICK f : Iter(f, h, attrs, n - 1)
  <2>1. n - 1 \in Nat /\ ~(n <= n - 1)
    BY <1>2
  <2> QED
    BY <1>1, <2>1
<1> HIDE DEF step
<1> DEFINE g == [s \in SUBSET (1 .. n) |-> IF n \in s THEN step(f[s \ {n}], n) ELSE f[s]]
<1>4. ASSUME NEW s \in SUBSET (1 .. n)
      PROVE  g[s] = IF s = {} THEN <<>> ELSE step(g[s \ {Max(s)}], Max(s))
  <2>1. \A t \in SUBSET (1 .. n - 1) :
          f[t] = IF t = {} THEN <<>> ELSE step(f[t \ {Max(t)}], Max(t))
    BY <1>3 DEF Iter, step
  <2>2. CASE n \in s
    <3>1. Max(s) = n
      <4>1. s \subseteq Nat /\ n \in s /\ \A x \in s : x <= n
        BY <2>2
      <4> QED
        BY <4>1, MaxIs
    <3>2. g[s \ {n}] = f[s \ {n}]
      OBVIOUS
    <3> QED
      BY <2>2, <3>1, <3>2
  <2>3. CASE n \notin s
    <3>1. s \in SUBSET (1 .. n - 1)
      BY <2>3
    <3>2. g[s] = f[s] /\ g[s \ {Max(s)}] = f[s \ {Max(s)}]
      BY <2>3
    <3> HIDE DEF g
    <3> QED
      BY <2>1, <3>1, <3>2
  <2> QED
    BY <2>2, <2>3
<1>5. g = [s \in SUBSET (1 .. n) |-> IF s = {} THEN <<>> ELSE step(g[s \ {Max(s)}], Max(s))]
  BY <1>4
<1>6. Iter(g, h, attrs, n)
  <2> HIDE DEF g
  <2> QED
    BY <1>5, Zenon DEF Iter, step
<1> QED
  BY <1>6

(* The loop starts with nothing and sets one key at a time.                *)
LEMMA Loop ==
  ASSUME NEW h, NEW attrs \in Seq(Attrs)
  PROVE  \E c : /\ Collected(h, attrs) = c[Len(attrs)]
                /\ c[0] = <<>>
                /\ \A n \in 1 .. Len(attrs) :
                     c[n] = Set(c[n - 1], Full(h, attrs, n), attrs[n].value)
<1> DEFINE N == Len(attrs)
           f == CHOOSE f : Iter(f, h, attrs, N)
           c == [n \in 0 .. N |-> f[1 .. n]]
<1>1. N \in Nat /\ DOMAIN attrs = 1 .. N
  OBVIOUS
<1>2. Iter(f, h, attrs, N)
  BY <1>1, IterExists
<1>3. Collected(h, attrs) = f[1 .. N]
  BY <1>1, Zenon DEF Collected, Iter, Full, FoldLeft, MapThenFoldSet
<1> HIDE DEF f
<1>4. f[{}] = <<>>
  BY <1>1, <1>2 DEF Iter
<1>5. ASSUME NEW n \in 1 .. N
      PROVE  f[1 .. n] = Set(f[1 .. (n - 1)], Full(h, attrs, n), attrs[n].value)
  <2>1. 1 .. n \in SUBSET (1 .. N) /\ 1 .. n # {} /\ (1 .. n) \ {n} = 1 .. (n - 1)
    <3>1. 1 .. n \subseteq 1 .. N /\ n \in 1 .. n
      BY <1>1
    <3>2. (1 .. n) \ {n} = 1 .. (n - 1)
      BY <1>1
    <3> QED
      BY <3>1, <3>2
  <2>2. Max(1 .. n) = n
    <3>1. 1 .. n \subseteq Nat /\ n \in 1 .. n /\ \A x \in 1 .. n : x <= n
      BY <1>1
    <3> QED
      BY <3>1, MaxIs
  <2>3. f[1 .. n] = Set(f[(1 .. n) \ {Max(1 .. n)}], Full(h, attrs, Max(1 .. n)),
                        attrs[Max(1 .. n)].value)
    BY <1>2, <2>1 DEF Iter
  <2> QED
    BY <2>1, <2>2, <2>3
<1>6. c[0] = <<>>
  BY <1>1, <1>4
<1>7. \A n \in 1 .. N : c[n] = f[1 .. n] /\ c[n - 1] = f[1 .. (n - 1)]
  BY <1>1
<1>8. c[N] = f[1 .. N]
  BY <1>1
<1> HIDE DEF c
<1>9. /\ Collected(h, attrs) = c[N]
      /\ c[0] = <<>>
      /\ \A n \in 1 .. N : c[n] = Set(c[n - 1], Full(h, attrs, n), attrs[n].value)
  BY <1>3, <1>5, <1>6, <1>7, <1>8
<1> QED
  BY <1>9, Zenon

(* So each key has the value of the last attribute under it.               *)
Keys(h, attrs) == {Full(h, attrs, i) : i \in DOMAIN attrs}
Under(h, attrs, q) == {i \in DOMAIN attrs : Full(h, attrs, i) = q}

LEMMA LatestStays ==
  ASSUME NEW h, NEW attrs \in Seq(Attrs)
  PROVE  /\ DOMAIN Collected(h, attrs) = Keys(h, attrs)
         /\ \A q \in Keys(h, attrs) :
              Collected(h, attrs)[q] = attrs[Max(Under(h, attrs, q))].value
<1> DEFINE N == Len(attrs)
           key(i) == Full(h, attrs, i)
<1>1. N \in Nat /\ DOMAIN attrs = 1 .. N
  OBVIOUS
<1>2. PICK c : /\ Collected(h, attrs) = c[N]
               /\ c[0] = <<>>
               /\ \A n \in 1 .. N : c[n] = Set(c[n - 1], key(n), attrs[n].value)
  BY Loop, Zenon
<1> HIDE DEF key, N
<1> DEFINE Good(n) == /\ DOMAIN c[n] = {key(i) : i \in 1 .. n}
                      /\ \A i \in 1 .. n : (\A j \in 1 .. n : i < j => key(j) # key(i))
                                           => c[n][key(i)] = attrs[i].value
           T == {n \in 0 .. N : ~Good(n)}
<1>3. Good(0)
  BY <1>2
<1>4. ASSUME NEW n \in 1 .. N, Good(n - 1) PROVE Good(n)
  <2>1. c[n] = Set(c[n - 1], key(n), attrs[n].value)
    BY <1>2
  <2>2. n \in Nat /\ n - 1 \in Nat /\ 1 .. n = 1 .. (n - 1) \union {n} /\ n \notin 1 .. (n - 1)
    BY <1>1
  <2>3. DOMAIN c[n] = {key(i) : i \in 1 .. (n - 1)} \union {key(n)}
    BY <1>4, <2>1 DEF Set
  <2>4. \A q \in DOMAIN c[n] : c[n][q] = IF q = key(n) THEN attrs[n].value ELSE c[n - 1][q]
    BY <2>1 DEF Set
  <2>5. ASSUME NEW i \in 1 .. n, \A j \in 1 .. n : i < j => key(j) # key(i)
        PROVE  c[n][key(i)] = attrs[i].value
    <3>1. CASE i = n
      BY <2>3, <2>4, <3>1
    <3>2. CASE i # n
      <4>1. i \in 1 .. (n - 1) /\ i < n /\ key(i) # key(n)
        BY <2>2, <2>5, <3>2
      <4>2. c[n][key(i)] = c[n - 1][key(i)]
        BY <2>3, <2>4, <4>1
      <4>3. \A j \in 1 .. (n - 1) : i < j => key(j) # key(i)
        BY <2>2, <2>5
      <4>4. c[n - 1][key(i)] = attrs[i].value
        BY <1>4, <4>1, <4>3
      <4> QED
        BY <4>2, <4>4
    <3> QED
      BY <3>1, <3>2
  <2>6. DOMAIN c[n] = {key(i) : i \in 1 .. n}
    BY <2>2, <2>3
  <2> QED
    BY <2>5, <2>6
<1>5. Good(N)
  <2> SUFFICES ASSUME T # {} PROVE FALSE
    BY <1>1
  <2>1. T \subseteq Nat
    BY <1>1
  <2> HIDE DEF T
  <2>2. PICK n \in T : \A m \in T : n <= m
    BY <2>1, Least
  <2> USE DEF T
  <2> HIDE DEF Good
  <2>3. n \in 1 .. N
    BY <1>1, <1>3
  <2>4. Good(n - 1)
    BY <1>1, <2>2, <2>3
  <2> QED
    BY <1>4, <2>3, <2>4
<1>6. ASSUME NEW q \in DOMAIN c[N]
      PROVE  c[N][q] = attrs[Max({i \in 1 .. N : key(i) = q})].value
  <2> DEFINE S == {i \in 1 .. N : key(i) = q}
  <2>1. S \subseteq 1 .. N /\ S # {}
    BY <1>5
  <2>2. Max(S) \in S /\ \A x \in S : x <= Max(S)
    <3> HIDE DEF S
    <3> QED
      BY <1>1, <2>1, Greatest
  <2>3. PICK m : m = Max(S)
    OBVIOUS
  <2>4. m \in 1 .. N /\ key(m) = q /\ \A j \in 1 .. N : m < j => key(j) # key(m)
    <3>1. m \in S /\ \A x \in S : x <= m
      BY <2>2, <2>3
    <3>2. m \in 1 .. N /\ key(m) = q
      BY <3>1
    <3>3. ASSUME NEW j \in 1 .. N, m < j, key(j) = q PROVE FALSE
      <4>1. j <= m
        BY <3>1, <3>3
      <4> QED
        BY <1>1, <3>2, <3>3, <4>1
    <3> QED
      BY <3>2, <3>3
  <2>5. c[N][key(m)] = attrs[m].value
    BY <1>5, <2>4
  <2> QED
    BY <2>3, <2>4, <2>5
<1>7. DOMAIN c[N] = Keys(h, attrs) /\ \A q : Under(h, attrs, q) = {i \in 1 .. N : key(i) = q}
  BY <1>1, <1>5 DEF key, Keys, Under
<1> QED
  BY <1>1, <1>2, <1>6, <1>7

----
HandlerType == [array : Nat, len : Nat, group : Seq(Names),
                given : Seq([attr : Attrs, in : Seq(Names)])]

Attributes(h) == [i \in DOMAIN h.given |-> h.given[i].attr]

(* A handler has an array that nobody else appends to: its attributes are  *)
(* the whole of it, and those it was given.                                *)
HandlersOK ==
  /\ arrays \in Seq(Seq(Attrs))
  /\ handler \in Seq(HandlerType) /\ handler # <<>>
  /\ \A i \in DOMAIN handler :
       /\ handler[i].array \in DOMAIN arrays
       /\ arrays[handler[i].array] = Attributes(handler[i])
       /\ handler[i].len = Len(handler[i].given)

LEMMA HeldIs ==
  ASSUME HandlersOK, NEW i \in DOMAIN handler
  PROVE  Held(handler[i]) = Attributes(handler[i]) /\ Held(handler[i]) \in Seq(Attrs)
<1> DEFINE h == handler[i]
           a == arrays[h.array]
<1>0. h \in HandlerType
  BY ElementOfSeq DEF HandlersOK
<1>1. /\ a \in Seq(Attrs) /\ a = Attributes(h) /\ h.len = Len(h.given)
      /\ h.given \in Seq([attr : Attrs, in : Seq(Names)])
  <2>1. a \in Seq(Attrs)
    BY DEF HandlersOK
  <2>2. a = Attributes(h) /\ h.len = Len(h.given)
    BY DEF HandlersOK
  <2> QED
    BY <1>0, <2>1, <2>2 DEF HandlerType
<1>2. DOMAIN a = 1 .. Len(h.given)
  BY <1>1 DEF Attributes
<1>3. Len(a) = Len(h.given)
  BY <1>1, <1>2
<1>4. SubSeq(a, 1, Len(a)) = a
  BY <1>1
<1> QED
  BY <1>1, <1>3, <1>4 DEF Held

LEMMA HandlersInit == Init => HandlersOK
<1> SUFFICES ASSUME Init PROVE HandlersOK
  OBVIOUS
<1>1. arrays = <<<<>>>> /\ arrays \in Seq(Seq(Attrs))
  BY DEF Init
<1> DEFINE first == [array |-> 1, len |-> 0, group |-> <<>>, given |-> <<>>]
<1>2. handler = <<first>>
  BY DEF Init
<1>3. first \in HandlerType
  BY DEF HandlerType
<1>4. first.array = 1 /\ first.given = <<>> /\ first.len = 0
  OBVIOUS
<1>5. Attributes(first) = <<>>
  BY <1>4 DEF Attributes
<1> HIDE DEF first
<1>6. DOMAIN handler = {1} /\ handler[1] = first
  BY <1>2
<1>7. DOMAIN arrays = {1} /\ arrays[1] = <<>>
  BY <1>1
<1>8. handler \in Seq(HandlerType)
  BY <1>2, <1>3
<1> QED
  BY <1>1, <1>2, <1>4, <1>5, <1>6, <1>7, <1>8 DEF HandlersOK

(* A handler that has an array of its own, or shares the whole of one.     *)
LEMMA HandlerAdded ==
  ASSUME HandlersOK, arrays' \in Seq(Seq(Attrs)),
         \A a \in DOMAIN arrays : a \in DOMAIN arrays' /\ arrays'[a] = arrays[a],
         NEW h \in HandlerType, handler' = Append(handler, h),
         h.array \in DOMAIN arrays', arrays'[h.array] = Attributes(h), h.len = Len(h.given)
  PROVE  HandlersOK'
<1>1. handler \in Seq(HandlerType) /\ handler' \in Seq(HandlerType) /\ handler' # <<>>
  <2>1. handler \in Seq(HandlerType)
    BY DEF HandlersOK
  <2>2. Append(handler, h) \in Seq(HandlerType) /\ Append(handler, h) # <<>>
    BY <2>1
  <2> QED
    BY <2>1, <2>2
<1>2. /\ DOMAIN handler' = DOMAIN handler \union {Len(handler) + 1}
      /\ handler'[Len(handler) + 1] = h
      /\ \A i \in DOMAIN handler : handler'[i] = handler[i]
  BY <1>1
<1>3. ASSUME NEW i \in DOMAIN handler'
      PROVE  /\ handler'[i].array \in DOMAIN arrays'
             /\ arrays'[handler'[i].array] = Attributes(handler'[i])
             /\ handler'[i].len = Len(handler'[i].given)
  <2>1. CASE i \in DOMAIN handler
    <3>1. /\ handler[i].array \in DOMAIN arrays
          /\ arrays[handler[i].array] = Attributes(handler[i])
          /\ handler[i].len = Len(handler[i].given)
      BY <2>1 DEF HandlersOK
    <3> QED
      BY <1>2, <2>1, <3>1
  <2>2. CASE i = Len(handler) + 1
    BY <1>2, <2>2
  <2> QED
    BY <1>2, <2>1, <2>2
<1> QED
  BY <1>1, <1>3 DEF HandlersOK, Attributes

LEMMA HandlersStep ==
  ASSUME HandlersOK, [Next]_vars
  PROVE  /\ HandlersOK'
         /\ \A i \in DOMAIN handler : i \in DOMAIN handler' /\ handler'[i] = handler[i]
<1> DEFINE Kept == \A i \in DOMAIN handler : i \in DOMAIN handler' /\ handler'[i] = handler[i]
<1>1. handler \in Seq(HandlerType) /\ arrays \in Seq(Seq(Attrs))
  BY DEF HandlersOK
<1>2. ASSUME NEW i \in DOMAIN handler, NEW a \in Attrs, WithAttrs(handler[i], <<a>>)
      PROVE  HandlersOK' /\ Kept
  <2> DEFINE h == handler[i]
             new == [array |-> Len(arrays) + 1, len |-> Len(Held(h) \o <<a>>),
                     group |-> h.group,
                     given |-> h.given \o [j \in DOMAIN <<a>> |->
                                            [attr |-> <<a>>[j], in |-> h.group]]]
             one == [attr |-> a, in |-> h.group]
  <2>1. h \in HandlerType /\ h.given \in Seq([attr : Attrs, in : Seq(Names)])
        /\ h.group \in Seq(Names)
    <3>1. h \in HandlerType
      BY <1>1, ElementOfSeq
    <3> QED
      BY <3>1 DEF HandlerType
  <2>2. /\ Held(h) = Attributes(h) /\ Held(h) \in Seq(Attrs)
        /\ Len(Held(h)) = Len(h.given)
    <3>1. Held(h) = Attributes(h) /\ Held(h) \in Seq(Attrs)
      BY HeldIs
    <3>2. DOMAIN Held(h) = 1 .. Len(h.given)
      BY <2>1, <3>1 DEF Attributes
    <3> QED
      BY <2>1, <3>1, <3>2
  <2>3. [j \in DOMAIN <<a>> |-> [attr |-> <<a>>[j], in |-> h.group]] = <<one>>
    OBVIOUS
  <2>4. arrays' = Append(arrays, Held(h) \o <<a>>) /\ handler' = Append(handler, new)
    <3>1. Len(arrays) + 1 \notin DOMAIN arrays
      BY <1>1
    <3> QED
      BY <1>2, <3>1 DEF WithAttrs, NewAttrs
  <2>5. /\ new.array = Len(arrays) + 1 /\ new.len = Len(Held(h)) + 1 /\ new.group = h.group
        /\ new.given = Append(h.given, one)
        /\ new.given \in Seq([attr : Attrs, in : Seq(Names)])
        /\ new \in HandlerType
    <3>1. one \in [attr : Attrs, in : Seq(Names)]
      BY <2>1
    <3>2. h.given \o <<one>> = Append(h.given, one)
          /\ Append(h.given, one) \in Seq([attr : Attrs, in : Seq(Names)])
      BY <2>1, <3>1
    <3>3. Len(Held(h) \o <<a>>) = Len(Held(h)) + 1 /\ Len(Held(h)) \in Nat /\ Len(arrays) \in Nat
      BY <1>1, <2>2
    <3> HIDE DEF one
    <3> QED
      BY <2>1, <2>3, <3>2, <3>3 DEF HandlerType
  <2> HIDE DEF new
  <2>6. Held(h) \o <<a>> = Attributes(new)
    <3>1. Attributes(new) = [j \in 1 .. Len(h.given) + 1 |-> Append(h.given, one)[j].attr]
      BY <2>1, <2>5 DEF Attributes
    <3>2. \A j \in 1 .. Len(h.given) : Held(h)[j] = h.given[j].attr
      BY <2>1, <2>2 DEF Attributes
    <3>3. /\ Held(h) \o <<a>> \in Seq(Attrs) /\ Len(Held(h) \o <<a>>) = Len(h.given) + 1
          /\ \A j \in 1 .. Len(h.given) : (Held(h) \o <<a>>)[j] = Held(h)[j]
          /\ (Held(h) \o <<a>>)[Len(h.given) + 1] = a
      BY <2>2
    <3>4. /\ \A j \in 1 .. Len(h.given) : Append(h.given, one)[j] = h.given[j]
          /\ Append(h.given, one)[Len(h.given) + 1].attr = a
      BY <2>1
    <3>5. \A j \in 1 .. Len(h.given) + 1 :
            (Held(h) \o <<a>>)[j] = Append(h.given, one)[j].attr
      <4>1. ASSUME NEW j \in 1 .. Len(h.given)
            PROVE  (Held(h) \o <<a>>)[j] = Append(h.given, one)[j].attr
        BY <3>2, <3>3, <3>4
      <4>2. \A j \in 1 .. Len(h.given) + 1 : j \in 1 .. Len(h.given) \/ j = Len(h.given) + 1
        BY <2>1
      <4> QED
        BY <3>3, <3>4, <4>1, <4>2
    <3>6. Held(h) \o <<a>> = [j \in 1 .. Len(h.given) + 1 |-> (Held(h) \o <<a>>)[j]]
      BY <3>3
    <3> QED
      BY <3>1, <3>5, <3>6
  <2>7. new.len = Len(new.given)
    BY <2>1, <2>2, <2>5
  <2> HIDE DEF h
  <2>8. /\ arrays' \in Seq(Seq(Attrs))
        /\ \A b \in DOMAIN arrays : b \in DOMAIN arrays' /\ arrays'[b] = arrays[b]
        /\ new.array \in DOMAIN arrays' /\ arrays'[new.array] = Attributes(new)
    <3>1. Held(h) \o <<a>> \in Seq(Attrs)
      BY <2>2
    <3>2. PICK s \in Seq(Attrs) : s = Held(h) \o <<a>>
      BY <3>1
    <3>3. arrays' = Append(arrays, s) /\ new.array = Len(arrays) + 1 /\ s = Attributes(new)
      BY <2>4, <2>5, <2>6, <3>2
    <3> QED
      BY <1>1, <3>3
  <2>9. HandlersOK'
    BY <2>4, <2>5, <2>7, <2>8, HandlerAdded
  <2> QED
    BY <1>1, <2>4, <2>9
<1>3. ASSUME NEW i \in DOMAIN handler, NEW name \in Names, WithGroup(handler[i], name)
      PROVE  HandlersOK' /\ Kept
  <2> DEFINE h == handler[i]
             new == [h EXCEPT !.group = Append(@, name)]
  <2>1. arrays' = arrays /\ handler' = Append(handler, new)
    BY <1>3 DEF WithGroup
  <2>2. h \in HandlerType
    BY <1>1, ElementOfSeq
  <2>3. /\ new \in HandlerType /\ new.array = h.array /\ new.len = h.len
        /\ new.given = h.given
    <3>1. h.group \in Seq(Names)
      BY <2>2 DEF HandlerType
    <3>2. Append(h.group, name) \in Seq(Names)
      BY <3>1
    <3> DEFINE group == Append(h.group, name)
    <3>3. new = [h EXCEPT !.group = group]
      OBVIOUS
    <3> HIDE DEF group, new
    <3> QED
      BY <2>2, <3>2, <3>3 DEF HandlerType, group
  <2>4. Attributes(new) = Attributes(h)
    BY <2>3 DEF Attributes
  <2> HIDE DEF new
  <2>5. HandlersOK'
    BY <1>1, <2>1, <2>3, <2>4, HandlerAdded DEF HandlersOK
  <2> QED
    BY <1>1, <2>1, <2>5
<1>4. CASE UNCHANGED <<arrays, handler>>
  BY <1>4 DEF HandlersOK, Attributes
<1> QED
  BY <1>2, <1>3, <1>4 DEF Next, vars, Handle, StdLogger

----
(* A record's level comes to the highest up to ERROR that is not above it. *)
LEMMA LevelFits ==
  ASSUME NEW l \in Int
  PROVE  LET as == SlogLevelToLevel(l)
         IN /\ LevelToSlogLevel(as) <= l \/ as = Level.TRACE
            /\ as < Level.ERROR => l < LevelToSlogLevel(as + 1)
<1>1. /\ Level.TRACE = 0 /\ Level.DEBUG = 1 /\ Level.INFO = 2 /\ Level.WARNING = 3
      /\ Level.ERROR = 4 /\ Level.FATAL = 5
  BY DEF Level
<1>2. DOMAIN Level = {"TRACE", "DEBUG", "INFO", "WARNING", "ERROR", "FATAL"}
  BY DEF Level
<1>3. Range(Level) = 0 .. 5
  <2>1. \A v \in 0 .. 5 : v \in Range(Level)
    BY <1>1, <1>2 DEF Range
  <2>2. \A v \in Range(Level) : v \in 0 .. 5
    BY <1>1, <1>2 DEF Range
  <2> QED
    BY <2>1, <2>2
<1>4. \A v \in 0 .. 5 : LevelToSlogLevel(v) = -8 + 4 * v
  BY <1>3 DEF LevelToSlogLevel
<1>5. SlogLevelToLevel(l) = IF l < -4 THEN 0 ELSE IF l < 0 THEN 1 ELSE IF l < 4 THEN 2
                            ELSE IF l < 8 THEN 3 ELSE 4
  BY <1>1 DEF SlogLevelToLevel
<1> QED
  BY <1>1, <1>4, <1>5

(* A level up to ERROR survives the way to slog and back.                  *)
LEMMA LevelReturns ==
  ASSUME NEW v \in Range(Level), v <= Level.ERROR
  PROVE  SlogLevelToLevel(LevelToSlogLevel(v)) = v
<1>1. /\ Level.TRACE = 0 /\ Level.DEBUG = 1 /\ Level.INFO = 2 /\ Level.WARNING = 3
      /\ Level.ERROR = 4 /\ Level.FATAL = 5
  BY DEF Level
<1>2. DOMAIN Level = {"TRACE", "DEBUG", "INFO", "WARNING", "ERROR", "FATAL"}
  BY DEF Level
<1>3. v \in {0, 1, 2, 3, 4}
  BY <1>1, <1>2 DEF Range
<1>4. LevelToSlogLevel(v) = -8 + 4 * v
  BY DEF LevelToSlogLevel
<1>5. \A l \in Int :
        SlogLevelToLevel(l) = IF l < -4 THEN 0 ELSE IF l < 0 THEN 1 ELSE IF l < 4 THEN 2
                              ELSE IF l < 8 THEN 3 ELSE 4
  BY <1>1 DEF SlogLevelToLevel
<1> QED
  BY <1>3, <1>4, <1>5

LEMMA SlogLevelIsInt == \A v \in Range(Level) : LevelToSlogLevel(v) \in Int
<1>1. \A v \in Range(Level) : v \in Int
  BY DEF Range, Level
<1> QED
  BY <1>1 DEF LevelToSlogLevel

(* What one call of Handle logs, of the handler's attributes and those of  *)
(* the record.                                                             *)
FieldsRight(h, all, sourced, fields) ==
  LET source == IF sourced THEN {<<"slog_source">>} ELSE {}
      keys == Keys(h, all)
  IN /\ DOMAIN fields = keys \union source \union DOMAIN LoggerFields
     /\ \A q \in source : fields[q] = "source"
     /\ \A q \in keys \ source : fields[q] = all[Max(Under(h, all, q))].value
     /\ \A q \in DOMAIN LoggerFields \ (keys \union source) : fields[q] = LoggerFields[q]

LEMMA MergedIs ==
  ASSUME NEW h, NEW all \in Seq(Attrs), NEW sourced \in BOOLEAN
  PROVE  FieldsRight(h, all, sourced, Merged(h, all, sourced))
<1> DEFINE c == Collected(h, all)
           own == IF sourced THEN Set(c, <<"slog_source">>, "source") ELSE c
           fields == Merged(h, all, sourced)
           source == IF sourced THEN {<<"slog_source">>} ELSE {}
           keys == Keys(h, all)
<1>1. DOMAIN c = keys /\ \A q \in keys : c[q] = all[Max(Under(h, all, q))].value
  BY LatestStays
<1> HIDE DEF c, keys
<1>2. /\ DOMAIN own = keys \union source
      /\ \A q \in source : own[q] = "source"
      /\ \A q \in keys \ source : own[q] = all[Max(Under(h, all, q))].value
  <2>1. CASE sourced
    BY <1>1, <2>1 DEF Set
  <2>2. CASE ~sourced
    BY <1>1, <2>2
  <2> QED
    BY <2>1, <2>2
<1>3. fields = [k \in DOMAIN LoggerFields \union DOMAIN own |->
                  IF k \in DOMAIN own THEN own[k] ELSE LoggerFields[k]]
  BY Zenon DEF Merged, c
<1> HIDE DEF own, source, fields
<1>4. /\ DOMAIN fields = keys \union source \union DOMAIN LoggerFields
      /\ \A q \in source : fields[q] = "source"
      /\ \A q \in keys \ source : fields[q] = all[Max(Under(h, all, q))].value
      /\ \A q \in DOMAIN LoggerFields \ (keys \union source) : fields[q] = LoggerFields[q]
  BY <1>2, <1>3
<1> QED
  BY <1>4, Zenon DEF FieldsRight, keys, source, fields

RecordRight(h, r) ==
  /\ FieldsRight(h, Attributes(h) \o r.record, r.sourced, r.fields)
  /\ r.asked = {} =>
       /\ LevelToSlogLevel(r.as) <= r.level \/ r.as = Level.TRACE
       /\ r.as < Level.ERROR => r.level < LevelToSlogLevel(r.as + 1)
  /\ \A v \in r.asked : v <= Level.ERROR => r.as = v

(* The latest record is that of a handler that exists, and handlers never  *)
(* change once they are made.                                              *)
HandledInv == Handled /\ (logged # <<>> => logged.by \in DOMAIN handler)

LEMMA HandleStep ==
  ASSUME HandlersOK, NEW i \in DOMAIN handler, NEW record \in Seq(Attrs),
         NEW sourced \in BOOLEAN, NEW level \in Int, NEW asked,
         Handle(i, record, sourced, level, asked),
         \A v \in asked : v \in Range(Level) /\ level = LevelToSlogLevel(v)
  PROVE  HandledInv'
<1> DEFINE h == handler[i]
           all == Attributes(h) \o record
<1>1. /\ logged' = [by |-> i, record |-> record, sourced |-> sourced, level |-> level,
                    asked |-> asked,
                    fields |-> Merged(h, Held(h) \o record, sourced),
                    as |-> SlogLevelToLevel(level)]
      /\ handler' = handler
  BY DEF Handle
<1>2. Held(h) = Attributes(h) /\ Held(h) \in Seq(Attrs) /\ all \in Seq(Attrs)
  <2>1. Held(h) = Attributes(h) /\ Held(h) \in Seq(Attrs)
    BY HeldIs
  <2> QED
    BY <2>1
<1>3. /\ logged'.by = i /\ logged'.record = record /\ logged'.sourced = sourced
      /\ logged'.level = level /\ logged'.as = SlogLevelToLevel(level)
      /\ logged'.asked = asked
      /\ logged'.fields = Merged(h, all, sourced)
  BY <1>1, <1>2
<1>4. handler'[logged'.by] = h
  BY <1>1, <1>3
<1> HIDE DEF h
<1>5. FieldsRight(h, all, sourced, Merged(h, all, sourced))
  <2> HIDE DEF all
  <2> QED
    BY <1>2, MergedIs
<1>6. /\ LevelToSlogLevel(logged'.as) <= logged'.level \/ logged'.as = Level.TRACE
      /\ logged'.as < Level.ERROR => logged'.level < LevelToSlogLevel(logged'.as + 1)
  BY <1>3, LevelFits
<1>7. \A v \in asked : v <= Level.ERROR => logged'.as = v
  BY <1>3, LevelReturns
<1>8. Handled'
  <2>1. RecordRight(handler'[logged'.by], logged')
    BY <1>3, <1>4, <1>5, <1>6, <1>7 DEF RecordRight
  <2> HIDE DEF all
  <2> QED
    BY <2>1, Zenon DEF Handled, RecordRight, FieldsRight, Keys,
      Under, Full, PrefixKey, Attributes
<1> QED
  BY <1>1, <1>3, <1>8 DEF HandledInv

LEMMA HandledStep == SlogAssumption /\ HandlersOK /\ HandledInv /\ [Next]_vars => HandledInv'
<1> SUFFICES ASSUME SlogAssumption, HandlersOK, HandledInv, [Next]_vars PROVE HandledInv'
  OBVIOUS
<1>1. \A i \in DOMAIN handler : i \in DOMAIN handler' /\ handler'[i] = handler[i]
  BY HandlersStep
<1>2. CASE UNCHANGED logged
  <2>1. CASE logged = <<>>
    BY <1>2, <2>1 DEF HandledInv, Handled
  <2>2. CASE logged # <<>>
    <3>1. logged.by \in DOMAIN handler /\ logged' = logged
          /\ handler'[logged'.by] = handler[logged.by]
      BY <1>1, <1>2, <2>2 DEF HandledInv
    <3>2. RecordRight(handler[logged.by], logged)
      BY <2>2, Zenon DEF HandledInv, Handled, RecordRight, FieldsRight, Keys,
      Under, Full, PrefixKey, Attributes
    <3>3. RecordRight(handler'[logged'.by], logged')
      BY <3>1, <3>2
    <3>4. Handled'
      BY <3>3, Zenon DEF Handled, RecordRight, FieldsRight, Keys,
      Under, Full, PrefixKey, Attributes
    <3> QED
      BY <1>1, <3>1, <3>4 DEF HandledInv
  <2> QED
    BY <2>1, <2>2
<1>3. ASSUME NEW i \in DOMAIN handler,
             NEW record \in {<<>>} \union {<<a>> : a \in Attrs}, NEW sourced \in BOOLEAN,
             NEW level \in SlogLevels, Handle(i, record, sourced, level, {})
      PROVE  HandledInv'
  <2>1. record \in Seq(Attrs) /\ level \in Int
    <3>1. ASSUME NEW a \in Attrs PROVE <<a>> \in Seq(Attrs)
      OBVIOUS
    <3>2. level \in Int
      BY DEF SlogAssumption
    <3>3. <<>> \in Seq(Attrs)
      OBVIOUS
    <3>4. record = <<>> \/ \E a \in Attrs : record = <<a>>
      OBVIOUS
    <3> QED
      BY <3>1, <3>2, <3>3, <3>4
  <2> QED
    BY <1>3, <2>1, HandleStep
<1>4. ASSUME NEW level \in Range(Level), StdLogger(level) PROVE HandledInv'
  <2>1. 1 \in DOMAIN handler
    BY DEF HandlersOK
  <2>2. Handle(1, <<>>, TRUE, LevelToSlogLevel(level), {level})
    BY <1>4 DEF StdLogger
  <2>3. <<>> \in Seq(Attrs) /\ LevelToSlogLevel(level) \in Int
    BY SlogLevelIsInt
  <2> QED
    BY <2>1, <2>2, <2>3, HandleStep
<1> QED
  BY <1>2, <1>3, <1>4 DEF Next, vars, WithAttrs, WithGroup

(* A record is logged with the attributes of its own handler and its own,  *)
(* each key with the latest value, however many handlers were derived from *)
(* one another, and at the level that fits it, or that StdLogger was asked *)
(* for, up to ERROR (SlogHandler.Handle, StdLogger).                       *)
THEOREM RecordsHandled == ASSUME SlogAssumption PROVE Spec => []Handled
<1>1. Init => HandledInv
  BY DEF Init, HandledInv, Handled
<1>2. HandlersOK /\ [Next]_vars => HandlersOK'
  BY HandlersStep
<1>3. HandledInv => Handled
  BY DEF HandledInv
<1> QED
  BY <1>1, <1>2, <1>3, HandlersInit, HandledStep, PTL DEF Spec
====
