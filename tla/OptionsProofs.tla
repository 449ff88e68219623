---- MODULE OptionsProofs ----
(***************************************************************************)
(* Configured, for any number of options in any order: each option changes *)
(* one setting and adds itself to the account of those given, which grows  *)
(* at its end only.                                                        *)
(***************************************************************************)
EXTENDS Options, SequenceTheorems, WellFoundedInduction, TLAPS

----
(* Induction over the naturals, in the form that has no operator for a     *)
(* parameter: what does not hold of all fails for a least one.             *)
LEMMA Least ==
  ASSUME NEW T, T \subseteq Nat, T # {}
  PROVE  \E x \in T : \A y \in T : x <= y
<1> DEFINE R == OpToRel(<, Nat)
<1>1. IsWellFoundedOn(R, Nat)
  BY NatLessThanWellFounded
<1>2. R = {ss \in Nat \X Nat : ss[1] < ss[2]}
  BY DEF OpToRel
<1> HIDE DEF R
<1>3. PICK x \in T : \A y \in T : ~ (<<y, x>> \in R)
  BY <1>1, WFMin
<1>4. ASSUME NEW y \in T PROVE x <= y
  <2>1. ~(y < x)
    BY <1>2, <1>3
  <2> QED
    BY <2>1
<1> QED
  BY <1>4

LEMMA MaxIs ==
  ASSUME NEW S, S \subseteq Nat, NEW m \in S, \A x \in S : x <= m
  PROVE  Max(S) = m
<1>1. \A x \in S : (\A y \in S : x >= y) => x = m
  OBVIOUS
<1>2. \A y \in S : m >= y
  OBVIOUS
<1> QED
  BY <1>1, <1>2 DEF Max

(* A set of naturals below a bound has a greatest.                         *)
LEMMA Greatest ==
  ASSUME NEW n \in Nat, NEW S, S \subseteq 1 .. n, S # {}
  PROVE  Max(S) \in S /\ \A x \in S : x <= Max(S)
<1> DEFINE T == {n - x : x \in S}
<1>1. PICK d \in T : \A e \in T : d <= e
  <2>1. T \subseteq Nat /\ T # {}
    OBVIOUS
  <2> HIDE DEF T
  <2> QED
    BY <2>1, Least
<1>2. PICK m \in S : d = n - m
  BY <1>1
<1>3. ASSUME NEW x \in S PROVE x <= m
  <2>1. d <= n - x
    BY <1>1
  <2> QED
    BY <1>2, <2>1
<1>4. S \subseteq Nat
  OBVIOUS
<1> QED
  BY <1>3, <1>4, MaxIs

----
(* FlattenSeq puts the sequences together from left to right.              *)
Flat(f, s, n) == f = [i \in 1 .. n |-> IF i = 1 THEN s[i] ELSE f[i - 1] \o s[i]]

LEMMA FlatExists == \A s : \A n \in Nat : \E f : Flat(f, s, n)
<1> SUFFICES ASSUME NEW s PROVE \A n \in Nat : \E f : Flat(f, s, n)
  OBVIOUS
<1> DEFINE T == {n \in Nat : ~ \E f : Flat(f, s, n)}
<1> SUFFICES ASSUME T # {} PROVE FALSE
  OBVIOUS
<1>1. PICK n \in T : \A m \in T : n <= m
  <2>1. T \subseteq Nat
    OBVIOUS
  <2> HIDE DEF T
  <2> QED
    BY <2>1, Least
<1>2. n # 0
  <2>1. Flat([i \in {} |-> <<>>], s, 0)
    BY DEF Flat
  <2> QED
    BY <2>1
<1>3. PICK f : Flat(f, s, n - 1)
  <2>1. n - 1 \in Nat /\ ~(n <= n - 1)
    BY <1>2
  <2> QED
    BY <1>1, <2>1
<1> DEFINE g == [i \in 1 .. n |-> IF i = n THEN (IF n = 1 THEN s[n] ELSE f[n - 1] \o s[n])
                                 ELSE f[i]]
<1>4. ASSUME NEW i \in 1 .. n PROVE g[i] = IF i = 1 THEN s[i] ELSE g[i - 1] \o s[i]
  <2>1. \A j \in 1 .. (n - 1) : f[j] = IF j = 1 THEN s[j] ELSE f[j - 1] \o s[j]
    BY <1>3 DEF Flat
  <2>2. CASE i = n
    BY <1>2, <2>2
  <2>3. CASE i # n
    <3>1. i \in 1 .. (n - 1) /\ g[i] = f[i]
      BY <2>3
    <3>2. i # 1 => g[i - 1] = f[i - 1]
      BY <2>3
    <3> QED
      BY <2>1, <3>1, <3>2
  <2> QED
    BY <2>2, <2>3
<1>5. g = [i \in 1 .. n |-> IF i = 1 THEN s[i] ELSE g[i - 1] \o s[i]]
  BY <1>4
<1>6. Flat(g, s, n)
  <2> HIDE DEF g
  <2> QED
    BY <1>5, Zenon DEF Flat
<1> QED
  BY <1>6

LEMMA FlatAt ==
  ASSUME NEW s, NEW n \in Nat, NEW f, Flat(f, s, n), NEW i \in 1 .. n
  PROVE  f[i] = IF i = 1 THEN s[i] ELSE f[i - 1] \o s[i]
BY DEF Flat

LEMMA FlattenIs ==
  ASSUME NEW s, NEW n \in Nat, Len(s) = n
  PROVE  \E f : /\ Flat(f, s, n)
                /\ n = 0 => FlattenSeq(s) = s
                /\ n # 0 => FlattenSeq(s) = f[n]
<1> DEFINE f == CHOOSE f : Flat(f, s, n)
<1>1. Flat(f, s, n)
  <2>1. \E g : Flat(g, s, n)
    BY FlatExists
  <2> QED
    BY <2>1
<1>2. n # 0 => FlattenSeq(s) = f[n]
  BY Zenon DEF FlattenSeq, Flat
<1>3. n = 0 => FlattenSeq(s) = s
  BY DEF FlattenSeq
<1> HIDE DEF f
<1> QED
  BY <1>1, <1>2, <1>3

(* Two that agree on what they are made of agree.                          *)
LEMMA FlatSame ==
  ASSUME NEW s, NEW t, NEW n \in Nat, NEW f, NEW g, NEW m \in Nat, n <= m,
         Flat(f, s, n), Flat(g, t, m), \A i \in 1 .. n : s[i] = t[i]
  PROVE  \A i \in 1 .. n : f[i] = g[i]
<1> DEFINE T == {i \in 1 .. n : f[i] # g[i]}
<1> SUFFICES ASSUME T # {} PROVE FALSE
  OBVIOUS
<1>1. PICK i \in T : \A j \in T : i <= j
  <2>1. T \subseteq Nat
    OBVIOUS
  <2> HIDE DEF T
  <2> QED
    BY <2>1, Least
<1>2. f[i] = IF i = 1 THEN s[i] ELSE f[i - 1] \o s[i]
  BY FlatAt
<1>3. g[i] = IF i = 1 THEN t[i] ELSE g[i - 1] \o t[i]
  <2>1. i \in 1 .. m
    OBVIOUS
  <2> QED
    BY <2>1, FlatAt
<1>4. i # 1 => f[i - 1] = g[i - 1]
  BY <1>1
<1> QED
  BY <1>2, <1>3, <1>4

LEMMA FlatTyped ==
  ASSUME NEW S, NEW s \in Seq(Seq(S))
  PROVE  FlattenSeq(s) \in Seq(S)
<1>1. PICK n \in Nat : n = Len(s)
  OBVIOUS
<1>2. PICK f : Flat(f, s, n) /\ (n = 0 => FlattenSeq(s) = s) /\ (n # 0 => FlattenSeq(s) = f[n])
  BY <1>1, FlattenIs
<1> DEFINE T == {i \in 1 .. n : f[i] \notin Seq(S)}
<1>3. CASE n = 0
  <2>1. s = <<>> /\ FlattenSeq(s) = s
    BY <1>1, <1>2, <1>3, EmptySeq
  <2> QED
    BY <2>1, EmptySeq
<1>4. CASE n # 0
  <2>1. T = {}
    <3> SUFFICES ASSUME T # {} PROVE FALSE
      OBVIOUS
    <3>1. PICK i \in T : \A j \in T : i <= j
      <4>1. T \subseteq Nat
        OBVIOUS
      <4> HIDE DEF T
      <4> QED
        BY <4>1, Least
    <3>2. f[i] = IF i = 1 THEN s[i] ELSE f[i - 1] \o s[i]
      BY <1>2, FlatAt
    <3>3. s[i] \in Seq(S)
      BY <1>1
    <3>4. i # 1 => f[i - 1] \in Seq(S)
      BY <3>1
    <3>5. f[i] \in Seq(S)
      BY <3>2, <3>3, <3>4
    <3> QED
      BY <3>5
  <2> QED
    BY <1>2, <1>4, <2>1
<1> QED
  BY <1>3, <1>4

LEMMA FlatGrows ==
  ASSUME NEW S, NEW s \in Seq(Seq(S)), NEW e \in Seq(S)
  PROVE  FlattenSeq(Append(s, e)) = FlattenSeq(s) \o e
<1>1. PICK n \in Nat : n = Len(s)
  OBVIOUS
<1>2. PICK t : t = Append(s, e)
  OBVIOUS
<1>3. Len(t) = n + 1 /\ t[n + 1] = e /\ \A i \in 1 .. n : t[i] = s[i]
  BY <1>1, <1>2
<1>4. PICK f : Flat(f, s, n) /\ (n = 0 => FlattenSeq(s) = s) /\ (n # 0 => FlattenSeq(s) = f[n])
  BY <1>1, FlattenIs
<1>5. PICK g : Flat(g, t, n + 1) /\ FlattenSeq(t) = g[n + 1]
  <2>1. n + 1 \in Nat /\ n + 1 # 0
    OBVIOUS
  <2> QED
    BY <1>3, <2>1, FlattenIs
<1>6. g[n + 1] = IF n = 0 THEN e ELSE g[n] \o e
  <2>1. g[n + 1] = IF n + 1 = 1 THEN t[n + 1] ELSE g[n + 1 - 1] \o t[n + 1]
    <3>1. n + 1 \in Nat /\ n + 1 \in 1 .. n + 1
      OBVIOUS
    <3> QED
      BY <1>5, <3>1, FlatAt
  <2>2. n + 1 - 1 = n
    OBVIOUS
  <2> QED
    BY <1>3, <2>1, <2>2
<1>7. \A i \in 1 .. n : f[i] = g[i]
  <2>1. PICK m \in Nat : m = n + 1 /\ n <= m
    OBVIOUS
  <2>2. \A i \in 1 .. n : s[i] = t[i]
    BY <1>3
  <2>3. Flat(f, s, n) /\ Flat(g, t, m)
    BY <1>4, <1>5, <2>1
  <2> QED
    BY <2>1, <2>2, <2>3, FlatSame
<1>8. CASE n = 0
  <2>1. s = <<>>
    BY <1>1, <1>8, EmptySeq
  <2> QED
    BY <1>2, <1>4, <1>5, <1>6, <1>8, <2>1
<1>9. CASE n # 0
  <2>1. f[n] = g[n]
    BY <1>7, <1>9
  <2> QED
    BY <1>2, <1>4, <1>5, <1>6, <1>9, <2>1
<1> QED
  BY <1>8, <1>9

----
(* The names of levels.                                                    *)
LEMMA NamesAreRead ==
  /\ "WARN" \notin Range(LevelNames)
  /\ \A l \in 0 .. FATAL : ParseLevel(String(l)) = l
  /\ \A name : Recognized(name) =>
       String(ParseLevel(name)) = IF name = "WARN" THEN "WARNING" ELSE name
<1>1. /\ LevelNames[1] = "TRACE" /\ LevelNames[2] = "DEBUG" /\ LevelNames[3] = "INFO"
      /\ LevelNames[4] = "WARNING" /\ LevelNames[5] = "ERROR" /\ LevelNames[6] = "FATAL"
      /\ DOMAIN LevelNames = 1 .. 6
  BY DEF LevelNames
<1>2. Range(LevelNames) = {LevelNames[i] : i \in 1 .. 6}
  BY <1>1 DEF Range
<1>3. \A l, m \in 0 .. 5 : LevelNames[l + 1] = LevelNames[m + 1] => l = m
  BY <1>1
<1>4. \A l \in 0 .. 5 : /\ String(l) = LevelNames[l + 1] /\ String(l) # "WARN"
                        /\ Recognized(String(l))
  <2>1. \A l \in 0 .. 5 : l + 1 \in 1 .. 6 /\ LevelNames[l + 1] # "WARN"
    BY <1>1
  <2> QED
    BY <1>2, <2>1 DEF String, FATAL, Recognized
<1>5. ASSUME NEW l \in 0 .. 5 PROVE ParseLevel(String(l)) = l
  <2>1. ParseLevel(String(l)) = CHOOSE m \in 0 .. 5 : LevelNames[m + 1] = LevelNames[l + 1]
    BY <1>4 DEF ParseLevel, FATAL
  <2> QED
    BY <1>3, <2>1
<1>6. ASSUME NEW name, Recognized(name)
      PROVE  String(ParseLevel(name)) = IF name = "WARN" THEN "WARNING" ELSE name
  <2>1. \E l \in 0 .. 5 : LevelNames[l + 1] = IF name = "WARN" THEN "WARNING" ELSE name
    <3>1. CASE name = "WARN"
      BY <1>1, <3>1
    <3>2. CASE name # "WARN"
      <4>1. PICK i \in 1 .. 6 : name = LevelNames[i]
        BY <1>2, <1>6, <3>2 DEF Recognized
      <4>2. i - 1 \in 0 .. 5 /\ i - 1 + 1 = i
        OBVIOUS
      <4> QED
        BY <3>2, <4>1, <4>2
    <3> QED
      BY <3>1, <3>2
  <2>2. PICK l : l = ParseLevel(name)
    OBVIOUS
  <2>3. l \in 0 .. 5 /\ LevelNames[l + 1] = IF name = "WARN" THEN "WARNING" ELSE name
    BY <1>6, <2>1, <2>2 DEF ParseLevel, FATAL
  <2> QED
    BY <1>4, <2>2, <2>3
<1>7. "WARN" \notin Range(LevelNames)
  BY <1>1, <1>2
<1> QED
  BY <1>5, <1>6, <1>7 DEF FATAL

LEMMA ParsedIn == \A name : Recognized(name) => ParseLevel(name) \in 0 .. FATAL
<1> SUFFICES ASSUME NEW name, Recognized(name) PROVE ParseLevel(name) \in 0 .. FATAL
  OBVIOUS
<1>1. /\ LevelNames[1] = "TRACE" /\ LevelNames[2] = "DEBUG" /\ LevelNames[3] = "INFO"
      /\ LevelNames[4] = "WARNING" /\ LevelNames[5] = "ERROR" /\ LevelNames[6] = "FATAL"
      /\ Range(LevelNames) = {LevelNames[i] : i \in 1 .. 6}
  BY DEF LevelNames, Range
<1>2. \E l \in 0 .. 5 : LevelNames[l + 1] = IF name = "WARN" THEN "WARNING" ELSE name
  <2>1. CASE name = "WARN"
    BY <1>1, <2>1
  <2>2. CASE name # "WARN"
    <3>1. PICK i \in 1 .. 6 : name = LevelNames[i]
      BY <1>1, <2>2 DEF Recognized
    <3>2. i - 1 \in 0 .. 5 /\ i - 1 + 1 = i
      OBVIOUS
    <3> QED
      BY <2>2, <3>1, <3>2
  <2> QED
    BY <2>1, <2>2
<1> QED
  BY <1>2 DEF ParseLevel, FATAL

----
(* The last option among some is the latest one when that is one of them,  *)
(* and the one it was otherwise.                                           *)
LEMMA AmongGrows ==
  ASSUME NEW S, applied \in Seq(S), NEW o \in S, applied' = Append(applied, o), NEW names
  PROVE  /\ o.name \in names => Among(names)' # {} /\ LastOf(names)' = o
         /\ o.name \notin names => /\ Among(names)' = Among(names)
                                   /\ Among(names) # {} => LastOf(names)' = LastOf(names)
<1> DEFINE n == Len(applied)
<1>1. /\ n \in Nat /\ DOMAIN applied = 1 .. n /\ DOMAIN applied' = 1 .. n + 1
      /\ applied'[n + 1] = o /\ \A i \in 1 .. n : applied'[i] = applied[i]
  OBVIOUS
<1> HIDE DEF n
<1>2. Among(names)' = IF o.name \in names THEN Among(names) \union {n + 1} ELSE Among(names)
  BY <1>1 DEF Among
<1>3. Among(names) \subseteq 1 .. n
  BY <1>1 DEF Among
<1>4. ASSUME o.name \in names PROVE Among(names)' # {} /\ LastOf(names)' = o
  <2>1. Max(Among(names) \union {n + 1}) = n + 1
    <3> DEFINE A == Among(names) \union {n + 1}
    <3>1. A \subseteq Nat /\ n + 1 \in A /\ \A x \in A : x <= n + 1
      BY <1>1, <1>3
    <3> HIDE DEF A
    <3>2. Max(A) = n + 1
      BY <3>1, MaxIs
    <3> QED
      BY <3>2 DEF A
  <2> QED
    BY <1>1, <1>2, <1>4, <2>1 DEF LastOf
<1>5. ASSUME o.name \notin names, Among(names) # {} PROVE LastOf(names)' = LastOf(names)
  <2>1. Max(Among(names)) \in Among(names)
    BY <1>1, <1>3, <1>5, Greatest
  <2> QED
    BY <1>1, <1>2, <1>3, <1>5, <2>1 DEF LastOf
<1> QED
  BY <1>2, <1>4, <1>5

----
(* The types, and that a full caller path is never asked for alone.        *)
Args == Hooks \union Middleware \union {<<"redact">>} \union Formatters \union {<<>>}
Names == {"hooks", "middleware", "formatter", "auto", "env", "caller", "fullCallerPath"}
           \union Plain
Links == STRING \union {"redact"}  \* a literal being no string to the provers
OptionType == [name : Names, arg : Args]
LoggerType == [minLevel : MinLevels \union 0 .. FATAL + 1,
               formatter : Formatters \union {"JSON", "text", "logfmt"},
               hooks : Hooks \union {<<>>}, middleware : Seq(Links),
               caller : BOOLEAN, fullCallerPath : BOOLEAN, set : SUBSET Plain]

Chains == [i \in DOMAIN applied |-> IF applied[i].name = "middleware" THEN applied[i].arg ELSE <<>>]

OptionsOK == /\ applied \in Seq(OptionType) /\ logger \in LoggerType
             /\ \A i \in DOMAIN applied :
                  applied[i].name = "middleware" => applied[i].arg \in Seq(Links)
             /\ logger.fullCallerPath => logger.caller

LEMMA Appended ==
  ASSUME NEW S, NEW c \in Seq(S), NEW x \in S, NEW n, Len(c) = n
  PROVE  /\ DOMAIN Append(c, x) = 1 .. n + 1 /\ Append(c, x)[n + 1] = x
         /\ \A i \in 1 .. n : Append(c, x)[i] = c[i]
         /\ Append(c, x) = [i \in 1 .. n + 1 |-> Append(c, x)[i]]
<1>1. Append(c, x) \in Seq(S) /\ Len(Append(c, x)) = n + 1 /\ n \in Nat
  BY AppendProperties
<1>2. DOMAIN Append(c, x) = 1 .. n + 1 /\ Append(c, x)[n + 1] = x
      /\ \A i \in 1 .. n : Append(c, x)[i] = c[i]
  BY <1>1
<1>3. Append(c, x) = [i \in DOMAIN Append(c, x) |-> Append(c, x)[i]]
  <2>1. Append(c, x) \in [1 .. Len(Append(c, x)) -> S]
    BY <1>1, LenProperties
  <2> QED
    BY <2>1
<1> QED
  BY <1>2, <1>3

(* What an option adds to the account of those given.                      *)
LEMMA Given ==
  ASSUME OptionsOK, NEW name \in Names, NEW arg \in Args, NEW next \in LoggerType,
         name = "middleware" => arg \in Seq(Links), next.fullCallerPath => next.caller,
         Apply(name, arg, next)
  PROVE  /\ OptionsOK'
         /\ Chains \in Seq(Seq(Links))
         /\ Chains' = Append(Chains, IF name = "middleware" THEN arg ELSE <<>>)
         /\ \A names :
              /\ name \in names => /\ Among(names)' # {}
                                   /\ LastOf(names)'.name = name /\ LastOf(names)'.arg = arg
              /\ name \notin names => /\ Among(names)' = Among(names)
                                      /\ Among(names) # {} => LastOf(names)' = LastOf(names)
<1>1. PICK o \in OptionType : o.name = name /\ o.arg = arg /\ o = [name |-> name, arg |-> arg]
  BY DEF OptionType
<1>2. /\ applied' = Append(applied, o) /\ applied \in Seq(OptionType)
      /\ logger' = next
  BY <1>1 DEF Apply, OptionsOK
<1> DEFINE n == Len(applied)
<1>3. /\ n \in Nat /\ DOMAIN applied = 1 .. n /\ DOMAIN applied' = 1 .. n + 1
      /\ applied'[n + 1] = o /\ \A i \in 1 .. n : applied'[i] = applied[i]
      /\ applied' \in Seq(OptionType)
  BY <1>2
<1> HIDE DEF n
<1>4. ASSUME NEW i \in DOMAIN applied', applied'[i].name = "middleware"
      PROVE  applied'[i].arg \in Seq(Links)
  <2>1. CASE i = n + 1
    BY <1>1, <1>3, <1>4, <2>1
  <2>2. CASE i # n + 1
    <3>1. i \in DOMAIN applied /\ applied'[i] = applied[i]
      BY <1>3, <2>2
    <3> QED
      BY <1>4, <3>1 DEF OptionsOK
  <2> QED
    BY <2>1, <2>2
<1>5. OptionsOK'
  BY <1>2, <1>3, <1>4 DEF OptionsOK
<1>6. \A i \in 1 .. n : Chains[i] \in Seq(Links)
  BY <1>3, EmptySeq DEF OptionsOK, Chains
<1>7. Chains \in Seq(Seq(Links)) /\ Len(Chains) = n
  <2>1. DOMAIN Chains = 1 .. n /\ Chains = [i \in 1 .. n |-> Chains[i]]
    BY <1>3 DEF Chains
  <2> QED
    BY <1>3, <1>6, <2>1
<1>8. Chains' = Append(Chains, IF name = "middleware" THEN arg ELSE <<>>)
  <2> DEFINE e == IF name = "middleware" THEN arg ELSE <<>>
             C == Append(Chains, e)
  <2>1. /\ DOMAIN C = 1 .. n + 1 /\ C[n + 1] = e
        /\ \A i \in 1 .. n : C[i] = Chains[i]
        /\ C = [i \in 1 .. n + 1 |-> C[i]]
    <3>1. e \in Seq(Links)
      BY EmptySeq
    <3> HIDE DEF e
    <3> QED
      BY <1>7, <3>1, Appended
  <2>2. DOMAIN Chains' = 1 .. n + 1 /\ Chains' = [i \in 1 .. n + 1 |-> Chains'[i]]
    BY <1>3 DEF Chains
  <2>3. Chains'[n + 1] = e
    BY <1>1, <1>3 DEF Chains
  <2>4. \A i \in 1 .. n : Chains'[i] = Chains[i]
    BY <1>3 DEF Chains
  <2> HIDE DEF C
  <2>5. \A i \in 1 .. n + 1 : Chains'[i] = C[i]
    <3>1. \A i \in 1 .. n + 1 : i \in 1 .. n \/ i = n + 1
      BY <1>3
    <3> HIDE DEF e
    <3> QED
      BY <2>1, <2>3, <2>4, <3>1
  <2>6. Chains' = C
    BY <2>1, <2>2, <2>5
  <2> QED
    BY <2>6 DEF C
<1> QED
  BY <1>1, <1>2, <1>5, <1>7, <1>8, AmongGrows

----
ConfigInv == OptionsOK /\ MiddlewareRight /\ HooksRight /\ LevelRight /\ FormatterRight

(* An option that changes one setting leaves the account of the others as  *)
(* it was.                                                                 *)
LEMMA MiddlewareStep ==
  ASSUME OptionsOK, MiddlewareRight, NEW e \in Seq(Links), Chains \in Seq(Seq(Links)),
         Chains' = Append(Chains, e), logger'.middleware = logger.middleware \o e
  PROVE  MiddlewareRight'
<1>1. \A c \in Seq(Seq(Links)) : FlattenSeq(Append(c, e)) = FlattenSeq(c) \o e
  BY FlatGrows
<1>2. FlattenSeq(Chains') = FlattenSeq(Chains) \o e
  BY <1>1
<1>3. logger.middleware = FlattenSeq(Chains)
  BY DEF MiddlewareRight, Chains
<1>4. logger'.middleware = FlattenSeq(Chains')
  BY <1>2, <1>3
<1> QED
  BY <1>4 DEF MiddlewareRight, Chains

LEMMA Unmoved ==
  ASSUME OptionsOK, Chains' = Append(Chains, <<>>), Chains \in Seq(Seq(Links)),
         logger'.middleware = logger.middleware, MiddlewareRight
  PROVE  MiddlewareRight'
<1>1. logger.middleware \in Seq(Links)
  BY DEF OptionsOK, LoggerType
<1>2. logger'.middleware = logger.middleware \o <<>> /\ <<>> \in Seq(Links)
  BY <1>1, ConcatEmptySeq, EmptySeq
<1> QED
  BY <1>2, MiddlewareStep

(* The account of options among some names, when the latest is one and     *)
(* when it is not.                                                         *)
Latest(names, name, arg) == /\ Among(names)' # {}
                            /\ LastOf(names)'.name = name /\ LastOf(names)'.arg = arg
SameAmong(names) == /\ Among(names)' = Among(names)
                    /\ Among(names) # {} => LastOf(names)' = LastOf(names)

LEMMA HooksStay ==
  ASSUME HooksRight, SameAmong({"hooks"}), logger'.hooks = logger.hooks
  PROVE  HooksRight'
BY DEF HooksRight, SameAmong

LEMMA LevelStays ==
  ASSUME LevelRight, SameAmong({"env"}), logger'.minLevel = logger.minLevel,
         UNCHANGED <<given, env>>
  PROVE  LevelRight'
<1>1. String(logger.minLevel)' = String(logger.minLevel)
  BY DEF String
<1>2. String(given)' = String(given)
  BY DEF String
<1> QED
  BY <1>1, <1>2 DEF LevelRight, SameAmong

LEMMA ChoseStays ==
  ASSUME UNCHANGED env, NEW c, c = Chose
  PROVE  Among(Chose)' = Among(c)' /\ LastOf(Chose)' = LastOf(c)'
<1>1. Chose' = c
  BY DEF Chose
<1> HIDE DEF Chose
<1>2. Among(Chose)' = Among(c)'
  BY <1>1 DEF Among
<1>3. LastOf(Chose)' = LastOf(c)'
  BY <1>1 DEF LastOf, Among
<1> QED
  BY <1>2, <1>3

LEMMA FormatterStays ==
  ASSUME FormatterRight, NEW c, c = Chose, SameAmong(c),
         logger'.formatter = logger.formatter, UNCHANGED <<out, env>>
  PROVE  FormatterRight'
<1>1. FileIsTerminal(out)' = FileIsTerminal(out)
  BY DEF FileIsTerminal
<1>2. Among(Chose)' = Among(c)' /\ LastOf(Chose)' = LastOf(c)'
  BY ChoseStays
<1>3. Among(c)' = Among(c) /\ (Among(c) # {} => LastOf(c)' = LastOf(c))
  BY DEF SameAmong
<1>4. Among(Chose) = Among(c) /\ LastOf(Chose) = LastOf(c)
  OBVIOUS
<1> HIDE DEF Chose
<1> QED
  BY <1>1, <1>2, <1>3, <1>4 DEF FormatterRight

(* What an option leaves alone stays right.                                *)
LEMMA Others ==
  ASSUME ConfigInv, NEW name \in Names, NEW arg \in Args, NEW next \in LoggerType,
         Apply(name, arg, next), name # "middleware", next.middleware = logger.middleware,
         next.fullCallerPath => next.caller
  PROVE  /\ OptionsOK' /\ MiddlewareRight'
         /\ name # "hooks" /\ next.hooks = logger.hooks => HooksRight'
         /\ name # "env" /\ next.minLevel = logger.minLevel => LevelRight'
         /\ name \notin Chose /\ next.formatter = logger.formatter => FormatterRight'
         /\ \A names :
              /\ name \in names => Latest(names, name, arg)
              /\ name \notin names => SameAmong(names)
<1>1. /\ OptionsOK /\ MiddlewareRight /\ HooksRight /\ LevelRight /\ FormatterRight
  BY DEF ConfigInv
<1>2. logger' = next /\ UNCHANGED <<out, given, env>>
  BY DEF Apply
<1>3. /\ OptionsOK' /\ Chains \in Seq(Seq(Links)) /\ Chains' = Append(Chains, <<>>)
      /\ \A names :
           /\ name \in names => Latest(names, name, arg)
           /\ name \notin names => SameAmong(names)
  BY <1>1, Given DEF SameAmong, Latest
<1>4. MiddlewareRight'
  BY <1>1, <1>2, <1>3, Unmoved
<1>5. ASSUME name # "hooks", next.hooks = logger.hooks PROVE HooksRight'
  <2>1. SameAmong({"hooks"})
    BY <1>3, <1>5
  <2> QED
    BY <1>1, <1>2, <1>5, <2>1, HooksStay
<1>6. ASSUME name # "env", next.minLevel = logger.minLevel PROVE LevelRight'
  <2>1. SameAmong({"env"})
    BY <1>3, <1>6
  <2> QED
    BY <1>1, <1>2, <1>6, <2>1, LevelStays
<1>7. ASSUME name \notin Chose, next.formatter = logger.formatter PROVE FormatterRight'
  <2>1. PICK c : c = Chose
    OBVIOUS
  <2>2. SameAmong(c)
    BY <1>3, <1>7, <2>1
  <2> QED
    BY <1>1, <1>2, <1>7, <2>1, <2>2, FormatterStays
<1> QED
  BY <1>3, <1>4, <1>5, <1>6, <1>7

----
(* The options one by one.                                                 *)
LEMMA HooksStep ==
  ASSUME ConfigInv, NEW h \in Hooks, WithHooks(h)
  PROVE  ConfigInv'
<1>1. PICK next : next = [logger EXCEPT !.hooks = h]
  OBVIOUS
<1>2. /\ next \in LoggerType /\ next.hooks = h /\ next.middleware = logger.middleware
      /\ next.minLevel = logger.minLevel /\ next.formatter = logger.formatter
      /\ next.fullCallerPath => next.caller
  BY <1>1 DEF ConfigInv, OptionsOK, LoggerType
<1>3. Apply("hooks", h, next) /\ logger' = next
  BY <1>1 DEF WithHooks, Apply
<1>4. h \in Args /\ "hooks" \notin Chose
  BY DEF Args, Chose
<1>5. "hooks" \in Names
  BY DEF Names
<1>6. /\ OptionsOK' /\ MiddlewareRight' /\ LevelRight' /\ FormatterRight'
      /\ Latest({"hooks"}, "hooks", h)
  BY <1>2, <1>3, <1>4, <1>5, Others
<1>7. HooksRight'
  BY <1>2, <1>3, <1>6 DEF HooksRight, Latest
<1> QED
  BY <1>6, <1>7 DEF ConfigInv

LEMMA MoreMiddleware ==
  ASSUME ConfigInv, NEW mw \in Seq(Links), mw \in Args,
         Apply("middleware", mw, [logger EXCEPT !.middleware = Registered(mw)])
  PROVE  ConfigInv'
<1>1. PICK next : next = [logger EXCEPT !.middleware = Registered(mw)]
  OBVIOUS
<1>2. OptionsOK /\ MiddlewareRight /\ HooksRight /\ LevelRight /\ FormatterRight
  BY DEF ConfigInv
<1>3. /\ next \in LoggerType /\ next.hooks = logger.hooks
      /\ next.middleware = logger.middleware \o mw
      /\ next.minLevel = logger.minLevel /\ next.formatter = logger.formatter
      /\ next.fullCallerPath => next.caller
  <2>1. PICK all : all = logger.middleware \o mw
    OBVIOUS
  <2>2. all \in Seq(Links)
    BY <1>2, <2>1, ConcatProperties DEF OptionsOK, LoggerType
  <2>3. next = [logger EXCEPT !.middleware = all]
    BY <1>1, <2>1 DEF Registered
  <2> QED
    BY <1>2, <2>1, <2>2, <2>3 DEF OptionsOK, LoggerType
<1>4. Apply("middleware", mw, next) /\ logger' = next /\ UNCHANGED <<out, given, env>>
  BY <1>1 DEF Apply
<1>5. /\ OptionsOK' /\ Chains \in Seq(Seq(Links)) /\ Chains' = Append(Chains, mw)
      /\ \A names : "middleware" \notin names => SameAmong(names)
  <2>1. "middleware" \in Names
    BY DEF Names
  <2> QED
    BY <1>2, <1>3, <1>4, <2>1, Given DEF SameAmong
<1>6. PICK c : c = Chose
  OBVIOUS
<1>7. SameAmong({"hooks"}) /\ SameAmong({"env"}) /\ SameAmong(c)
  <2>1. "middleware" \notin c
    BY <1>6 DEF Chose
  <2> QED
    BY <1>5, <2>1
<1>8. MiddlewareRight'
  BY <1>2, <1>3, <1>4, <1>5, MiddlewareStep
<1>9. HooksRight' /\ LevelRight' /\ FormatterRight'
  BY <1>2, <1>3, <1>4, <1>6, <1>7, HooksStay, LevelStays, FormatterStays
<1> QED
  BY <1>5, <1>8, <1>9 DEF ConfigInv

LEMMA FormatterStep ==
  ASSUME ConfigInv, NEW f \in Formatters, WithFormatter(f)
  PROVE  ConfigInv'
<1>1. PICK next : next = [logger EXCEPT !.formatter = f]
  OBVIOUS
<1>2. /\ next \in LoggerType /\ next.hooks = logger.hooks
      /\ next.middleware = logger.middleware /\ next.minLevel = logger.minLevel
      /\ next.formatter = f /\ (next.fullCallerPath => next.caller)
  BY <1>1 DEF ConfigInv, OptionsOK, LoggerType
<1>3. Apply("formatter", f, next) /\ logger' = next /\ UNCHANGED <<out, given, env>>
  BY <1>1 DEF WithFormatter, Apply
<1>4. PICK c : c = Chose
  OBVIOUS
<1>5. c = Chose /\ f \in Args /\ "formatter" \in c
  BY <1>4 DEF Args, Chose
<1>6. /\ OptionsOK' /\ MiddlewareRight' /\ HooksRight' /\ LevelRight'
      /\ Latest(c, "formatter", f)
  <2>1. "formatter" \in Names
    BY DEF Names
  <2> QED
    BY <1>2, <1>3, <1>5, <2>1, Others
<1>7. Among(Chose)' # {} /\ LastOf(Chose)'.name = "formatter" /\ LastOf(Chose)'.arg = f
  BY <1>3, <1>5, <1>6, ChoseStays DEF Latest
<1>8. FormatterRight'
  BY <1>2, <1>3, <1>7 DEF FormatterRight
<1> QED
  BY <1>6, <1>8 DEF ConfigInv

LEMMA AutoStep ==
  ASSUME ConfigInv, WithAutoFormat
  PROVE  ConfigInv'
<1> DEFINE chosen == IF FileIsTerminal(out) THEN "text" ELSE "JSON"
<1>1. PICK next : next = [logger EXCEPT !.formatter = chosen]
  OBVIOUS
<1>2. /\ next \in LoggerType /\ next.hooks = logger.hooks
      /\ next.middleware = logger.middleware /\ next.minLevel = logger.minLevel
      /\ next.formatter = chosen /\ (next.fullCallerPath => next.caller)
  BY <1>1 DEF ConfigInv, OptionsOK, LoggerType
<1>3. Apply("auto", <<>>, next) /\ logger' = next /\ UNCHANGED <<out, given, env>>
  BY <1>1 DEF WithAutoFormat, Apply
<1>4. PICK c : c = Chose
  OBVIOUS
<1>5. c = Chose /\ <<>> \in Args /\ "auto" \in c
  BY <1>4 DEF Args, Chose
<1>6. /\ OptionsOK' /\ MiddlewareRight' /\ HooksRight' /\ LevelRight'
      /\ Latest(c, "auto", <<>>)
  <2>1. "auto" \in Names
    BY DEF Names
  <2> QED
    BY <1>2, <1>3, <1>5, <2>1, Others
<1>7. FileIsTerminal(out)' = FileIsTerminal(out)
  BY <1>3 DEF FileIsTerminal
<1>8. Among(Chose)' # {} /\ LastOf(Chose)'.name = "auto"
  BY <1>3, <1>5, <1>6, ChoseStays DEF Latest
<1>9. FormatterRight'
  BY <1>2, <1>3, <1>7, <1>8 DEF FormatterRight
<1> QED
  BY <1>6, <1>9 DEF ConfigInv

LEMMA EnvStep ==
  ASSUME ConfigInv, WithEnvConfig
  PROVE  ConfigInv'
<1> DEFINE level == IF Recognized(env.level) THEN ParseLevel(env.level) ELSE logger.minLevel
           named == env.format \in {"JSON", "text", "logfmt"}
           format == IF named THEN env.format ELSE logger.formatter
<1>1. PICK next : next = [logger EXCEPT !.minLevel = level, !.formatter = format]
  OBVIOUS
<1>2. OptionsOK /\ LevelRight /\ FormatterRight
  BY DEF ConfigInv
<1>3. /\ next \in LoggerType /\ next.hooks = logger.hooks
      /\ next.middleware = logger.middleware /\ next.minLevel = level
      /\ next.formatter = format /\ (next.fullCallerPath => next.caller)
  <2>1. Recognized(env.level) => ParseLevel(env.level) \in 0 .. FATAL
    BY ParsedIn
  <2>2. level \in MinLevels \union 0 .. FATAL + 1
    BY <1>2, <2>1 DEF OptionsOK, LoggerType, FATAL
  <2>3. format \in Formatters \union {"JSON", "text", "logfmt"}
    BY <1>2 DEF OptionsOK, LoggerType
  <2> HIDE DEF level, format
  <2> QED
    BY <1>2, <1>1, <2>2, <2>3 DEF OptionsOK, LoggerType
<1>4. Apply("env", <<>>, next) /\ logger' = next /\ UNCHANGED <<out, given, env>>
  BY <1>1 DEF WithEnvConfig, Apply
<1> HIDE DEF level, format
<1>5. PICK c : c = Chose
  OBVIOUS
<1>6. c = Chose /\ <<>> \in Args /\ (named <=> "env" \in c)
  BY <1>5 DEF Args, Chose
<1>7. /\ OptionsOK' /\ MiddlewareRight' /\ HooksRight'
      /\ Latest({"env"}, "env", <<>>)
      /\ "env" \in c => Latest(c, "env", <<>>)
      /\ "env" \notin c /\ next.formatter = logger.formatter => FormatterRight'
  <2>1. "env" \in Names
    BY DEF Names
  <2> QED
    BY <1>3, <1>4, <1>6, <2>1, Others
<1>8. /\ Among({"env"})' # {}
      /\ "env" \in c => Among(Chose)' # {} /\ LastOf(Chose)'.name = "env"
  BY <1>4, <1>6, <1>7, ChoseStays DEF Latest
<1>9. FormatterRight'
  <2>1. CASE named
    <3>1. logger'.formatter = env'.format
      BY <1>3, <1>4, <2>1 DEF format
    <3> QED
      BY <1>6, <1>8, <2>1, <3>1 DEF FormatterRight
  <2>2. CASE ~named
    BY <1>3, <1>6, <1>7, <2>2 DEF format
  <2> QED
    BY <2>1, <2>2
<1>10. LevelRight'
  <2>1. String(logger.minLevel)' = String(level) /\ String(given)' = String(given)
        /\ env' = env
    BY <1>3, <1>4 DEF String
  <2>2. "WARN" \notin Range(LevelNames)
    BY NamesAreRead
  <2>3. CASE Recognized(env.level)
    <3>1. String(level) = IF env.level = "WARN" THEN "WARNING" ELSE env.level
      BY <2>3, NamesAreRead DEF level
    <3>2. env.level \in Range(LevelNames) \/ env.level = "WARN"
      BY <2>3 DEF Recognized
    <3> QED
      BY <1>8, <2>1, <2>2, <3>1, <3>2 DEF LevelRight
  <2>4. CASE ~Recognized(env.level)
    <3>1. env.level \notin Range(LevelNames) /\ env.level # "WARN" /\ level = logger.minLevel
      BY <2>4 DEF Recognized, level
    <3>2. String(logger.minLevel) = String(given)
      BY <1>2, <3>1 DEF LevelRight
    <3> QED
      BY <2>1, <3>1, <3>2 DEF LevelRight
  <2> QED
    BY <2>3, <2>4
<1> QED
  BY <1>7, <1>9, <1>10 DEF ConfigInv

(* The options no part of Configured reads from the account of them.       *)
LEMMA PlainStep ==
  ASSUME ConfigInv, NEW name \in Plain \union {"caller", "fullCallerPath"},
         NEW next \in LoggerType, Apply(name, <<>>, next),
         next.hooks = logger.hooks, next.middleware = logger.middleware,
         next.minLevel = logger.minLevel, next.formatter = logger.formatter,
         next.fullCallerPath => next.caller
  PROVE  ConfigInv'
<1>1. /\ name \in Names /\ <<>> \in Args
      /\ name \notin {"middleware", "hooks", "env", "formatter", "auto"}
  <2>1. name \in {"identity", "exitFunc", "sampler", "eventID", "stackTrace", "fallbackWriter",
                 "caller", "fullCallerPath"}
    BY DEF Plain
  <2>2. <<>> \in Args
    BY DEF Args
  <2>3. name \in Names
    BY DEF Names
  <2>4. name \notin {"middleware", "hooks", "env", "formatter", "auto"}
    BY <2>1
  <2> QED
    BY <2>2, <2>3, <2>4
<1>2. name \notin Chose
  BY <1>1 DEF Chose
<1> QED
  BY <1>1, <1>2, Others DEF ConfigInv

LEMMA ConfigStep == OptionsAssumption /\ ConfigInv /\ [Next]_vars => ConfigInv'
<1> SUFFICES ASSUME OptionsAssumption, ConfigInv, [Next]_vars PROVE ConfigInv'
  OBVIOUS
<1>1. logger \in LoggerType /\ (logger.fullCallerPath => logger.caller)
  BY DEF ConfigInv, OptionsOK
<1>2. CASE \E h \in Hooks : WithHooks(h)
  BY <1>2, HooksStep
<1>3. ASSUME NEW mw \in Middleware, WithMiddleware(mw) PROVE ConfigInv'
  <2>1. mw \in Seq(STRING)
    BY DEF OptionsAssumption
  <2>2. mw \in Seq(Links)
    BY <2>1 DEF Links
  <2>3. mw \in Args
    BY DEF Args
  <2> QED
    BY <1>3, <2>2, <2>3, MoreMiddleware DEF WithMiddleware
<1>4. CASE WithRedactFields
  <2>1. <<"redact">> \in Seq(Links)
    BY DEF Links
  <2>2. <<"redact">> \in Args
    BY DEF Args
  <2> QED
    BY <1>4, <2>1, <2>2, MoreMiddleware DEF WithRedactFields
<1>5. CASE \E f \in Formatters : WithFormatter(f)
  BY <1>5, FormatterStep
<1>6. CASE WithAutoFormat
  BY <1>6, AutoStep
<1>7. CASE WithEnvConfig
  BY <1>7, EnvStep
<1>8. CASE WithCaller
  <2>1. PICK next : next = [logger EXCEPT !.caller = TRUE]
    OBVIOUS
  <2>2. /\ next \in LoggerType /\ next.hooks = logger.hooks
        /\ next.middleware = logger.middleware /\ next.minLevel = logger.minLevel
        /\ next.formatter = logger.formatter /\ next.caller
    BY <1>1, <2>1 DEF LoggerType
  <2> QED
    BY <1>8, <2>1, <2>2, PlainStep DEF WithCaller
<1>9. CASE WithFullCallerPath
  <2>1. PICK next : next = [logger EXCEPT !.caller = TRUE, !.fullCallerPath = TRUE]
    OBVIOUS
  <2>2. /\ next \in LoggerType /\ next.hooks = logger.hooks
        /\ next.middleware = logger.middleware /\ next.minLevel = logger.minLevel
        /\ next.formatter = logger.formatter /\ next.caller
    BY <1>1, <2>1 DEF LoggerType
  <2> QED
    BY <1>9, <2>1, <2>2, PlainStep DEF WithFullCallerPath
<1>10. ASSUME NEW name \in Plain, WithOption(name) PROVE ConfigInv'
  <2>1. PICK next : next = [logger EXCEPT !.set = logger.set \union {name}]
    OBVIOUS
  <2>2. /\ next \in LoggerType /\ next.hooks = logger.hooks
        /\ next.middleware = logger.middleware /\ next.minLevel = logger.minLevel
        /\ next.formatter = logger.formatter /\ (next.fullCallerPath => next.caller)
    BY <1>1, <2>1 DEF LoggerType
  <2> QED
    BY <1>10, <2>1, <2>2, PlainStep DEF WithOption
<1>11. CASE UNCHANGED vars
  <2>1. out' = out /\ given' = given /\ env' = env /\ logger' = logger /\ applied' = applied
    BY <1>11 DEF vars
  <2>2. \A names : SameAmong(names)
    BY <2>1 DEF SameAmong, Among, LastOf
  <2>3. HooksRight' /\ LevelRight' /\ FormatterRight'
    BY <2>1, <2>2, HooksStay, LevelStays, FormatterStays DEF ConfigInv
  <2>4. OptionsOK' /\ MiddlewareRight'
    BY <2>1 DEF ConfigInv, OptionsOK, MiddlewareRight
  <2> QED
    BY <2>3, <2>4 DEF ConfigInv
<1> QED
  BY <1>2, <1>3, <1>4, <1>5, <1>6, <1>7, <1>8, <1>9, <1>10, <1>11 DEF Next

LEMMA ConfigInit == Init => ConfigInv
<1> SUFFICES ASSUME Init PROVE ConfigInv
  OBVIOUS
<1>1. applied = <<>> /\ logger.minLevel = given /\ logger.formatter = "JSON"
      /\ logger.hooks = <<>> /\ logger.middleware = <<>>
  BY DEF Init
<1>2. OptionsOK
  <2>1. applied \in Seq(OptionType) /\ <<>> \in Seq(Links) /\ DOMAIN applied = {}
    BY <1>1, EmptySeq
  <2>2. given \in MinLevels \union 0 .. FATAL + 1
    BY DEF Init, FATAL
  <2>3. logger = [minLevel |-> given, formatter |-> "JSON", hooks |-> <<>>,
                  middleware |-> <<>>, caller |-> FALSE, fullCallerPath |-> FALSE, set |-> {}]
    BY DEF Init
  <2>4. logger \in LoggerType /\ ~logger.fullCallerPath
    BY <2>1, <2>2, <2>3 DEF LoggerType
  <2> QED
    BY <2>1, <2>4 DEF OptionsOK
<1>3. \A names : Among(names) = {}
  BY <1>1 DEF Among
<1>4. MiddlewareRight
  <2>1. [i \in DOMAIN applied |->
           IF applied[i].name = "middleware" THEN applied[i].arg ELSE <<>>] = <<>>
    BY <1>1
  <2>2. FlattenSeq(<<>>) = <<>>
    BY DEF FlattenSeq
  <2> QED
    BY <1>1, <2>1, <2>2 DEF MiddlewareRight
<1>5. HooksRight /\ LevelRight /\ FormatterRight
  BY <1>1, <1>3 DEF HooksRight, LevelRight, FormatterRight
<1> QED
  BY <1>2, <1>4, <1>5 DEF ConfigInv

(* Whatever options a root logger is built with, however many and in       *)
(* whatever order, redaction and every other middleware it was given is    *)
(* kept, its hooks are the last ones set, and its level and formatter are  *)
(* those of the option that had the last word.                             *)
THEOREM LoggerConfigured == ASSUME OptionsAssumption PROVE Spec => []Configured
<1>1. ConfigInv => Configured
  BY NamesAreRead DEF ConfigInv, OptionsOK, Configured
<1>2. OptionsAssumption /\ ConfigInv /\ [Next]_vars => ConfigInv'
  BY ConfigStep
<1> QED
  BY <1>1, <1>2, ConfigInit, PTL DEF Spec
====
