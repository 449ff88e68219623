---- MODULE Formatting ----
(***************************************************************************)
(* The three formatters (formatter.go) and the JSON encoder (encode.go):   *)
(* from an entry to the bytes of its line.                                 *)
(*                                                                         *)
(* A byte is its number, and a key is a single byte.  Values are strings;  *)
(* left out are the colours of TextFormatter and what the encoder does     *)
(* with numbers, lists and nested maps.  The entry grows byte by byte, so  *)
(* that an invariant is about every entry within the bound.                *)
(*                                                                         *)
(* X_Fault, just before X, is X with a plausible bug in it.                *)
(***************************************************************************)
EXTENDS Naturals, Sequences, FiniteSets, SequencesExt

CONSTANTS
  Bytes,     \* the bytes that values are made of
  CoreOrder, \* the keys time, level, message and file, in this order
  UserKeys,
  KeyMaps,   \* functions from some of the core keys to keys
  MaxBytes   \* bound on the bytes of message and user field together

VARIABLES entry, keyMap

vars == <<entry, keyMap>>

Time == CoreOrder[1]
Level == CoreOrder[2]
Message == CoreOrder[3]
File == CoreOrder[4]
Grown == {Message} \union UserKeys

Char == [tab |-> 9, nl |-> 10, cr |-> 13, esc |-> 27, space |-> 32, quote |-> 34,
         comma |-> 44, colon |-> 58, equals |-> 61, bracket |-> 91, backslash |-> 92,
         closing |-> 93, n |-> 110, r |-> 114, t |-> 116, u |-> 117, brace |-> 123,
         unbrace |-> 125]

(* An entry has its core keys, with values of the program's, and perhaps a *)
(* user field.                                                             *)
Init == /\ keyMap \in KeyMaps
        /\ \E own \in {{}} \union {{k} : k \in UserKeys} :
             entry = [k \in Range(CoreOrder) \union own |->
                        IF k \in Grown THEN <<>> ELSE <<k>>]

Size(e) == SumFunction([k \in DOMAIN e \intersect Grown |-> Len(e[k])])

Grow(k, b) == /\ Size(entry) < MaxBytes
              /\ entry' = [entry EXCEPT ![k] = Append(@, b)]
              /\ UNCHANGED keyMap

Next == \E k \in DOMAIN entry \intersect Grown, b \in Bytes : Grow(k, b)

Spec == Init /\ [][Next]_vars

(* A key may be any byte, and the map may give a core key any name, that   *)
(* of another one included.                                                *)
Keys == 0 .. 255

FormattingAssumption ==
  /\ Bytes \subseteq 0 .. 255
  /\ CoreOrder \in Seq(Keys) /\ Len(CoreOrder) = 4
  /\ Message \notin {Time, Level, File}
  /\ UserKeys \subseteq Keys \ Range(CoreOrder)
  /\ \A km \in KeyMaps :
       /\ DOMAIN km \subseteq Range(CoreOrder)
       /\ \A k \in DOMAIN km : km[k] \in Keys

----
Sorted(keys) == [i \in 1 .. Cardinality(keys) |->
                   CHOOSE k \in keys : Cardinality({j \in keys : j < k}) = i - 1]
Joined(ss, sep) == FlattenSeq([i \in DOMAIN ss |-> IF i = 1 THEN ss[i] ELSE sep \o ss[i]])

(* What a loop over the bytes of s puts together that adds piece(s, i) at  *)
(* position i and goes on at after(s, i).                                  *)
Walk(s, piece(_, _), after(_, _)) ==
  LET from[i \in Nat \ {0}] ==
        IF i > Len(s) THEN <<>> ELSE piece(s, i) \o from[after(s, i)]
  IN from[1]

(* applyKeyMap: a renamed key may meet another key of the entry; the map   *)
(* is visited in any order, so either value may stay.                      *)
Renamed(k) == IF k \in DOMAIN keyMap THEN keyMap[k] ELSE k
Holders(q) == {k \in DOMAIN entry : Renamed(k) = q}
Remapped ==
  LET keys == {Renamed(k) : k \in DOMAIN entry}
      met == {q \in keys : Cardinality(Holders(q)) > 1}
      last == {f \in [met -> DOMAIN entry] : \A q \in met : f[q] \in Holders(q)}
  IN {[q \in keys |-> entry[IF q \in met THEN f[q] ELSE CHOOSE k \in Holders(q) : TRUE]]
        : f \in last}

----
(* JSON.  UTF-8 has runes of up to four bytes; a byte from 128 on that     *)
(* begins none is taken alone.                                             *)
Rune(s, i, n, first, second) ==
  /\ s[i] \in first /\ i + n - 1 <= Len(s) /\ s[i + 1] \in second
  /\ \A j \in i + 2 .. i + n - 1 : s[j] \in 128 .. 191

RuneSize(s, i) ==
  CASE Rune(s, i, 2, 194 .. 223, 128 .. 191) -> 2
    [] \/ Rune(s, i, 3, {224}, 160 .. 191) \/ Rune(s, i, 3, {237}, 128 .. 159)
       \/ Rune(s, i, 3, 225 .. 239 \ {237}, 128 .. 191) -> 3
    [] \/ Rune(s, i, 4, {240}, 144 .. 191) \/ Rune(s, i, 4, {244}, 128 .. 143)
       \/ Rune(s, i, 4, 241 .. 243, 128 .. 191) -> 4
    [] OTHER -> 1

HexDigit(d) == IF d < 10 THEN 48 + d ELSE 87 + d

Short == [b \in {Char.nl, Char.cr, Char.tab, Char.quote, Char.backslash} |->
            CASE b = Char.nl  -> Char.n
              [] b = Char.cr  -> Char.r
              [] b = Char.tab -> Char.t
              [] OTHER        -> b]

Escape(s, i) ==
  LET b == s[i]
  IN CASE b \in DOMAIN Short           -> <<Char.backslash, Short[b]>>
       [] b < 32 /\ b \notin DOMAIN Short
                                       -> <<Char.backslash, Char.u, 48, 48,
                                            HexDigit(b \div 16), HexDigit(b % 16)>>
       [] b \in 32 .. 127 \ DOMAIN Short -> <<b>>
       [] b >= 128 /\ RuneSize(s, i) = 1 -> <<Char.backslash, Char.u, 102, 102, 102, 100>>
       [] b >= 128 /\ RuneSize(s, i) > 1 -> SubSeq(s, i, i + RuneSize(s, i) - 1)

After_Byte(s, i) == i + 1
After(s, i) == i + RuneSize(s, i)

JSONString(s) == <<Char.quote>> \o Walk(s, Escape, After) \o <<Char.quote>>

JSONPair(k, v) == JSONString(<<k>>) \o <<Char.colon>> \o JSONString(v)

JSONLine(m) ==
  LET keys == Sorted(DOMAIN m)
  IN <<Char.brace>>
       \o Joined([i \in DOMAIN keys |-> JSONPair(keys[i], m[keys[i]])], <<Char.comma>>)
       \o <<Char.unbrace>>

----
(* logfmt: the core keys that are there in their order, the others sorted. *)
Order(m) == FlattenSeq([i \in DOMAIN CoreOrder |->
                          IF CoreOrder[i] \in DOMAIN m THEN <<CoreOrder[i]>> ELSE <<>>])
              \o Sorted(DOMAIN m \ Range(CoreOrder))

NeedsQuoting(s) ==
  \/ s = <<>>
  \/ \E b \in Range(s) : b <= Char.space \/ b \in {Char.quote, Char.equals, Char.backslash}

Replaced(s, b, by) == FlattenSeq([i \in DOMAIN s |-> IF s[i] = b THEN by ELSE <<s[i]>>])

LogfmtPair(k, v) ==
  <<k, Char.equals>>
    \o (IF NeedsQuoting(v)
        THEN <<Char.quote>> \o Replaced(v, Char.quote, <<Char.backslash, Char.quote>>)
               \o <<Char.quote>>
        ELSE v)

LogfmtLine(m) == Joined([i \in DOMAIN Order(m) |-> LogfmtPair(Order(m)[i], m[Order(m)[i]])],
                        <<Char.space>>)

----
(* Text: sequences ESC [ ... are stripped, up to a byte that ends them, and *)
(* line breaks escaped.                                                    *)
Ends(b) == b \in 64 .. 126

Opens(s, i) == s[i] = Char.esc /\ i < Len(s) /\ s[i + 1] = Char.bracket
Shown(s, i) == IF Opens(s, i) THEN <<>> ELSE <<s[i]>>
Past(s, i) == IF Opens(s, i)
              THEN 1 + Min({x \in i + 2 .. Len(s) : Ends(s[x])} \union {Len(s)})
              ELSE i + 1

StripANSI(s) == Walk(s, Shown, Past)

SanitizeText(s) ==
  Replaced(Replaced(StripANSI(s), Char.nl, <<Char.backslash, Char.n>>),
           Char.cr, <<Char.backslash, Char.r>>)

TextField(k, v) == <<Char.space, Char.space, k, Char.equals>> \o SanitizeText(v)

(* fmt pads the level to seven runes (%-7s), counted where they begin.     *)
Runes(s) == Cardinality({i \in DOMAIN s : \A j \in 1 .. i - 1 : i >= j + RuneSize(s, j)})

TextLine(m) ==
  LET value(k) == IF k \in DOMAIN m THEN m[k] ELSE <<>>
      level == value(Level) \o [i \in 1 .. 7 - Runes(value(Level)) |-> Char.space]
      extras == Sorted(DOMAIN m \ Range(CoreOrder))
  IN Joined(<<value(Time), level, <<Char.bracket>> \o value(File) \o <<Char.closing>>,
              SanitizeText(value(Message))>>, <<Char.space>>)
       \o Joined([i \in DOMAIN extras |-> TextField(extras[i], m[extras[i]])], <<>>)

----
(* What readers get back from a line, by the rules of its format.          *)

(* A reader of JSON: the strings of a line, each escape sequence replaced  *)
(* by what it stands for, and what is left of the line without them.       *)
Digit(b) == IF b < 97 THEN b - 48 ELSE b - 87
Meant(p) == CASE p[2] # Char.u -> <<AntiFunction(Short)[p[2]]>>
              [] p[2] = Char.u /\ p[3] = 102 -> <<239, 191, 189>>
              [] p[2] = Char.u /\ p[3] # 102 -> <<16 * Digit(p[5]) + Digit(p[6])>>

Outside(strings, rest) ==
  [in |-> FALSE, pending |-> <<>>, text |-> <<>>, strings |-> strings, rest |-> rest]
InString(pending, text, strings, rest) ==
  [in |-> TRUE, pending |-> pending, text |-> text, strings |-> strings, rest |-> rest]

JSONStep(st, b) ==
  LET p == Append(st.pending, b)
      whole == (Len(p) = 2 /\ b # Char.u) \/ Len(p) = 6
      inside(pending, text) == InString(pending, text, st.strings, st.rest)
  IN CASE ~st.in /\ b # Char.quote -> Outside(st.strings, Append(st.rest, b))
       [] ~st.in /\ b = Char.quote -> inside(<<>>, <<>>)
       [] st.in /\ st.pending = <<>> /\ b = Char.quote ->
            Outside(Append(st.strings, st.text), st.rest)
       [] st.in /\ st.pending = <<>> /\ b \notin {Char.quote, Char.backslash} ->
            inside(<<>>, Append(st.text, b))
       [] st.in /\ st.pending # <<>> /\ whole -> inside(<<>>, st.text \o Meant(p))
       [] OTHER -> inside(p, st.text)

ReadJSON(line) == FoldLeft(JSONStep, Outside(<<>>, <<>>), line)

(* The text of a string of bytes, as json.Marshal would have it: a byte    *)
(* that belongs to no rune becomes U+FFFD, which is EF BF BD in UTF-8.     *)
Valid(s) ==
  LET belongs(i) == \/ s[i] < 128
                    \/ \E j \in 1 .. i : RuneSize(s, j) > 1 /\ i < j + RuneSize(s, j)
  IN FlattenSeq([i \in DOMAIN s |-> IF belongs(i) THEN <<s[i]>> ELSE <<239, 191, 189>>])

JSONRight(m) ==
  LET line == JSONLine(m)
      read == ReadJSON(line)
      keys == Sorted(DOMAIN m)
  IN /\ \A b \in Range(line) : b >= 32
     /\ read.rest = <<Char.brace>> \o Joined([i \in DOMAIN keys |-> <<Char.colon>>], <<Char.comma>>)
                      \o <<Char.unbrace>>
     /\ read.strings = FlattenSeq([i \in DOMAIN keys |-> <<Valid(<<keys[i]>>), Valid(m[keys[i]])>>])

(* A reader of logfmt, with backslashes as escapes inside quotes.          *)
Reading(in, key, value, pairs) == [in |-> in, key |-> key, value |-> value, pairs |-> pairs]

PairEnd(st) == Reading("key", <<>>, <<>>, Append(st.pairs, <<st.key, st.value>>))

LogfmtStep(st, b) ==
  LET now(in) == Reading(in, st.key, st.value, st.pairs)
      taken(in) == Reading(in, st.key, Append(st.value, b), st.pairs)
  IN CASE st.in = "key" /\ b = Char.equals -> now("first")
       [] st.in = "key" /\ b = Char.space  -> now("key")
       [] st.in = "key" /\ b \notin {Char.equals, Char.space} ->
            Reading("key", Append(st.key, b), st.value, st.pairs)
       [] st.in = "first" /\ b = Char.quote -> now("quoted")
       [] st.in \in {"first", "bare"} /\ b = Char.space -> PairEnd(st)
       [] st.in = "quoted" /\ b = Char.quote -> PairEnd(st)
       [] st.in = "quoted" /\ b = Char.backslash -> now("escape")
       [] OTHER -> taken(IF st.in \in {"first", "bare"} THEN "bare" ELSE "quoted")

ReadLogfmt(line) ==
  LET last == FoldLeft(LogfmtStep, Reading("key", <<>>, <<>>, <<>>), line)
  IN IF last.in \in {"first", "bare"} THEN PairEnd(last).pairs ELSE last.pairs

LogfmtRight(m) ==
  (\A k \in DOMAIN m : /\ k \notin {Char.space, Char.equals}
                       /\ Char.backslash \notin Range(m[k])) =>
    ReadLogfmt(LogfmtLine(m)) = [i \in DOMAIN Order(m) |-> <<<<Order(m)[i]>>, m[Order(m)[i]]>>]

(* The bytes of a text that no escape sequence covers; one covers all from *)
(* its opening to the first byte that ends it.                             *)
Plain(s) ==
  LET covered(i) == \E j \in 1 .. i : Opens(s, j) /\ \A x \in j + 2 .. i - 1 : ~Ends(s[x])
  IN FlattenSeq([i \in DOMAIN s |-> IF covered(i) THEN <<>> ELSE <<s[i]>>])

NestedEscape(s) == \E j \in DOMAIN s : \E i \in j + 2 .. Len(s) :
  /\ Opens(s, j) /\ s[i] = Char.esc
  /\ \A x \in j + 2 .. i : ~Ends(s[x])

(* TextFormatter writes keys, and the values of time, level and file, as   *)
(* they are.                                                               *)
Raw(m) == (DOMAIN m \ Range(CoreOrder))
            \union UNION {Range(m[k]) : k \in DOMAIN m \intersect {Time, Level, File}}

TextRight(m) ==
  /\ Range(TextLine(m)) \intersect {Char.nl, Char.cr} \subseteq Raw(m)
  /\ \A k \in DOMAIN m :
       /\ ~NestedEscape(m[k]) => StripANSI(m[k]) = Plain(m[k])
       /\ (\A i \in DOMAIN m[k] : m[k][i] = Char.esc => Opens(m[k], i)) =>
            Char.esc \notin Range(StripANSI(m[k]))

(* Of each entry: its JSON line holds each key once and reads back as the  *)
(* same text, invalid UTF-8 replaced.  Its logfmt line reads back as the   *)
(* same values in the order promised, unless a value holds a backslash or  *)
(* a key a space or equals sign.  A line break of its text line is one of  *)
(* a key, or of a value at time, level or file: none comes from the        *)
(* message or the other values.  What is stripped of a value is its escape *)
(* sequences, unless one has an ESC inside; and no ESC is left, unless the *)
(* value has one that opens no sequence.  Renaming keys loses no value     *)
(* unless two keys meet in one.                                            *)
Encoded ==
  \A m \in Remapped :
    /\ JSONRight(m) /\ LogfmtRight(m) /\ TextRight(m)
    /\ \A k \in DOMAIN entry : Holders(Renamed(k)) = {k} => m[Renamed(k)] = entry[k]

(* What the formatters' comments promise of every entry, and the code does *)
(* not do.                                                                 *)

(* sanitizeText strips the escape sequences of a value: what is left holds *)
(* none (formatter.go:122-124).                                            *)
TextNoEscapes == \A m \in Remapped : \A k \in DOMAIN m :
  LET left == StripANSI(m[k]) IN \A i \in DOMAIN left : ~Opens(left, i)

(* TextFormatter renders an entry as a single line (formatter.go:58).      *)
TextOneLine == \A m \in Remapped : {Char.nl, Char.cr} \intersect Range(TextLine(m)) = {}

(* LogfmtFormatter renders an entry as a single line (formatter.go:188).   *)
LogfmtOneLine == \A m \in Remapped : {Char.nl, Char.cr} \intersect Range(LogfmtLine(m)) = {}

(* A reader of logfmt gets the values back that LogfmtFormatter was given, *)
(* whose lines are compatible with the systems that read logfmt            *)
(* (formatter.go:178).                                                     *)
LogfmtReadable == \A m \in Remapped :
  ReadLogfmt(LogfmtLine(m)) = [i \in DOMAIN Order(m) |-> <<<<Order(m)[i]>>, m[Order(m)[i]]>>]

(* Of these four sentences one holds of every entry: less than they say,   *)
(* so that an entry that refutes it shows all four broken.                 *)
FormatsAsDocumented == TextNoEscapes \/ TextOneLine \/ LogfmtOneLine \/ LogfmtReadable
====
