------------------------------- MODULE Texts -------------------------------
(***************************************************************************)
(* The text functions of src/src/isdk_string.c and the URL coding of       *)
(* src/src/isdk_utils.c.  A text is a sequence of bytes; a C string ends   *)
(* before its first zero.                                                  *)
(***************************************************************************)
EXTENDS Integers, Sequences, FiniteSets, SequencesExt, FiniteSetsExt

CONSTANT CharIsSigned   \* whether a plain char has a sign, as on x86

ASSUME CharAssumption == CharIsSigned \in BOOLEAN

\* The characters of ASCII the functions name.
Blank   == 1..32
Percent == 37
Digits  == 48..57
Uppers  == 65..90
Lowers  == 97..122
Letter_A == 65
Letter_F == 70
Letter_a == 97

CStr(s) == SubSeq(s, 1, Min({i \in DOMAIN s : s[i] = 0} \cup {Len(s) + 1}) - 1)

Upper(c) == IF c \in Lowers THEN c - 32 ELSE c
Lower(c) == IF c \in Uppers THEN c + 32 ELSE c

strToUpperCase(s) == [i \in DOMAIN s |-> Upper(s[i])]
strToLowerCase(s) == [i \in DOMAIN s |-> Lower(s[i])]

----------------------------------------------------------------------------
(* Comparing.                                                              *)

stricmp(s, t) ==
  LET n    == Min({Len(s), Len(t)})
      diff == {i \in 1..n : Lower(s[i]) # Lower(t[i])}
  IN  CASE diff # {}       -> Lower(s[Min(diff)]) - Lower(t[Min(diff)])
        [] Len(s) > Len(t) -> 1
        [] Len(s) < Len(t) -> -1
        [] OTHER           -> 0

strBeginWith(s, key) ==
  Len(key) <= Len(s) /\ \A i \in DOMAIN key : s[i] = key[i]

\* Mutant: the case of the key counts.
striBeginWithKey(s, key) ==
  Len(key) <= Len(s) /\ \A i \in DOMAIN key : Lower(s[i]) = key[i]

striBeginWith(s, key) ==
  Len(key) <= Len(s) /\ \A i \in DOMAIN key : Lower(s[i]) = Lower(key[i])

strEndWith(s, key) ==
  Len(key) <= Len(s) /\ \A i \in DOMAIN key : s[Len(s) - Len(key) + i] = key[i]

striEndWith(s, key) ==
  Len(key) <= Len(s)
    /\ \A i \in DOMAIN key : Lower(s[Len(s) - Len(key) + i]) = Lower(key[i])

----------------------------------------------------------------------------
(* Changing and counting.                                                  *)

Ink(s) == {i \in DOMAIN s : s[i] \notin Blank}

\* Mutant: only the head is trimmed.
strTrimHead(s) == IF Ink(s) = {} THEN <<>> ELSE SubSeq(s, Min(Ink(s)), Len(s))

strTrim(s) == IF Ink(s) = {} THEN <<>> ELSE SubSeq(s, Min(Ink(s)), Max(Ink(s)))

\* A character found in `search' becomes the one at its place in `new', or
\* goes when `new' is shorter.
strReplaceChars(s, search, new) ==
  LET place(c) == Min({i \in DOMAIN search : search[i] = c})
      put(c) == IF c \notin ToSet(search) THEN <<c>>
                ELSE IF place(c) <= Len(new) THEN <<new[place(c)]>> ELSE <<>>
  IN  FlattenSeq([i \in DOMAIN s |-> put(s[i])])

\* The bytes that can begin a character of at most four bytes.
utf8StrLen(s) ==
  Cardinality({i \in DOMAIN s : s[i] \in 0..127 \cup 192..223 \cup 224..239 \cup 240..247})

----------------------------------------------------------------------------
(* Numbers.  Scaled: UnitBits stands for the 10 bits of a unit, IntBits     *)
(* for the 63 of an int64_t without its sign, so that 8E is still one more  *)
(* than the largest.  Numbers without a unit stay far from both ends.       *)

UnitBits == 4
IntBits  == 6 * UnitBits + 3

\* The digits s begins with, their value, and what follows them.
Run(s) ==
  LET n == Min({i \in DOMAIN s : s[i] \notin Digits} \cup {Len(s) + 1}) - 1 IN
  [len |-> n, rest |-> SubSeq(s, n + 1, Len(s)),
   value |-> FoldLeft(LAMBDA v, c : 10 * v + c - 48, 0, SubSeq(s, 1, n))]

SkipBlanks(s) ==
  SubSeq(s, Min({i \in DOMAIN s : s[i] \notin Blank} \cup {Len(s) + 1}), Len(s))

Signed(s) ==
  LET t == SkipBlanks(s) IN
  IF t # <<>> /\ t[1] \in {43, 45}
  THEN [sign |-> IF t[1] = 45 THEN -1 ELSE 1, rest |-> Tail(t)]
  ELSE [sign |-> 1, rest |-> t]

strToInt64(s) == Signed(s).sign * Run(Signed(s).rest).value

\* "kmgtpe"
Units == <<107, 109, 103, 116, 112, 101>>

Clamped(n) == Max({Min({n, 2^IntBits - 1}), -2^IntBits})

\* A fraction of one digit and a unit; the product is cut towards zero.
strToInt64x(s) ==
  LET whole  == Run(Signed(s).rest)
      part   == IF whole.rest # <<>> /\ whole.rest[1] = 46
                THEN Run(Tail(whole.rest)) ELSE [value |-> 0, len |-> 0, rest |-> whole.rest]
      suffix == SkipBlanks(part.rest)
      unit   == {i \in DOMAIN Units : suffix # <<>> /\ Units[i] = Lower(suffix[1])}
      factor == 2^(UnitBits * Max({0} \cup unit))
  IN  Clamped(Signed(s).sign
                * (whole.value * factor + (part.value * factor) \div 10^part.len))

----------------------------------------------------------------------------
(* URL coding.                                                             *)

\* Mutant: the percent sign is left as it is.
is_printablePercent(c) == c \in 32..126

is_printable(c) == c \in 32..126 /\ c # Percent

is_safe_char(c, unsafe) == c \notin unsafe /\ is_printable(c)

HexDigit(n) == IF n < 10 THEN 48 + n ELSE Letter_A + n - 10

\* What is left of "%%%02X" in three bytes: a char below zero is printed as
\* an int of eight digits, the first two of them FF.
Escape(c) ==
  IF CharIsSigned /\ c > 127 THEN <<Percent, Letter_F, Letter_F>>
  ELSE <<Percent, HexDigit(c \div 16), HexDigit(c % 16)>>

UrlEncode(s, unsafe) ==
  FlattenSeq([i \in DOMAIN s |-> IF is_safe_char(s[i], unsafe) THEN <<s[i]>> ELSE Escape(s[i])])

IsHex(c) == c \in Digits \cup 65..70 \cup 97..102

\* Also of bytes that are no digits at all.
HexPair(c, d) ==
  LET value(x) == IF x \in Digits THEN x - 48 ELSE Lower(x) - Letter_a + 10
  IN  (value(c) * 16 + value(d)) % 256

\* Decoding in place: `past' is what is in memory after the closing zero.
\* A lone percent sign writes nothing, so that the byte that is already there
\* stays; after %u the four digits are checked, the two bytes behind them are
\* used, and decoding goes on at the last of the four.
RECURSIVE DecodeFrom(_, _, _, _)
DecodeFrom(b, n, i, out) ==
  LET left == n - i
      hex(js) == \A j \in js : IsHex(b[j])
  IN  IF i > n THEN out
      ELSE IF b[i] # Percent THEN DecodeFrom(b, n, i + 1, Append(out, b[i]))
      ELSE IF left >= 2 /\ hex(i + 1..i + 2)
      THEN DecodeFrom(b, n, i + 3, Append(out, HexPair(b[i + 1], b[i + 2])))
      ELSE IF left >= 5 /\ b[i + 1] \in {117, 85} /\ hex(i + 2..i + 5)
      THEN DecodeFrom(b, n, i + 5, Append(out, HexPair(b[i + 6], b[i + 7])))
      ELSE DecodeFrom(b, n, i + 1, Append(out, b[Len(out) + 1]))

UrlDecode(s, past) == DecodeFrom(s \o <<0, past>>, Len(s), 1, <<>>)

=============================================================================
