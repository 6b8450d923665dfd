-------------------------------- MODULE Format --------------------------------
(***************************************************************************)
(* The formatting of kernel/lib/string.c: vsprintf with its conversions,   *)
(* itoa, ulltoa and reverse, loop by loop.  Characters are their codes.  A *)
(* job is a call of one of the three; the format of a vsprintf is given as *)
(* the pieces it consists of, so that its text can be defined without the  *)
(* loops.  The width of int and of uint64_t is a parameter.                *)
(***************************************************************************)
EXTENDS Integers, SequencesExt

CONSTANTS
  Jobs,              \* the calls
  IntBits, WordBits, \* the width of int32_t and of uint64_t
  DecRoom, HexRoom,  \* elements of num_str in "%d" (12) and in "%x" (17)
  NULL               \* a char* that is NULL

NUL == 0
Percent == 37
Minus == 45
LowerC == 99
LowerD == 100
LowerS == 115
LowerX == 120
UpperX == 88
Conversions == {LowerC, LowerS, LowerD, LowerX, UpperX}
NullText == <<40, 110, 117, 108, 108, 41>>   \* (null)

Power(b, k) == LET p[j \in Nat] == IF j = 0 THEN 1 ELSE b * p[j - 1] IN p[k]

IntMin == -Power(2, IntBits - 1)
Ints == IntMin .. Power(2, IntBits - 1) - 1
Words == 0 .. Power(2, WordBits) - 1

\* "-" and ten digits, then NUL; sixteen digits and one element unused.
ASSUME WidthAssumption ==
  /\ IntBits \in Nat \ {0} /\ WordBits \in Nat \ {0}
  /\ DecRoom \in Nat \ {0, 1} /\ HexRoom \in Nat \ {0}
  /\ Power(2, IntBits - 1) < Power(10, DecRoom - 2)
  /\ Power(2, WordBits) <= Power(16, HexRoom)

\* Pieces: a character by itself (conv is NUL), and a conversion with or
\* without an argument, which is a number or, for %s, a text.
FormatOf(piece) == IF piece.conv = NUL THEN <<piece.num>> ELSE <<Percent, piece.conv>>
Takes(piece) == piece.conv \in Conversions
Formats(pieces) == [k \in DOMAIN pieces |-> FormatOf(pieces[k])]
FormatText(pieces) == FlattenSeq(Formats(pieces)) \o <<NUL>>
Taken(pieces) == [k \in DOMAIN pieces |-> IF Takes(pieces[k]) THEN <<pieces[k]>> ELSE <<>>]
Arguments(pieces) == FlattenSeq(Taken(pieces))

\* A text is a C string and an argument has its conversion's type (%c takes an
\* int, and keeps what fits a char).  Only a
\* stray % at the end is a piece that reads what comes behind it.
Chars == -128 .. 127
Texts == {text \in Seq(Chars) : \A k \in DOMAIN text : text[k] # NUL}
Sane(piece) ==
  /\ piece.conv \in Chars
  /\ piece.conv = NUL => piece.num \in Chars \ {NUL}
  /\ piece.conv = LowerC => piece.num \in Int
  /\ piece.conv = LowerS => piece.text \in Texts \cup {NULL}
  /\ piece.conv = LowerD => piece.num \in Ints
  /\ piece.conv \in {LowerX, UpperX} => piece.num \in Words
Stray(piece) == piece.conv = NUL /\ piece.num = Percent

ASSUME JobsAssumption ==
  \A j \in Jobs :
    \/ /\ j.call = "vsprintf"
       /\ Len(j.pieces) \in Nat /\ DOMAIN j.pieces = 1 .. Len(j.pieces)
       /\ \A k \in DOMAIN j.pieces :
            Sane(j.pieces[k]) /\ (Stray(j.pieces[k]) => k = Len(j.pieces))
    \/ j.call = "itoa" /\ j.num \in Ints /\ j.base \in 2 .. 36
    \/ j.call = "ulltoa" /\ j.num \in Words /\ j.base \in 2 .. 36

VARIABLES
  job,         \* what was called
  pc,          \* the loop it is in
  i, arg,      \* the index into the format, and of the next argument
  str,         \* the text written through str
  written,
  num, base,   \* the number being converted
  is_negative,
  num_str,     \* its characters so far
  start        \* the index of reverse

textVars == <<i, arg, str, written>>
numVars == <<num, base, is_negative, num_str, start>>
vars == <<job, pc, textVars, numVars>>

format == FormatText(job.pieces)
va_arg == Arguments(job.pieces)[arg]

Init ==
  /\ job \in Jobs
  /\ pc = job.call
  /\ i = 1 /\ arg = 1 /\ str = <<>> /\ written = 0
  /\ num = job.num /\ base = job.base /\ is_negative = FALSE
  /\ num_str = <<>> /\ start = 1

-----------------------------------------------------------------------------
(* Machine arithmetic and digits.                                          *)

\* Slips: the division rounds down; reverse stops a swap early.
QuotDown(n, b) == n \div b
SwapsFew(k, len) == k < len - k

\* C's remainder and quotient, and the negation that wraps.
Rem(n, b) == IF n >= 0 THEN n % b ELSE -((-n) % b)
Quot(n, b) == IF n >= 0 THEN n \div b ELSE -((-n) \div b)
Negated(n) == IF n = IntMin THEN IntMin ELSE -n

\* The character of a digit; a is the first letter.
Digit(rem, a) == IF rem > 9 THEN rem - 10 + a ELSE rem + 48

Swaps(k, len) == k < len + 1 - k

-----------------------------------------------------------------------------
(* itoa and ulltoa.                                                        *)

Zero ==
  /\ pc \in {"itoa", "ulltoa"} /\ num = 0
  /\ num_str' = <<48>>
  /\ pc' = IF job.call = "vsprintf" THEN "copy" ELSE "done"
  /\ UNCHANGED <<job, textVars, num, base, is_negative, start>>

Sign ==
  /\ pc \in {"itoa", "ulltoa"} /\ num # 0
  /\ is_negative' = (pc = "itoa" /\ num < 0 /\ base = 10)
  /\ num' = IF is_negative' THEN Negated(num) ELSE num
  /\ pc' = "digits"
  /\ UNCHANGED <<job, textVars, base, num_str, start>>

\* One turn of while (num != 0).
AddDigit ==
  /\ pc = "digits" /\ num # 0
  /\ num_str' = Append(num_str, Digit(Rem(num, base), 97))
  /\ num' = Quot(num, base)
  /\ UNCHANGED <<job, pc, textVars, base, is_negative, start>>

AddMinus ==
  /\ pc = "digits" /\ num = 0
  /\ num_str' = IF is_negative THEN Append(num_str, Minus) ELSE num_str
  /\ pc' = "reverse" /\ start' = 1
  /\ UNCHANGED <<job, textVars, num, base, is_negative>>

\* One swap of reverse, or its end and the return.
ReverseStep ==
  /\ pc = "reverse"
  /\ LET len == Len(num_str) other == len + 1 - start IN
     IF Swaps(start, len)
     THEN /\ num_str' = [num_str EXCEPT ![start] = num_str[other], ![other] = num_str[start]]
          /\ start' = start + 1 /\ pc' = pc
     ELSE /\ pc' = IF job.call = "vsprintf" THEN "copy" ELSE "done"
          /\ UNCHANGED <<num_str, start>>
  /\ UNCHANGED <<job, textVars, num, base, is_negative>>

-----------------------------------------------------------------------------
(* vsprintf, one character or conversion of the format at a time.          *)

Put(text) == str' = str \o text /\ written' = written + Len(text)

Directive(char) == pc = "vsprintf" /\ format[i] = Percent /\ format[i + 1] = char
Consumed == i' = i + 2 /\ arg' = arg + 1
Converting(n, b, to) ==
  /\ num' = n /\ base' = b /\ num_str' = <<>> /\ pc' = to
  /\ UNCHANGED <<job, str, written, is_negative, start>>

Literal ==
  /\ pc = "vsprintf" /\ format[i] \notin {Percent, NUL}
  /\ Put(<<format[i]>>) /\ i' = i + 1
  /\ UNCHANGED <<job, pc, arg, numVars>>

\* The cast to a signed char.
AsChar(n) == ((n + 128) % 256) - 128

Char ==
  /\ Directive(LowerC) /\ Put(<<AsChar(va_arg.num)>>) /\ Consumed
  /\ UNCHANGED <<job, pc, numVars>>

String ==
  /\ Directive(LowerS) /\ Consumed
  /\ Put(IF va_arg.text = NULL THEN NullText ELSE va_arg.text)
  /\ UNCHANGED <<job, pc, numVars>>

Decimal == Directive(LowerD) /\ Converting(va_arg.num, 10, "itoa") /\ Consumed

CopyDecimal ==
  /\ pc = "copy" /\ Put(num_str) /\ pc' = "vsprintf"
  /\ UNCHANGED <<job, i, arg, numVars>>

HexZero ==
  /\ \E x \in {LowerX, UpperX} : Directive(x)
  /\ va_arg.num = 0 /\ Put(<<48>>) /\ Consumed
  /\ UNCHANGED <<job, pc, numVars>>

HexAs(char, to) ==
  Directive(char) /\ va_arg.num # 0 /\ Converting(va_arg.num, 16, to) /\ Consumed
Hex == HexAs(LowerX, "hex") \/ HexAs(UpperX, "HEX")

HexDigit ==
  /\ pc \in {"hex", "HEX"} /\ num # 0
  /\ num_str' = Append(num_str, Digit(Rem(num, 16), IF pc = "HEX" THEN 65 ELSE 97))
  /\ num' = Quot(num, 16)
  /\ UNCHANGED <<job, pc, textVars, base, is_negative, start>>

CopyHex ==
  /\ pc \in {"hex", "HEX"} /\ num = 0
  /\ Put(Reverse(num_str)) /\ pc' = "vsprintf"
  /\ UNCHANGED <<job, i, arg, numVars>>

\* Any other character stands for itself, the terminator too; behind that
\* one the loop reads what is no part of the format.
Other ==
  /\ pc = "vsprintf" /\ format[i] = Percent /\ format[i + 1] \notin Conversions
  /\ Put(<<format[i + 1]>>) /\ i' = i + 2
  /\ pc' = IF format[i + 1] = NUL THEN "past" ELSE pc
  /\ UNCHANGED <<job, arg, numVars>>

End ==
  /\ pc = "vsprintf" /\ format[i] = NUL
  /\ pc' = "done" /\ UNCHANGED <<job, textVars, numVars>>

Returned == pc \in {"done", "past"} /\ UNCHANGED vars

Next ==
  \/ Zero \/ Sign \/ AddDigit \/ AddMinus \/ ReverseStep
  \/ Literal \/ Char \/ String \/ Decimal \/ CopyDecimal
  \/ HexZero \/ Hex \/ HexDigit \/ CopyHex \/ Other \/ End
  \/ Returned

Spec == Init /\ [][Next]_vars

-----------------------------------------------------------------------------
(* What the text should be, from the positions of a numeral.               *)

Digits(n, b) == CHOOSE k \in 1 .. IntBits + WordBits : n < Power(b, k) /\ (k > 1 => n >= Power(b, k - 1))
Numeral(n, b, letter) ==
  LET k == Digits(n, b)
  IN  [p \in 1 .. k |-> LET d == (n \div Power(b, k - p)) % b
                        IN  IF d < 10 THEN 48 + d ELSE letter + d - 10]
Signed(n) == IF n < 0 THEN <<Minus>> \o Numeral(-n, 10, 97) ELSE Numeral(n, 10, 97)

\* The char that differs by a multiple of 256.
Congruent(n) == CHOOSE c \in Chars : (c - n) % 256 = 0

Meaning(piece) ==
  CASE piece.conv = LowerS -> IF piece.text = NULL THEN NullText ELSE piece.text
    [] piece.conv = LowerD -> Signed(piece.num)
    [] piece.conv = LowerX -> Numeral(piece.num, 16, 97)
    [] piece.conv = UpperX -> Numeral(piece.num, 16, 65)
    [] piece.conv = LowerC -> <<Congruent(piece.num)>>
    [] piece.conv = NUL -> <<piece.num>>
    [] OTHER -> <<piece.conv>>
Meanings(pieces) == [k \in DOMAIN pieces |-> Meaning(pieces[k])]

\* A number itoa is right about: not the least, whose negation is itself, and
\* for a base other than ten no negative one.
Convertible(n, b) == n >= 0 \/ (b = 10 /\ n # IntMin)
WellFormed ==
  IF job.call = "vsprintf"
  THEN \A k \in DOMAIN job.pieces : job.pieces[k].conv = LowerD => Convertible(job.pieces[k].num, 10)
  ELSE Convertible(job.num, job.base)

\* vsprintf writes the text its format and arguments mean, and counts it
\* exactly (print shows as many characters as it returns); itoa and ulltoa
\* write the numeral, digits first to last.
TextRight ==
  (pc = "done" /\ WellFormed) =>
    IF job.call = "vsprintf"
    THEN /\ str = FlattenSeq(Meanings(job.pieces))
         /\ written = Len(str)
    ELSE num_str = IF job.base = 10 THEN Signed(job.num) ELSE Numeral(job.num, job.base, 97)

\* The two local arrays are large enough (string.c:119, string.c:130), for
\* the least number too: it stays negative and must still run down to zero.
NumStrFits ==
  job.call = "vsprintf" =>
    /\ pc \in {"itoa", "digits", "reverse", "copy"} => Len(num_str) + 1 <= DecRoom
    /\ pc \in {"hex", "HEX"} => Len(num_str) <= HexRoom
=============================================================================
