------------------------------ MODULE Kprintf -------------------------------
(***************************************************************************)
(* kernel/kprintf.c: vkcprintf goes through a format one character at a    *)
(* time, collects the options of a directive and writes the directive's    *)
(* field; the characters go to the serial port and, in ksnprintf, to a     *)
(* buffer.  The format and the arguments are the caller's: one character,  *)
(* and at a conversion one argument, is chosen in every step.  An int has  *)
(* Ints values and a long long Longs values, instead of 2^32 and 2^64.     *)
(***************************************************************************)
EXTENDS Integers, Sequences, SequencesExt

CONSTANTS
  Chars,    \* characters of formats
  Ints,     \* values of an int
  Longs,    \* values of a long long
  Args,     \* arguments, as bit patterns
  Strings,  \* string arguments; a null pointer is one, "(NULL)"
  Sizes,    \* sizes of ksnprintf's buffer
  MaxFmt    \* characters of a format (bound)

NumberSet == <<"0", "1", "2", "3", "4", "5", "6", "7", "8", "9", "a", "b", "c", "d", "e", "f">>
Value(c) == CHOOSE i \in 0..15 : NumberSet[i + 1] = c
DigitsIn(base) == {NumberSet[i] : i \in 1..base}
DigitChars == DigitsIn(10)

KprintfAssumption ==
  /\ Chars \subseteq DigitChars \cup {"z", "%", "-", ".", "*", "l", "d", "u", "s", "x", "o", "c"}
  /\ Ints \in Nat \ {0} /\ Longs \in Nat /\ Ints < Longs
  /\ Args \subseteq 0..Longs - 1 /\ MaxFmt \in Nat
  /\ \A s \in Strings : s \in Seq(STRING)
  /\ Sizes \subseteq 0..Ints \div 2 - 1   \* sizes that an int holds

VARIABLES
  mode,    \* "text"; "cont" and, within parse_precision, "prec"; "end"; "panic"
  prefix, long_level, zero_padding, right_padding, precision,   \* the code's locals
  rc,      \* the count that is returned
  out,     \* the characters written
  buf, size,   \* ksnprintf's buffer without the NUL after it, and its size
  fmt,     \* characters of the format that were read
  text,    \* those of a directive, after the %
  last,    \* the last conversion
  earlier  \* a directive since the last d had an l

opts == <<prefix, zero_padding, right_padding, precision>>
sinks == <<rc, out, buf>>
history == <<last, earlier>>
vars == <<mode, opts, long_level, sinks, size, fmt, text, history>>

None == [conv |-> "none"]

Init ==
  /\ mode = "text" /\ prefix = 0 /\ long_level = 0
  /\ zero_padding = FALSE /\ right_padding = FALSE /\ precision = -1
  /\ rc = 0 /\ out = <<>> /\ buf = <<>> /\ size \in Sizes
  /\ fmt = 0 /\ text = <<>> /\ last = None /\ earlier = FALSE

-----------------------------------------------------------------------------
(* Writing.                                                                *)

\* The number with the bits of v.
Signed(v, values) == IF v < values \div 2 THEN v ELSE v - values

\* Mutated: the space that is left is not reduced.
sn_write_full(s) == buf' = buf \o SubSeq(s, 1, IF Len(s) < size THEN Len(s) ELSE size)

\* As much as there is space for.  What is left is an int.  The NUL that ends
\* the copy is left out.
sn_write(s) ==
  LET left == Signed(size % Ints, Ints) - Len(buf)
  IN buf' = buf \o SubSeq(s, 1, IF Len(s) < left THEN Len(s) ELSE left)

WRITE(s, counted) ==
  /\ out' = out \o s
  /\ sn_write(s)
  /\ rc' = rc + counted

Pad(t, n) == [i \in 1..(IF n > 0 THEN n ELSE 0) |-> t]

Padded(s, t, width, right) ==
  IF right THEN s \o Pad(t, width - Len(s)) ELSE Pad(t, width - Len(s)) \o s

\* The digits as they come off, least first.  Taken modulo a negative number
\* is negative and indexes memory before the set.
Digits(n, base) ==
  LET str[m \in 0..Longs] ==
        IF m < base THEN <<NumberSet[m + 1]>> ELSE <<NumberSet[(m % base) + 1]>> \o str[m \div base]
  IN IF n >= 0 THEN str[n] ELSE [i \in 1..Len(str[-n]) |-> "?"]

print_unum(n, base, width, zero, right) ==
  Padded(Reverse(Digits(n, base)), IF zero THEN "0" ELSE " ", width, right)

\* The negated least number is the number itself.
print_num(n, base, width, zero, right) ==
  LET m == IF n < 0 /\ n # -(Longs \div 2) THEN -n ELSE n
  IN Padded((IF n < 0 THEN <<"-">> ELSE <<>>) \o Reverse(Digits(m, base)),
            IF zero THEN "0" ELSE " ", width, right)

\* The characters are counted one by one and the padding, c, is added.
StringCount(s, width) == Len(s) + (IF width > Len(s) THEN width - Len(s) ELSE 0)

-----------------------------------------------------------------------------
(* vkcprintf.                                                              *)

Read(c) == fmt < MaxFmt /\ fmt' = fmt + 1 /\ c \in Chars

Plain(c) ==
  /\ mode = "text" /\ c # "%" /\ Read(c)
  /\ WRITE(<<c>>, 1)
  /\ UNCHANGED <<mode, opts, long_level, size, text, history>>

Percent(c) ==
  /\ mode = "text" /\ c = "%" /\ Read(c)
  /\ mode' = "cont"
  /\ UNCHANGED <<opts, long_level, sinks, size, text, history>>

\* An option: the locals it changes are in Effect.
Option(c, Effect) ==
  /\ Read(c) /\ Effect
  /\ text' = Append(text, c)
  /\ UNCHANGED <<sinks, size, history>>

InDirective == mode \in {"cont", "prec"}

\* '0' and '1' to '9', unless they are the precision's.
Digit(c) ==
  /\ mode = "cont" /\ c \in DigitChars
  /\ Option(c,
       /\ prefix' = 10 * prefix + Value(c)
       /\ zero_padding' = (zero_padding \/ (c = "0" /\ prefix = 0))
       /\ UNCHANGED <<mode, right_padding, precision, long_level>>)

Minus(c) ==
  /\ InDirective /\ c = "-"
  /\ Option(c,
       /\ mode' = (IF prefix = 0 THEN "cont" ELSE "panic")
       /\ right_padding' = (right_padding \/ prefix = 0)
       /\ UNCHANGED <<prefix, zero_padding, precision, long_level>>)

Long(c) ==
  /\ InDirective /\ c = "l"
  /\ Option(c,
       /\ long_level' = long_level + 1
       /\ mode' = (IF long_level' <= 2 THEN "cont" ELSE "panic")
       /\ UNCHANGED opts)

\* The case '.' up to the loop of parse_precision.
Dot(c) ==
  /\ InDirective /\ c = "."
  /\ Option(c,
       /\ precision' = 0 /\ mode' = "prec"
       /\ UNCHANGED <<prefix, zero_padding, right_padding, long_level>>)

\* A turn of the loop.  The first character that is no digit is read again by
\* vkcprintf: mode "prec" is then as good as "cont".
parse_precision(c) ==
  /\ mode = "prec" /\ c \in DigitChars
  /\ Option(c,
       /\ precision' = 10 * precision + Value(c)
       /\ UNCHANGED <<mode, prefix, zero_padding, right_padding, long_level>>)

\* The precision is an argument if the star is its first character.
Star(c) ==
  /\ mode = "prec" /\ c = "*"
  /\ \E n \in -1..1 :
       Option(c,
         \/ /\ Last(text) = "." /\ precision' = n /\ mode' = "cont"
            /\ UNCHANGED <<prefix, zero_padding, right_padding, long_level>>
         \/ /\ Last(text) # "." /\ mode' = "panic"
            /\ UNCHANGED <<opts, long_level>>)

\* Mutated: the precision stays.
Reset_precision ==
  /\ prefix' = 0 /\ zero_padding' = FALSE /\ right_padding' = FALSE
  /\ UNCHANGED precision

\* Some character of a directive's text is an l.
HasL(t) == \E k \in 1..Len(t) : t[k] = "l"

\* At the end of a directive; long_level is left alone.
Reset ==
  /\ prefix' = 0 /\ zero_padding' = FALSE /\ right_padding' = FALSE
  /\ precision' = -1

\* The field s of a conversion of arg is written, or an assertion fails.
Convert(c, asserts, arg, s, counted) ==
  /\ InDirective /\ Read(c)
  /\ \/ /\ asserts
        /\ WRITE(s, counted) /\ Reset /\ mode' = "text" /\ text' = <<>>
        /\ last' = [conv |-> c, text |-> text, arg |-> arg, field |-> s, level |-> long_level,
                    prefix |-> prefix, zero |-> zero_padding, right |-> right_padding,
                    precision |-> precision, earlier |-> earlier]
        /\ earlier' = (c # "d" /\ (earlier \/ HasL(text)))
     \/ /\ ~asserts
        /\ mode' = "panic"
        /\ UNCHANGED <<opts, sinks, text, history>>
  /\ UNCHANGED size

\* Mutated: the level stays.
LevelBack_kept == UNCHANGED long_level

LevelBack == long_level' = 0

\* With a precision it is the width and zeros are padded.
Decimal(c, v) ==
  LET n == IF long_level > 0 THEN Signed(v, Longs) ELSE Signed(v % Ints, Ints)
      s == IF precision # -1 THEN print_num(n, 10, precision, TRUE, FALSE)
           ELSE print_num(n, 10, prefix, zero_padding, right_padding)
  IN /\ c = "d"
     /\ Convert(c, TRUE, v, s, Len(s))
     /\ LevelBack

\* print_int, whose argument is signed, writes this too.
Unsigned(c, v) ==
  LET n == IF long_level > 0 THEN Signed(v, Longs) ELSE v % Ints
      s == print_num(n, 10, prefix, zero_padding, right_padding)
  IN /\ c = "u"
     /\ Convert(c, precision = -1, v, s, Len(s))
     /\ UNCHANGED long_level

\* x takes a u64 whatever the level, o a u32.
HexOrOctal(c, v) ==
  LET s == IF c = "x" THEN print_unum(v, 16, prefix, zero_padding, right_padding)
           ELSE print_num(v % Ints, 8, prefix, zero_padding, right_padding)
  IN /\ c \in {"x", "o"}
     /\ Convert(c, precision = -1, v, s, Len(s))
     /\ UNCHANGED long_level

\* print_string.  What is written is cut at the precision.
String(c, a) ==
  LET cut == SubSeq(a, 1, IF 0 <= precision /\ precision < Len(a) THEN precision ELSE Len(a))
  IN /\ c = "s"
     /\ Convert(c, ~zero_padding /\ (precision = -1 \/ (prefix = 0 /\ ~right_padding)), a,
                Padded(cut, " ", prefix, right_padding), StringCount(cut, prefix))
     /\ UNCHANGED long_level

Character(c) ==
  /\ c \in {"c", "%"}
  /\ Convert(c, TRUE, 0, IF c = "%" THEN <<"%">> ELSE <<"z">>, 1)
  /\ UNCHANGED long_level

\* The case default, and a star that is not a precision.
Unsupported(c) ==
  /\ InDirective /\ Read(c) /\ (c = "z" \/ (c = "*" /\ mode = "cont"))
  /\ mode' = "panic"
  /\ UNCHANGED <<opts, long_level, sinks, size, text, history>>

\* The format ends, perhaps within a directive.
End ==
  /\ mode \in {"text", "cont", "prec"}
  /\ mode' = (IF mode = "prec" THEN "panic" ELSE "end")
  /\ UNCHANGED <<opts, long_level, sinks, size, fmt, text, history>>

Next ==
  \/ \E c \in Chars :
       \/ Plain(c) \/ Percent(c) \/ Digit(c) \/ Minus(c) \/ Long(c) \/ Dot(c)
       \/ parse_precision(c) \/ Star(c) \/ Character(c) \/ Unsupported(c)
       \/ \E v \in Args : Decimal(c, v) \/ Unsigned(c, v) \/ HexOrOctal(c, v)
       \/ \E a \in Strings : String(c, a)
  \/ End

Spec == Init /\ [][Next]_vars

-----------------------------------------------------------------------------
(* Properties.                                                             *)

\* The type of every variable.
TypeOK ==
  /\ mode \in {"text", "cont", "prec", "end", "panic"}
  /\ {prefix, rc, fmt} \subseteq Nat /\ precision \in Nat \cup {-1} /\ long_level \in 0..3
  /\ {zero_padding, right_padding, earlier} \subseteq BOOLEAN

\* What is returned is the number of characters written, padding included, and
\* the buffer has the first of them, as many as its size lets it have, so that
\* the NUL after them is never past the index size.
BufferIsPrefix ==
  /\ rc = Len(out)
  /\ buf = SubSeq(out, 1, IF Len(out) < size THEN Len(out) ELSE size)

\* The number that the digits of t from i to j are.
Number(t, base, i, j) ==
  LET n[k \in 0..j] ==
        IF k < i THEN 0
        ELSE IF t[k] \in DigitsIn(base) THEN base * n[k - 1] + Value(t[k]) ELSE n[k - 1]
  IN n[j]

\* Flags and width, precision and length of a text in this order.
Parts(t) ==
  {p \in (0..Len(t)) \X (0..Len(t)) :
     /\ p[1] <= p[2]
     /\ \A k \in 1..p[1] : t[k] \in DigitChars \cup {"-"}
     /\ \A k \in p[1] + 1..p[2] : t[k] \in (IF k = p[1] + 1 THEN {"."} ELSE DigitChars)
     /\ \A k \in p[2] + 1..Len(t) : t[k] = "l"}

\* The first digit of t up to i is a zero.
ZeroFirst(t, i) == \E k \in 1..i : t[k] = "0" /\ \A m \in 1..k - 1 : t[m] \notin DigitChars

\* Every directive is written with the width, the padding and the precision of
\* its own text, whatever directives came before it.  The length, the l, is
\* NumberReads's subject.
OwnOptions ==
  last.conv \in {"d", "u", "x", "o", "s"} =>
    \A p \in Parts(last.text) :
      /\ last.prefix = Number(last.text, 10, 1, p[1])
      /\ last.zero = ZeroFirst(last.text, p[1])
      /\ last.right = \E k \in 1..p[1] : last.text[k] = "-"
      /\ last.precision = IF p[1] = p[2] THEN -1 ELSE Number(last.text, 10, p[1] + 2, p[2])

Base(conv) == CASE conv = "x" -> 16 [] conv = "o" -> 8 [] OTHER -> 10

\* The number an argument stands for in a conversion of the directive's text:
\* with an l it is a long long, without it an int.
Meant ==
  LET long == HasL(last.text)
      v == IF long THEN last.arg ELSE last.arg % Ints
  IN IF last.conv = "d" THEN Signed(v, IF long THEN Longs ELSE Ints) ELSE v

\* Between blanks s is the number n: a minus if it is negative, and digits.
ReadsAs(s, base, n) ==
  \E i \in {k \in 1..Len(s) : s[k] \in DigitsIn(base) \cup {"-"}} :
    LET first == IF n < 0 THEN i + 1 ELSE i
    IN /\ \A k \in 1..i - 1 : s[k] = " "
       /\ n < 0 => s[i] = "-"
       /\ \E j \in first..Len(s) :
            /\ \A k \in j + 1..Len(s) : s[k] = " "
            /\ \A k \in first..j : s[k] \in DigitsIn(base)
            /\ Number(s, base, first, j) = IF n < 0 THEN -n ELSE n

\* The argument is read with the length that the text says.  Not so are d and u
\* without an l but after one that no d followed: they take a long long; x of
\* an int, with what is in the upper half of a u64; and o with an l, a u32.
LengthIsOwn ==
  /\ last.conv \in {"d", "u"} => HasL(last.text) \/ ~last.earlier
  /\ last.conv = "x" => HasL(last.text) \/ last.arg < Ints
  /\ last.conv = "o" => ~HasL(last.text)

\* The field of a number is as wide as asked, or as the number, and its
\* characters between the blanks are the number that the directive's own text
\* says the argument is.  Left out are the cases LengthIsOwn names, the zeros
\* padded before a minus or after a number, and the two numbers that do not fit
\* a positive long long: an unsigned one that large, and the least one.
NumberReads ==
  (/\ last.conv \in {"d", "u", "x", "o"} /\ LengthIsOwn
   /\ Meant < Longs \div 2 \/ last.conv = "x"
   /\ Meant > -(Longs \div 2)
   /\ ~((last.zero \/ last.precision # -1) /\ (Meant < 0 \/ last.right))) =>
    /\ Len(last.field) >= (IF last.precision = -1 THEN last.prefix ELSE last.precision)
    /\ ReadsAs(last.field, Base(last.conv), Meant)

\* The assertion on long_level fails only for a directive with more than two l.
\* It fails for others: only d and i set long_level back.
LevelIsOwn ==
  long_level > 2 => Len(SelectSeq(text, LAMBDA c : c = "l")) > 2
=============================================================================
