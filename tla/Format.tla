------------------------------- MODULE Format -------------------------------
(***************************************************************************)
(* The parts of fb/printf.c that libc/src/stdio.c repeats: reading a       *)
(* directive, and __int_str.  A string is a sequence of characters; the    *)
(* widths of the integer types are scaled down.  Arguments are the bits    *)
(* that were passed; strings are passed as such.                           *)
(***************************************************************************)
EXTENDS Integers, Sequences, FiniteSetsExt, SequencesExt

FlagChars == {"-", "+", "#", " ", "0"}
DigitChars == {"0", "1", "2", "3", "4", "5", "6", "7", "8", "9"}
LengthChars == {"h", "l", "j", "z", "t", "L"}
Numerals == <<"0", "1", "2", "3", "4", "5", "6", "7", "8", "9", "A", "B", "C", "D", "E", "F">>
SmallNumerals == <<"0", "1", "2", "3", "4", "5", "6", "7", "8", "9", "a", "b", "c", "d", "e", "f">>

(* Scaled: char 8, short 16, int 32, all others 64.                        *)
Bits(length) == CASE length = "H" -> 2 [] length = "h" -> 3 [] length = "" -> 4 [] OTHER -> 5
MaxBits == 5

Unsigned(raw, bits) == raw % 2^bits
Signed(raw, bits) == ((raw + 2^(bits - 1)) % 2^bits) - 2^(bits - 1)

At(f, i) == IF i \in DOMAIN f THEN f[i] ELSE "nul"
Skip(f, i, chars) == Min({j \in i .. Len(f) + 1 : At(f, j) \notin chars})
DigitValue(c) == CHOOSE n \in 0 .. 9 : Numerals[n + 1] = c
Number(digits) == FoldLeft(LAMBDA n, c : 10 * n + DigitValue(c), 0, digits)

(* A number, which a star replaces by the next argument.                   *)
NumberOrStar(f, i, args) ==
  LET j == Skip(f, i, DigitChars)
  IN  IF At(f, j) = "*" THEN [value |-> Head(args), next |-> j + 1, args |-> Tail(args)]
      ELSE [value |-> Number(SubSeq(f, i, j - 1)), next |-> j, args |-> args]

Precision(f, s) == IF At(f, s.next) = "." THEN NumberOrStar(f, s.next + 1, s.args) ELSE s

(* The second h is not stepped over: it is taken for the specifier.        *)
Length(f, i) ==
  IF At(f, i) \notin LengthChars THEN [length |-> "", next |-> i]
  ELSE CASE At(f, i + 1) = "h" -> [length |-> "H", next |-> i + 1]
         [] At(f, i + 1) = "l" -> [length |-> "q", next |-> i + 2]
         [] OTHER -> [length |-> f[i], next |-> i + 1]

(* The specifier c behind the length l; p is an unsigned of length z.      *)
Specifier(flags, width, l, c, args) ==
  [flags |-> flags, width |-> width,
   length |-> IF c = "p" THEN "z" ELSE l.length,
   specifier |-> IF c \in {"o", "p"} THEN "u" ELSE c,
   base |-> CASE c = "o" -> 8 [] c \in {"p", "X"} -> 16 [] c = "x" -> 17 [] OTHER -> 10,
   octal |-> c = "o",
   next |-> l.next + 1, args |-> args]

AfterLength(f, flags, width, l, args) == Specifier(flags, width, l, At(f, l.next), args)
AfterPrecision(f, flags, width, s) == AfterLength(f, flags, width, Length(f, s.next), s.args)
AfterWidth(f, flags, s) == AfterPrecision(f, flags, s.value, Precision(f, s))
AfterFlags(f, i, j, args) == AfterWidth(f, {f[k] : k \in i .. j - 1}, NumberOrStar(f, j, args))

(* The directive behind the % at i - 1.                                    *)
Directive(f, i, args) == AfterFlags(f, i, Skip(f, i, FlagChars), args)

(* What # puts before the number, and its padding.                         *)
Prefix(d) ==
  CASE "#" \notin d.flags -> <<>>
    [] d.octal -> <<"0">>
    [] d.specifier \in {"x", "X"} -> <<"0", "x">>
    [] OTHER -> <<>>

RECURSIVE Digits(_, _)
Digits(n, base) ==
  LET numeral == IF base = 17 THEN SmallNumerals ELSE Numerals
      b == IF base = 17 THEN 16 ELSE base
      last == <<numeral[(n % b) + 1]>>
  IN  IF n \div b = 0 THEN last ELSE Digits(n \div b, base) \o last

Times(c, n) == [i \in 1 .. n |-> c]

Padded(body, d) ==
  LET padding == Times(IF "0" \in d.flags THEN "0" ELSE " ", Max({0, d.width - Len(body)}))
  IN  IF "-" \in d.flags THEN body \o padding ELSE padding \o body

PlusOrSpace(d) == IF "+" \in d.flags THEN <<"+">> ELSE IF " " \in d.flags THEN <<" ">> ELSE <<>>

int_str(i, d) ==
  Padded(IF i < 0 THEN <<"-">> \o Digits(-i, d.base) ELSE PlusOrSpace(d) \o Digits(i, d.base), d)

---------------------------------------------------------------------------
(* Reading a number back.                                                  *)

Value(c) == CHOOSE n \in 0 .. 15 : c \in {Numerals[n + 1], SmallNumerals[n + 1]}
Horner(digits, base) == FoldLeft(LAMBDA n, c : base * n + Value(c), 0, digits)

(* A text without its spaces and the prefix of d, and where its sign is.   *)
Bare(text, d) == LET s == SelectSeq(text, LAMBDA c : c # " ")
                 IN  SubSeq(s, Len(Prefix(d)) + 1, Len(s))
SignAt(t) == Max({0} \cup {k \in DOMAIN t : t[k] \in {"+", "-"}})

(* The text shows the value behind its sign, before which only padding     *)
(* stands, in no fewer characters than the width.                          *)
Shows(text, d, value) ==
  LET t == Bare(text, d)
      k == SignAt(t)
      n == Horner(SubSeq(t, k + 1, Len(t)), IF d.base = 17 THEN 16 ELSE d.base)
  IN  /\ value = IF At(t, k) = "-" THEN -n ELSE n
      /\ \A j \in 1 .. k - 1 : t[j] = "0" /\ "0" \in d.flags
      /\ Len(text) >= d.width

(* With both flags the padding is of zeros behind the number, which makes  *)
(* it another one.                                                         *)
ZerosBehind(d) == {"-", "0"} \subseteq d.flags
=============================================================================
