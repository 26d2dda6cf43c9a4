-------------------------------- MODULE Numbers --------------------------------
(* The arithmetic of the interpreter that the compiled programs of DisMachine   *)
(* do without (ricevm-execute, ops/arith.rs, compare.rs, convert.rs, float.rs,  *)
(* fixedpoint.rs): bytes, powers, reals, fixed point, and numbers as text.      *)
(* A byte has a quarter of the bits of a word and a short half of them.  Reals  *)
(* are exact decimal fractions, what IEEE 754 rounds is left out; a text is a   *)
(* sequence of characters.                                                      *)
EXTENDS Dis

CONSTANT Precision   \* the significant digits of %g, 6 in the code

Done(v) == [raised |-> "", val |-> v]
Raised(what) == [raised |-> what]

-----------------------------------------------------------------------------
(* Bytes, shorts, words and bigs: "b", "s", "w", "l".                           *)

BitsOf(kind) == CASE kind = "b" -> Bits("w") \div 4 [] kind = "s" -> Bits("w") \div 2 [] kind \in {"w", "l"} -> Bits(kind)
Least(kind) == IF kind = "b" THEN 0 ELSE -(2 ^ (BitsOf(kind) - 1))
Greatest(kind) == Least(kind) + 2 ^ BitsOf(kind) - 1
Fit(kind, v) == ((v - Least(kind)) % 2 ^ BitsOf(kind)) + Least(kind)
Clamp(kind, v) == Min({Greatest(kind), Max({Least(kind), v})})

\* The count of a shift is taken modulo the width of what is shifted.
Shifted(op, kind, m, s) ==
  LET count == s % BitsOf(kind)
  IN CASE op = "shl" -> Fit(kind, m * 2 ^ count)
       [] op = "shr" -> m \div 2 ^ count
       [] op = "lsr" -> Fit(kind, (m % 2 ^ BitsOf(kind)) \div 2 ^ count)
Combines(op, kind, m, s) == IF kind = "b" THEN Fit("b", Arith(op, "w", m, s)) ELSE Arith(op, kind, m, s)
\* By squaring; the magnitude of the exponent has no sign.
Power(kind, m, s) ==
  LET squared[bit \in Nat] == IF bit = 0 THEN m ELSE LET x == squared[bit - 1] IN Fit(kind, x * x)
      bits == {bit \in 0 .. BitsOf("w") - 1 : (Magnitude(s) \div 2 ^ bit) % 2 = 1}
      r == FoldSet(LAMBDA bit, product: Fit(kind, product * squared[bit]), 1, bits)
  IN CASE s >= 0 -> r [] s < 0 /\ r # 0 -> Fit(kind, Quotient(1, r)) [] s < 0 /\ r = 0 -> 0
Calculate(op, kind, m, s) ==
  CASE op \in {"div", "mod"} /\ s = 0 -> Raised("zero divide")
    [] op \in {"shl", "shr", "lsr"} -> Done(Shifted(op, kind, m, s))
    [] op = "exp" -> Done(Power(kind, m, s))
    [] OTHER -> Done(Combines(op, kind, m, s))

-----------------------------------------------------------------------------
(* Reals.                                                                       *)

\* num / 10 ^ places; or an infinity with a sign, or no number.
Real(num, places) == IF places >= 0 THEN [is |-> "real", num |-> num, places |-> places] ELSE [is |-> "real", num |-> num * 10 ^ (-places), places |-> 0]
Infinity(sign) == [is |-> "inf", num |-> sign, places |-> 0]
NaN == [is |-> "nan", num |-> 0, places |-> 0]
\* A finite number in whole units of so many places.
Units(r, places) == r.num * 10 ^ (places - r.places)
RealPlus(a, b) == LET places == Max({a.places, b.places}) IN Real(Units(a, places) + Units(b, places), places)
\* A product with an infinity is one, with the sign of both; with zero it is no number.
RealTimes(a, b) ==
  CASE a.is = "real" /\ b.is = "real" -> Real(a.num * b.num, a.places + b.places)
    [] "inf" \in {a.is, b.is} /\ a.num * b.num # 0 -> Infinity(IF a.num * b.num < 0 THEN -1 ELSE 1)
    [] OTHER -> NaN
RealLess(a, b) ==
  /\ a # b
  /\ \/ a = Infinity(-1) \/ b = Infinity(1)
     \/ a.is = "real" /\ b.is = "real" /\ LET places == Max({a.places, b.places}) IN Units(a, places) < Units(b, places)
\* The nearest whole number, halves away from zero; what is too large is the last there is.
Rounded(kind, r) ==
  CASE r.is = "nan" -> 0
    [] r.is = "inf" -> IF r.num < 0 THEN Least(kind) ELSE Greatest(kind)
    [] r.is = "real" ->
         LET half == Real(IF r.num < 0 THEN -5 ELSE 5, 1)
             sum == RealPlus(r, half)
         IN Clamp(kind, Quotient(sum.num, 10 ^ sum.places))
Fixed(r, scale) == Done(Rounded("w", RealTimes(r, scale)))

\* A branch is taken if s is to m what the opcode says; nothing is to NaN but different.
StringLess(s, m) == s # m /\ (IsPrefix(s, m) \/ \E n \in DOMAIN s : n \in DOMAIN m /\ s[n] < m[n] /\ SubSeq(s, 1, n - 1) = SubSeq(m, 1, n - 1))
Less(kind, s, m) == CASE kind = "f" -> RealLess(s, m) [] kind = "c" -> StringLess(s, m) [] OTHER -> s < m
Order(kind, s, m) == CASE Less(kind, s, m) -> -1 [] Less(kind, m, s) -> 1 [] OTHER -> 0
Branches(op, kind, s, m) == Done(IF kind = "f" /\ NaN \in {s, m} THEN op = "bne" ELSE Compares(op, Order(kind, s, m), 0))

-----------------------------------------------------------------------------
(* Fixed point.  scale is a power of two; a and b are what else the types of    *)
(* the operands differ by, 0 for nothing.                                       *)

Scaled(v, scale) == Shifted(IF scale >= 0 THEN "shl" ELSE "shr", "l", v, Magnitude(scale))
RoundingMask(scale) == IF scale >= 0 \/ -scale >= BitsOf("l") - 1 THEN 0 ELSE 2 ^ (-scale) - 1
Over(v, a) == IF a = 0 THEN v ELSE Fit("l", Quotient(v, a))
ToWord(v) == Done(Fit("w", v))
\* Two flags below the scale.
Flags(p) == [v |-> (p \div 2) % 2 = 1, w |-> p % 2 = 1, scale |-> p \div 4]
Opposite(x, y) == (x < 0) # (y < 0)

Mulx(x, y, scale) == ToWord(Scaled(Fit("l", x * y), scale))
Mulx0(x, y, scale, a) == IF 0 \in {x, y} THEN Done(0) ELSE ToWord(Over(Scaled(Fit("l", x * y), scale), a))
Mulx1(x, y, p, a) ==
  LET flags == Flags(p)
      v == IF ~flags.v THEN 0 ELSE IF Opposite(x, y) THEN 1 - a ELSE a - 1
      w == IF flags.w /\ flags.v # Opposite(x, y) THEN RoundingMask(flags.scale) ELSE 0
  IN IF 0 \in {x, y} THEN Done(0) ELSE ToWord(Over(Fit("l", Scaled(Fit("l", x * y + w), flags.scale) + v), a))
DivideByZero == Raised("fixed-point division by zero")
Divx(x, y, scale) == IF y = 0 THEN DivideByZero ELSE ToWord(Over(Scaled(x, scale), y))
Divx0(x, y, scale, a) == IF y = 0 THEN DivideByZero ELSE ToWord(Over(Scaled(IF a = 0 THEN x ELSE Fit("l", x * a), scale), y))
Divx1(x, y, p, b) ==
  LET flags == Flags(p)
      v == IF ~flags.v THEN 0 ELSE IF Opposite(x, y) THEN -1 ELSE 1
      w == IF flags.w /\ x <= 0 THEN RoundingMask(flags.scale) ELSE 0
  IN CASE y = 0 -> DivideByZero
       [] y # 0 /\ x = 0 -> Done(0)
       [] OTHER -> ToWord(Over(Scaled(Fit("l", b * x + w), flags.scale), y) + v)
\* Another scale for the same number.
Cvtxx(x, scale) == Mulx(x, 1, scale)
Cvtxx0(x, scale, a) == Mulx0(x, 1, scale, a)
Cvtxx1(x, p, a) == Mulx1(x, 1, p, a)

-----------------------------------------------------------------------------
(* Numbers as text.                                                             *)

Numerals == <<"0", "1", "2", "3", "4", "5", "6", "7", "8", "9">>
DigitAt(text, n) == n \in DOMAIN text /\ text[n] \in ToSet(Numerals)
DigitOf(char) == SelectInSeq(Numerals, LAMBDA c: c = char) - 1
RECURSIVE Numeral(_)
Numeral(n) == (IF n < 10 THEN <<>> ELSE Numeral(n \div 10)) \o <<Numerals[(n % 10) + 1]>>
Sign(n) == IF n < 0 THEN <<"-">> ELSE <<>>
Shown(n) == Sign(n) \o Numeral(Magnitude(n))

\* What begins behind the blanks and the sign.
Trimmed(text) == LET n == SelectInSeq(text, LAMBDA char: char # " ") IN IF n = 0 THEN <<>> ELSE SubSeq(text, n, Len(text))
HasSign(text) == text # <<>> /\ Head(text) \in {"+", "-"}
Unsigned0(text) == IF HasSign(text) THEN Tail(text) ELSE text
IsMinus(text) == text # <<>> /\ Head(text) = "-"
\* The place behind the digits that begin at n.
Behind(text, n) == LET other == {m \in n .. Len(text) : ~DigitAt(text, m)} IN IF other = {} THEN Len(text) + 1 ELSE Min(other)
Digits(text, from, to) == FoldLeft(LAMBDA v, char: 10 * v + DigitOf(char), 0, SubSeq(text, from, to))
\* strtol: the last there is if it is too large.
Strtol(text) ==
  LET trimmed == Trimmed(text)
      digits == Unsigned0(trimmed)
      limit == IF IsMinus(trimmed) THEN Least("l") ELSE Greatest("l")
      Step(sum, char) == IF sum.over \/ 10 * sum.val + DigitOf(char) > Greatest("l") THEN [over |-> TRUE, val |-> 0]
                         ELSE [over |-> FALSE, val |-> 10 * sum.val + DigitOf(char)]
      sum == FoldLeft(Step, [over |-> FALSE, val |-> 0], SubSeq(digits, 1, Behind(digits, 1) - 1))
  IN CASE sum.over -> limit [] ~sum.over /\ IsMinus(trimmed) -> -sum.val [] OTHER -> sum.val

\* strtod: the longest number at the beginning, none is zero.
Names == <<<<"i", "n", "f", "i", "n", "i", "t", "y">>, <<"i", "n", "f">>, <<"n", "a", "n">>>>
\* An exponent is one only with a digit.
Exponent(text, n) ==
  LET sign == n + 1 \in DOMAIN text /\ text[n + 1] \in {"+", "-"}
      first == IF sign THEN n + 2 ELSE n + 1
      value == Digits(text, first, Behind(text, first) - 1)
  IN IF n \in DOMAIN text /\ text[n] = "e" /\ DigitAt(text, first) THEN IF sign /\ text[n + 1] = "-" THEN -value ELSE value ELSE 0
Strtod(text) ==
  LET trimmed == Trimmed(text)
      rest == Unsigned0(trimmed)
      sign == IF IsMinus(trimmed) THEN -1 ELSE 1
      name == SelectInSeq(Names, LAMBDA chars: IsPrefix(chars, rest))
      point == Behind(rest, 1)
      first == IF point \in DOMAIN rest /\ rest[point] = "." THEN point + 1 ELSE point
      end == IF first > point THEN Behind(rest, first) ELSE point
      digits == SubSeq(rest, 1, point - 1) \o SubSeq(rest, first, end - 1)
  IN CASE name \in {1, 2} -> Infinity(sign)
       [] name = 3 -> NaN
       [] name = 0 -> IF digits = <<>> THEN Real(0, 0) ELSE Real(sign * Digits(digits, 1, Len(digits)), end - first - Exponent(rest, end))

\* %g.  The quotient of whole numbers, halves to even.
HalfEven(n, d) == LET q == n \div d IN IF 2 * (n % d) > d \/ (2 * (n % d) = d /\ q % 2 = 1) THEN q + 1 ELSE q
\* A number without a sign, to so many places.
ToPlaces(r, places) == IF places >= r.places THEN Units(r, places) ELSE HalfEven(r.num, 10 ^ (r.places - places))
\* Mutant of Significant: 999.9 stays below 10^3, though its first three digits are those of 1000.
SignificantBefore(r) ==
  LET exp == Len(Numeral(r.num)) - 1 - r.places IN [exp |-> IF r.num = 0 THEN 0 ELSE exp, digits |-> ToPlaces(r, Precision - 1 - exp)]
\* Its first digits, and the exponent that it has then.
Significant(r) ==
  LET exp == Len(Numeral(r.num)) - 1 - r.places
      digits == ToPlaces(r, Precision - 1 - exp)
  IN CASE r.num = 0 -> [exp |-> 0, digits |-> 0]
       [] r.num > 0 /\ digits = 10 ^ Precision -> [exp |-> exp + 1, digits |-> digits \div 10]
       [] OTHER -> [exp |-> exp, digits |-> digits]
Padded(n, width) == LET digits == Numeral(n) IN [i \in 1 .. Max({0, width - Len(digits)}) |-> "0"] \o digits
WithoutZeros(digits) == LET last == SelectLastInSeq(digits, LAMBDA char: char # "0") IN SubSeq(digits, 1, last)
\* A whole number as a fraction with so many places, no zero at the end and no point without a digit.
Fraction(n, places) ==
  LET digits == Padded(n, places + 1)
      after == WithoutZeros(SubSeq(digits, Len(digits) - places + 1, Len(digits)))
  IN SubSeq(digits, 1, Len(digits) - places) \o IF after = <<>> THEN <<>> ELSE <<".">> \o after
FormatG(r) ==
  LET positive == [r EXCEPT !.num = Magnitude(r.num)]
      first == Significant(positive)
      places == Precision - 1 - first.exp
  IN CASE r.is = "nan" -> <<"N", "a", "N">>
       [] r.is = "inf" -> (IF r.num < 0 THEN <<"-">> ELSE <<"+">>) \o <<"I", "n", "f">>
       [] r.is = "real" /\ first.exp \in -4 .. Precision - 1 -> Sign(r.num) \o Fraction(ToPlaces(positive, places), places)
       [] OTHER -> Sign(r.num) \o Fraction(first.digits, Precision - 1) \o <<"e", IF first.exp < 0 THEN "-" ELSE "+">> \o Padded(Magnitude(first.exp), 2)

-----------------------------------------------------------------------------
(* Conversions, by the letters of the two kinds.                                *)

Converted(from, to, v) ==
  CASE to = "c" -> IF from = "f" THEN FormatG(v) ELSE Shown(v)
    [] from = "c" /\ to = "f" -> Strtod(v)
    [] from = "c" /\ to \in {"w", "l"} -> Clamp(to, Strtol(v))
    [] from = "f" /\ to \in {"w", "l"} -> Rounded(to, v)
    [] to = "f" /\ from \in {"w", "l"} -> Real(v, 0)
    [] "s" \in {from, to} -> Fit("s", v)
    [] from \in {"b", "w", "l"} /\ to \in {"b", "w", "l"} -> Fit(to, v)

-----------------------------------------------------------------------------
(* An operation with its operands.                                              *)

Computed(o) ==
  CASE o.op = "cvt"    -> Done(Converted(o.from, o.to, o.v))
    [] o.op = "branch" -> Branches(o.rel, o.kind, o.s, o.m)
    [] o.op = "int"    -> Calculate(o.fn, o.kind, o.m, o.s)
    [] o.op = "cvtfx"  -> Fixed(o.r, o.scale)
    [] o.op = "cvtxf"  -> Done(RealTimes(Real(o.x, 0), o.scale))
    [] o.op = "mulx"   -> Mulx(o.x, o.y, o.p)
    [] o.op = "mulx0"  -> Mulx0(o.x, o.y, o.p, o.a)
    [] o.op = "mulx1"  -> Mulx1(o.x, o.y, o.p, o.a)
    [] o.op = "divx"   -> Divx(o.x, o.y, o.p)
    [] o.op = "divx0"  -> Divx0(o.x, o.y, o.p, o.a)
    [] o.op = "divx1"  -> Divx1(o.x, o.y, o.p, o.a)
    [] o.op = "cvtxx"  -> Cvtxx(o.x, o.p)
    [] o.op = "cvtxx0" -> Cvtxx0(o.x, o.p, o.a)
    [] o.op = "cvtxx1" -> Cvtxx1(o.x, o.p, o.a)
=============================================================================
