----------------------------- MODULE NumberMeaning -----------------------------
(* What the operations of Numbers are for: the bits that they move, the exact   *)
(* numbers that they come near, the texts that they read and write.             *)
EXTENDS Numbers

-----------------------------------------------------------------------------
(* Whole numbers.                                                               *)

HasBit(v, n) == (v \div 2 ^ n) % 2 = 1
\* A shift moves every bit; behind them come zeros, or the sign.
Moved(fn, kind, m, count, n) ==
  LET from == IF fn = "shl" THEN n - count ELSE n + count
  IN CASE from < 0 -> FALSE
       [] from \in 0 .. BitsOf(kind) - 1 -> HasBit(m, from)
       [] from >= BitsOf(kind) -> fn = "shr" /\ m < 0
IsShifted(o, v) == \A n \in 0 .. BitsOf(o.kind) - 1 : HasBit(v, n) = Moved(o.fn, o.kind, o.m, o.s % BitsOf(o.kind), n)
\* Every power is m times the one before it; what is less than one is cut off.
IsPower(o, v) ==
  LET product == IF o.s = 0 THEN 1 ELSE Fit(o.kind, o.m * Power(o.kind, o.m, Magnitude(o.s) - 1))
  IN IF o.s >= 0 THEN v = product ELSE v = IF product \in {-1, 1} THEN product ELSE 0
IsByte(o, v) ==
  /\ v \in 0 .. Greatest("b")
  /\ CASE o.fn = "add" -> (v - o.m - o.s) % (Greatest("b") + 1) = 0
       [] o.fn = "sub" -> (v - o.m + o.s) % (Greatest("b") + 1) = 0
       [] o.fn = "mul" -> (v - o.m * o.s) % (Greatest("b") + 1) = 0
       [] o.fn = "div" -> o.m - v * o.s \in 0 .. o.s - 1
       [] o.fn = "mod" -> v < o.s /\ (o.m - v) % o.s = 0
       [] o.fn = "and" -> \A n \in 0 .. BitsOf("b") - 1 : HasBit(v, n) = (HasBit(o.m, n) /\ HasBit(o.s, n))
       [] o.fn = "or"  -> \A n \in 0 .. BitsOf("b") - 1 : HasBit(v, n) = (HasBit(o.m, n) \/ HasBit(o.s, n))
       [] o.fn = "xor" -> \A n \in 0 .. BitsOf("b") - 1 : HasBit(v, n) = (HasBit(o.m, n) # HasBit(o.s, n))
IsInt(o, result) ==
  IF o.fn \in {"div", "mod"} /\ o.s = 0 THEN result.raised = "zero divide"
  ELSE /\ result.raised = ""
       /\ CASE o.fn \in {"shl", "shr", "lsr"} -> IsShifted(o, result.val)
            [] o.fn = "exp" -> IsPower(o, result.val)
            [] OTHER -> IsByte(o, result.val)

-----------------------------------------------------------------------------
(* Order.  Numbers as whole numbers of thousandths, beyond all of which the     *)
(* infinities lie, strings of up to four characters as numerals.                *)

Rank(kind, v) ==
  CASE kind = "f" -> IF v.is = "inf" THEN v.num * 10 ^ 8 ELSE Units(v, 3)
    [] kind = "c" -> FoldFunction(+, 0, [n \in 1 .. 4 |-> IF n \in DOMAIN v THEN v[n] * 10 ^ (4 - n) ELSE 0])
    [] OTHER -> v
IsOrder(o, taken) ==
  IF o.kind = "f" /\ NaN \in {o.s, o.m} THEN taken = (o.rel = "bne")
  ELSE taken = (Rank(o.kind, o.s) - Rank(o.kind, o.m) \in
                  CASE o.rel = "beq" -> {0} [] o.rel = "bne" -> Int \ {0} [] o.rel = "blt" -> Int \ Nat
                    [] o.rel = "bge" -> Nat [] o.rel = "bgt" -> Nat \ {0} [] o.rel = "ble" -> (Int \ Nat) \cup {0})

-----------------------------------------------------------------------------
(* Fixed point: top / bottom is what is meant.                                  *)

Dividing(o) == o.op \in {"divx", "divx0", "divx1"}
Rounding(o) == o.op \in {"mulx1", "divx1", "cvtxx1"}
ScaleOf(o) == IF Rounding(o) THEN o.p \div 4 ELSE o.p
AwayFromZero(o) == Rounding(o) /\ HasBit(o.p, 1)
Factor(o) == IF "a" \in DOMAIN o /\ o.a # 0 THEN o.a ELSE 1
Other(o) == IF "y" \in DOMAIN o THEN o.y ELSE 1
Top(o) == o.x * (IF Dividing(o) THEN Factor(o) ELSE Other(o)) * 2 ^ Max({0, ScaleOf(o)}) * (IF Dividing(o) /\ o.y < 0 THEN -1 ELSE 1)
Bottom(o) == (IF Dividing(o) THEN Magnitude(o.y) ELSE Factor(o)) * 2 ^ Max({0, -ScaleOf(o)})
TowardZero(top, bottom) == Quotient(top, bottom)
Away(top, bottom) == IF top % bottom = 0 THEN top \div bottom ELSE TowardZero(top, bottom) + IF top < 0 THEN -1 ELSE 1
\* What has no place in the word is not looked at.
Fits(o) == Top(o) \in Least("l") .. Greatest("l") /\ Away(Top(o), Bottom(o)) \in Least("w") + 1 .. Greatest("w") - 1
IsFixed(o, v) ==
  LET top == Top(o)
      bottom == Bottom(o)
  IN CASE o.op \in {"mulx", "cvtxx"} -> v = top \div bottom
       [] Rounding(o) /\ ~AwayFromZero(o) -> v = TowardZero(top, bottom)
       [] AwayFromZero(o) /\ ~Dividing(o) -> v = Away(top, bottom)
       [] AwayFromZero(o) /\ Dividing(o) ->   \* past it, by at most one
            IF top = 0 THEN v = 0 ELSE (v < 0) = (top < 0) /\ Magnitude(v) * bottom - Magnitude(top) \in 1 .. bottom
       [] OTHER -> Magnitude(v * bottom - top) < bottom
IsFixedPoint(o, result) ==
  IF Dividing(o) /\ o.y = 0 THEN result.raised = "fixed-point division by zero"
  ELSE result.raised = "" /\ (Fits(o) => IsFixed(o, result.val))

-----------------------------------------------------------------------------
(* Text.  How a text begins with a number: blanks up to i, a sign up to j,      *)
(* digits up to k, with a point up to l, an exponent up to n.                   *)

Are(text, from, to, chars) == \A n \in from .. to : text[n] \in chars
DigitChars == ToSet(Numerals)
ValueOf(text, from, to) == MapThenSumSet(LAMBDA n: (CHOOSE d \in 0 .. 9 : Numerals[d + 1] = text[n]) * 10 ^ (to - n), from .. to)
SignOf(text, i, j) == IF j > i /\ text[j] = "-" THEN -1 ELSE 1
Signs(text, i) == {i} \cup {j \in {i + 1} \cap DOMAIN text : text[j] \in {"+", "-"}}
Wholes(text) ==
  {w \in [i : 0 .. Len(text), j : 0 .. Len(text), k : 0 .. Len(text)] :
     w.i <= w.j /\ w.j < w.k /\ Are(text, 1, w.i, {" "}) /\ w.j \in Signs(text, w.i) /\ Are(text, w.j + 1, w.k, DigitChars)}
LastWhole(text) == CHOOSE w \in Wholes(text) : \A other \in Wholes(text) : other.k <= w.k
ReadsInt(text, kind, v) ==
  IF Wholes(text) = {} THEN v = 0
  ELSE LET w == LastWhole(text) IN v = Clamp(kind, SignOf(text, w.i, w.j) * ValueOf(text, w.j + 1, w.k))

\* Of a text that begins in digits, a point or a name: where its digits end, those behind the point, the exponent.
Begins(rest) == {n \in 0 .. Len(rest) : Are(rest, 1, n, DigitChars)}
Fractions(rest, k) == {k} \cup {l \in k + 1 .. Len(rest) : rest[k + 1] = "." /\ Are(rest, k + 2, l, DigitChars)}
Exponents(rest, l) ==
  {[n |-> l, e |-> 0]} \cup
  {[n |-> n, e |-> SignOf(rest, l + 1, j) * ValueOf(rest, j + 1, n)] :
     <<j, n>> \in {<<j, n>> \in (l + 1 .. Len(rest)) \X (l + 2 .. Len(rest)) :
                    rest[l + 1] = "e" /\ j \in Signs(rest, l + 1) /\ j < n /\ Are(rest, j + 1, n, DigitChars)}}
Reals(rest) ==
  UNION {UNION {{[n |-> x.n, val |-> Real(ValueOf(rest, 1, k) * 10 ^ Max({0, l - k - 1}) + ValueOf(rest, k + 2, l), Max({0, l - k - 1}) - x.e)] :
                   x \in Exponents(rest, l)} : l \in {l \in Fractions(rest, k) : k > 0 \/ l > k + 1}} : k \in Begins(rest)}
SameReal(a, b) == a.is = b.is /\ LET places == Max({a.places, b.places}) IN Units(a, places) = Units(b, places)
Negated(r, sign) == [r EXCEPT !.num = sign * r.num]
ReadsReal(text, r) ==
  LET blanks == CHOOSE i \in 0 .. Len(text) : Are(text, 1, i, {" "}) /\ (i < Len(text) => text[i + 1] # " ")
      j == Max(Signs(text, blanks))
      rest == SubSeq(text, j + 1, Len(text))
      Called(n) == IsPrefix(Names[n], rest)
  IN CASE Called(2) -> r = Infinity(SignOf(text, blanks, j))
       [] Called(3) -> r.is = "nan"
       [] ~Called(2) /\ ~Called(3) ->
            IF Reals(rest) = {} THEN SameReal(r, Real(0, 0))
            ELSE \E best \in Reals(rest) : (\A other \in Reals(rest) : other.n <= best.n) /\ SameReal(r, Negated(best.val, SignOf(text, blanks, j)))

\* %g: the nearest with so many digits, an even one of two, written without needless zeros, and
\* with an exponent if what is written is very large or very small.
DigitsIn(n) == CHOOSE count \in 1 .. 9 : n < 10 ^ count /\ \A fewer \in 1 .. count - 1 : n >= 10 ^ fewer
Magnitude10(r) == DigitsIn(Magnitude(r.num)) - 1 - r.places
IsNearest(r, written) ==
  LET places == Max({r.places, written.places})
      a == Units(r, places)
      b == Units(written, places)
      last == places + Magnitude10(r) - Precision + 1
  IN IF last <= 0 THEN a = b
     ELSE /\ b % 10 ^ last = 0 /\ 2 * Magnitude(a - b) <= 10 ^ last
          /\ 2 * Magnitude(a - b) = 10 ^ last => (b \div 10 ^ last) % 2 = 0
IsShort(text, written) ==
  LET e == SelectInSeq(text, LAMBDA char: char = "e")
      mantissa == IF e = 0 THEN text ELSE SubSeq(text, 1, e - 1)
      first == IF Head(text) = "-" THEN 2 ELSE 1
  IN /\ (e = 0) = (Magnitude10(written) \in -4 .. Precision - 1 \/ written.num = 0)
     /\ "." \in ToSet(mantissa) => Last(mantissa) \notin {"0", "."}
     /\ text[first] = "0" => first = Len(text) \/ text[first + 1] = "."
     /\ e > 0 => text[first] # "0" /\ Len(text) >= e + 3 /\ ("." \in ToSet(text) => text[first + 1] = ".") /\ ("." \notin ToSet(text) => e = first + 1)
ShowsReal(r, text) ==
  CASE r.is = "nan" -> text = <<"N", "a", "N">>
    [] r.is = "inf" -> text = <<IF r.num < 0 THEN "-" ELSE "+", "I", "n", "f">>
    [] r.is = "real" -> LET written == Strtod(text) IN ReadsReal(text, written) /\ IsNearest(r, written) /\ IsShort(text, written)
ShowsInt(v, text) == ReadsInt(text, "l", v) /\ (Head(text) = "-") = (v < 0) /\ Len(text) = DigitsIn(Magnitude(v)) + Cardinality({"-"} \cap ToSet(text))

-----------------------------------------------------------------------------
(* Conversions.                                                                 *)

\* The nearest whole number, the one that is farther from zero of two.
IsRounded(kind, r, v) ==
  LET one == 10 ^ r.places
      off == r.num - v * one
  IN CASE r.is = "nan" -> v = 0
       [] r.is = "inf" -> v = IF r.num < 0 THEN Least(kind) ELSE Greatest(kind)
       [] OTHER -> \/ v = Greatest(kind) /\ off > 0
                   \/ v = Least(kind) /\ off < 0
                   \/ 2 * Magnitude(off) < one
                   \/ 2 * Magnitude(off) = one /\ Magnitude(v * one) > Magnitude(r.num)
\* A product: exact where both are finite; beyond all numbers, on the side that the signs say, where
\* one is endless; and none where the other is zero then.  A word has its last value for what is beyond.
IsNone(a, b) == NaN \in {a, b} \/ (a.is = "inf" /\ b.num = 0) \/ (b.is = "inf" /\ a.num = 0)
IsEndless(a, b) == ~IsNone(a, b) /\ (a.is = "inf" \/ b.is = "inf")
BelowZero(a, b) == (a.num < 0) # (b.num < 0)
ExactProduct(r, by) == [is |-> "real", num |-> Units(r, 3) * Units(by, 2), places |-> 5]
IsWordOf(r, scale, v) ==
  CASE IsNone(r, scale) -> v = 0
    [] IsEndless(r, scale) -> v = IF BelowZero(r, scale) THEN Least("w") ELSE Greatest("w")
    [] OTHER -> IsRounded("w", ExactProduct(r, scale), v)
IsRealOf(x, scale, v) ==
  CASE IsNone(x, scale) -> v.is = "nan"
    [] IsEndless(x, scale) -> v.is = "inf" /\ (v.num < 0) = BelowZero(x, scale)
    [] OTHER -> v.is = "real" /\ Units(v, 4) = x.num * Units(scale, 4)
IsConverted(o, v) ==
  CASE o.to = "c" -> IF o.from = "f" THEN ShowsReal(o.v, v) ELSE ShowsInt(o.v, v)
    [] o.from = "c" -> IF o.to = "f" THEN ReadsReal(o.v, v) ELSE ReadsInt(o.v, o.to, v)
    [] o.from = "f" -> IsRounded(o.to, o.v, v)
    [] o.to = "f" -> v.is = "real" /\ v.num = o.v * 10 ^ v.places
    [] OTHER -> LET kind == IF o.from = "s" THEN "s" ELSE o.to IN v \in Least(kind) .. Greatest(kind) /\ (v - o.v) % 2 ^ BitsOf(kind) = 0

Means(o, result) ==
  CASE o.op = "int"    -> IsInt(o, result)
    [] o.op = "branch" -> IsOrder(o, result.val)
    [] o.op = "cvt"    -> IsConverted(o, result.val)
    [] o.op = "cvtfx"  -> IsWordOf(o.r, o.scale, result.val)
    [] o.op = "cvtxf"  -> IsRealOf(Real(o.x, 0), o.scale, result.val)
    [] OTHER -> IsFixedPoint(o, result)

-----------------------------------------------------------------------------
(* Operations of Numbers on the operands at which they may go wrong: where a    *)
(* width ends, on both sides of zero and of a half, around the digits that %g    *)
(* still shows, and texts that are a number only in part.                        *)

AllBytes == 0 .. 3
Words == {-128, -127, -7, -3, -1, 0, 1, 2, 3, 5, 16, 127}
Bigs == {-32768, -129, -1, 0, 1, 300, 32767}
Ints(fns, kind, ms, ss) == [op : {"int"}, fn : fns, kind : {kind}, m : ms, s : ss]
OnInts ==
  <<Ints({"add", "sub", "mul", "div", "mod", "and", "or", "xor", "shl", "shr"}, "b", AllBytes, AllBytes),
    Ints({"shl", "shr", "lsr"}, "w", Words, Words), Ints({"shl", "shr", "lsr"}, "l", Bigs, Words),
    Ints({"exp"}, "w", {-128, -3, -1, 0, 1, 2, 5, 16}, -128 .. 127), Ints({"exp"}, "l", {-32768, -5, 2, 7, 300}, -3 .. 20)>>

SomeReals ==
  {NaN, Infinity(1), Infinity(-1), Real(0, 0), Real(0, 2), Real(5, 1), Real(-525, 2), Real(-5250, 3), Real(5249, 3), Real(7, 0)}
Strings == {<<>>, <<1>>, <<1, 2>>, <<2>>, <<1, 1>>, <<1, 2, 1>>, <<9, 9, 9, 9>>}
Branching(kind, values) ==
  [op : {"branch"}, rel : {"beq", "bne", "blt", "ble", "bgt", "bge"}, kind : {kind}, s : values, m : values]
Branchings == <<Branching("b", AllBytes), Branching("w", Words), Branching("f", SomeReals), Branching("c", Strings)>>

Factors == {-10, -4, -1, 0, 1, 3, 9}
Scales == {-15, -5, -2, -1, 0, 1, 3, 14}
Divisors == {0, 1, 3}
\* The first flag asks for rounding where a scale loses digits.
RoundedScales == {(4 * scale) + (2 * v) + (IF scale < 0 THEN 1 ELSE 0) : scale \in Scales \ {-15}, v \in {0, 1}}
RealScales == {Real(1, 0), Real(25, 1), Real(-4, 0), Real(1, 2), Real(-1, 2), Real(0, 0), NaN, Infinity(1), Infinity(-1)}
OnFixed ==
  <<[op : {"mulx", "divx"}, x : Factors, y : Factors, p : Scales],
    [op : {"mulx0", "divx0"}, x : Factors, y : Factors, p : Scales, a : Divisors],
    [op : {"mulx1", "divx1"}, x : Factors, y : Factors, p : RoundedScales, a : Divisors \ {0}],
    [op : {"cvtxx"}, x : Words, p : Scales], [op : {"cvtxx0"}, x : Words, p : Scales, a : Divisors],
    [op : {"cvtxx1"}, x : Words, p : RoundedScales, a : Divisors \ {0}],
    [op : {"cvtfx"}, r : SomeReals, scale : RealScales],
    [op : {"cvtxf"}, x : Words, scale : RealScales]>>

Halves ==
  {Real(n, 1) : n \in {-5, -4, 4, 5, 6, 14, 15, 25, -25, 1274, 1275, -1286, 3000, 327674, -400000}}
    \cup {NaN, Infinity(1), Infinity(-1), Real(49, 2), Real(3, 0)}
Shorts == Words \cup {7, 8, -8, -9}
Turning(from, to, values) == [op : {"cvt"}, from : {from}, to : {to}, v : values]
Turnings ==
  <<Turning("b", "w", AllBytes), Turning("w", "b", Words), Turning("w", "s", Shorts), Turning("s", "w", Shorts),
    Turning("w", "l", Words), Turning("l", "w", Bigs), Turning("f", "w", Halves), Turning("f", "l", Halves),
    Turning("w", "f", Words), Turning("l", "f", Bigs), Turning("w", "c", Words), Turning("l", "c", Bigs)>>

Begun == {<<>>, <<" ", " ">>, <<"-">>, <<" ", "+">>, <<"-", "-">>, <<"+", " ">>}
Middle ==
  {<<>>, <<"7">>, <<"1", "2", "8">>, <<"0", "3", "2", "7", "6", "8">>, <<"3", "2", "7", "6", "7">>, <<"9", "9", "9", "9", "9", "9">>,
   <<"1", ".", "5">>, <<".", "2", "5">>, <<".">>, <<"3", ".">>, <<"i", "n", "f">>, <<"n", "a", "n">>}
Ended ==
  {<<>>, <<"x">>, <<"e">>, <<"e", "2">>, <<"e", "-", "1">>, <<"e", "+">>, <<" ", "5">>, <<".", "4">>, <<"i", "n", "i", "t", "y">>}
SomeTexts == {a \o b \o c : a \in Begun, b \in Middle, c \in Ended}
ShownReals ==
  {Real(n, places) : n \in {0, 1, -1, 5, 105, 1235, 1245, -1245, 12451, 9994, 9995, 9996, 99949, 99950, 100000, -1000}, places \in 0 .. 8}
    \cup {NaN, Infinity(1), Infinity(-1)}
Readings == <<Turning("c", "w", SomeTexts), Turning("c", "l", SomeTexts), Turning("c", "f", SomeTexts), Turning("f", "c", ShownReals)>>

\* Sets of operations whose operands are of one kind.
Operations == OnInts \o Branchings \o OnFixed \o Turnings \o Readings
=============================================================================
