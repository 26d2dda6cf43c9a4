--------------------------------- MODULE Dis ---------------------------------
(* What the compiler and the interpreter agree on: the operands of an          *)
(* instruction, the widths of what they name, and arithmetic.                  *)
EXTENDS Integers, SequencesExt

CONSTANT WordMax   \* the largest int, 2^31 - 1 in the code
ASSUME WordMaxAssumption == WordMax \in Nat \ {0}

\* An instruction is [op, k, src, mid, dst]; k is the width of what it works on: a word, a big,
\* a pointer, a string, a block.  An operand is a constant, a slot of the frame or of the data of
\* the module, or what the word in a slot of the frame leads to.
Unused == [mode |-> "none", at |-> 0, off |-> 0]
Fp(at) == [mode |-> "fp", at |-> at, off |-> 0]
Mp(at) == [mode |-> "mp", at |-> at, off |-> 0]
Imm(v) == [mode |-> "imm", at |-> v, off |-> 0]
Through(at, off) == [mode |-> "ind", at |-> at, off |-> off]

\* The largest constant an operand holds: two bits fewer than a word has.
OperandMax == (WordMax + 1) \div 4 - 1

Bytes(k) == IF k = "l" THEN 8 ELSE 4
AlignUp(off, align) == ((off + align - 1) \div align) * align

-----------------------------------------------------------------------------
(* Numbers.                                                                    *)

Span(k) == IF k = "l" THEN 4 * (WordMax + 1) * (WordMax + 1) ELSE 2 * (WordMax + 1)
\* Arithmetic wraps at the width of the operands.
Wrap(k, v) == ((v + Span(k) \div 2) % Span(k)) - Span(k) \div 2
Unsigned(k, v) == v % Span(k)
Bits(k) == CHOOSE n \in 1 .. 64 : 2 ^ n = Span(k)
BitOf(fn, a, b) ==
  CASE fn = "and" -> a * b
    [] fn = "or"  -> Max({a, b})
    [] fn = "xor" -> (a + b) % 2
Bitwise(fn, k, a, b) ==
  LET Bit(v, n) == (Unsigned(k, v) \div 2 ^ n) % 2
  IN Wrap(k, FoldSet(LAMBDA n, sum: sum + 2 ^ n * BitOf(fn, Bit(a, n), Bit(b, n)), 0, 0 .. Bits(k) - 1))
Magnitude(v) == IF v < 0 THEN -v ELSE v
\* Division truncates toward zero.
Quotient(a, b) == LET q == Magnitude(a) \div Magnitude(b) IN IF (a < 0) = (b < 0) THEN q ELSE -q
\* m op s; the count of a shift is taken modulo the width.
Arith(fn, k, m, s) ==
  CASE fn = "add" -> Wrap(k, m + s)
    [] fn = "sub" -> Wrap(k, m - s)
    [] fn = "mul" -> Wrap(k, m * s)
    [] fn = "div" -> Wrap(k, Quotient(m, s))
    [] fn = "mod" -> m - s * Quotient(m, s)
    [] fn = "shl" -> Wrap(k, m * 2 ^ (s % Bits(k)))
    [] fn = "shr" -> m \div 2 ^ (s % Bits(k))
    [] fn \in {"and", "or", "xor"} -> Bitwise(fn, k, m, s)
Compares(op, a, b) ==
  CASE op = "beq" -> a = b
    [] op = "bne" -> a # b
    [] op = "blt" -> a < b
    [] op = "bgt" -> a > b
    [] op = "ble" -> a <= b
    [] op = "bge" -> a >= b

=============================================================================
