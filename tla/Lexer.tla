-------------------------------- MODULE Lexer --------------------------------
(* The lexer of the Limbo compiler (ricevm-limbo, lexer.rs and token.rs).      *)
(* A text is a sequence of [c, v]: c is "word" for a run of letters, "digits"  *)
(* for a run of digits, v says which; any other character is its own c and v.  *)
(* Numbers with a radix or an exponent and escapes by code are left out.       *)
EXTENDS Integers, SequencesExt, TLC

Token(t, v) == [t |-> t, v |-> v]
Mark(t) == Token(t, t)

Keywords ==
  {"adt", "alt", "array", "big", "break", "byte", "case", "chan", "con", "continue", "cyclic", "do", "else",
   "exception", "exit", "fn", "for", "hd", "if", "implement", "import", "include", "int", "iota", "len", "list",
   "load", "module", "nil", "of", "or", "pick", "raise", "real", "ref", "return", "self", "spawn", "string",
   "tagof", "tl", "to", "type", "while"}
Symbols ==
  {"+", "++", "+=", "-", "--", "-=", "->", "*", "**", "*=", "/", "/=", "%", "%=", "&", "&&", "&=", "|", "||", "|=",
   "^", "^=", "~", "!", "!=", "<", "<<", "<<=", "<=", "<-", "<-=", ">", ">>", ">>=", ">=", "=", "==", "=>",
   ":", ":=", "::", "(", ")", "[", "]", "{", "}", ",", ".", ";"}
Blanks == {" ", "\t", "\n"}
Escapes == [n |-> "\n", t |-> "\t", r |-> "\r", a |-> "BEL", b |-> "BS", f |-> "\f", v |-> "VT"]

\* What begins at i, "" past the end.
Char(text, i) == IF i <= Len(text) THEN text[i].c ELSE ""
\* The first place from i on that has none of these any more, and the first that has one.
Past(text, i, chars) ==
  CHOOSE n \in i .. Len(text) + 1 : Char(text, n) \notin chars /\ \A m \in i .. n - 1 : Char(text, m) \in chars
Until(text, i, chars) ==
  CHOOSE n \in i .. Len(text) + 1 : Char(text, n) \in chars /\ \A m \in i .. n - 1 : Char(text, m) \notin chars

RECURSIVE SkipBlanks(_, _)
SkipBlanks(text, i) ==
  CASE Char(text, i) \in Blanks -> SkipBlanks(text, i + 1)
    [] Char(text, i) = "#"      -> SkipBlanks(text, Until(text, i, {"\n", ""}))
    [] OTHER                    -> i

\* A token, and where the text goes on; 0 where there is no token.
Found(token, next) == [token |-> token, next |-> next]
NoToken == Found(Mark("error"), 0)

\* Letters and digits from the first letter on.
WordAt(text, i) ==
  LET end == Past(text, i, {"word", "digits"})
      word == FoldLeft(LAMBDA s, e: s \o (IF e.c = "word" THEN e.v ELSE ToString(e.v)), "", SubSeq(text, i, end - 1))
  IN Found(IF word \in Keywords THEN Mark(word) ELSE Token("ident", word), end)
\* A dot ends the digits before it and makes them a real, whatever comes next.
NumberAt(text, i) ==
  IF Char(text, i + 1) # "." THEN Found(Token("int literal", text[i].v), i + 1)
  ELSE IF Char(text, i + 2) = "digits" THEN Found(Token("real literal", <<text[i].v, text[i + 2].v>>), i + 3)
  ELSE Found(Token("real literal", <<text[i].v, 0>>), i + 2)

\* What stands at i between quotes, one element or an escape.
Quoted(text, i) ==
  IF Char(text, i) # "\\" THEN Found(text[i], i + 1)
  ELSE IF Char(text, i + 1) = "word" /\ text[i + 1].v \in DOMAIN Escapes
  THEN Found([c |-> Escapes[text[i + 1].v], v |-> Escapes[text[i + 1].v]], i + 2)
  ELSE IF Char(text, i + 1) = "digits" /\ text[i + 1].v = 0 THEN Found([c |-> "NUL", v |-> "NUL"], i + 2)
  ELSE Found(IF i < Len(text) THEN text[i + 1] ELSE [c |-> "NUL", v |-> "NUL"], i + 2)
RECURSIVE StringFrom(_, _, _)
StringFrom(text, i, s) ==
  CASE Char(text, i) = ""   -> NoToken
    [] Char(text, i) = "\"" -> Found(Token("string literal", s), i + 1)
    [] OTHER -> StringFrom(text, Quoted(text, i).next, Append(s, Quoted(text, i).token))
CharAt(text, i) ==
  IF i > Len(text) \/ Char(text, Quoted(text, i).next) # "'" THEN NoToken
  ELSE Found(Token("char literal", Quoted(text, i).token), Quoted(text, i).next + 1)

\* The longest operator that begins at i.
Spelled(text, i, n) == FoldLeft(LAMBDA s, e: s \o e.c, "", SubSeq(text, i, i + n - 1))
Longest(lengths) == CHOOSE n \in lengths : \A m \in lengths : m <= n
SymbolAt(text, i) ==
  LET lengths == {n \in 1 .. 3 : i + n - 1 <= Len(text) /\ Spelled(text, i, n) \in Symbols}
      n == Longest(lengths)
  IN IF lengths = {} THEN NoToken ELSE Found(Mark(Spelled(text, i, n)), i + n)

TokenAt(text, i) ==
  CASE Char(text, i) = ""       -> Found(Mark("eof"), i)
    [] Char(text, i) = "." /\ Char(text, i + 1) = "digits" -> Found(Token("real literal", <<0, text[i + 1].v>>), i + 2)
    [] Char(text, i) = "word"   -> WordAt(text, i)
    [] Char(text, i) = "digits" -> NumberAt(text, i)
    [] Char(text, i) = "\""     -> StringFrom(text, i + 1, <<>>)
    [] Char(text, i) = "'"      -> CharAt(text, i + 1)
    [] OTHER                    -> SymbolAt(text, i)

\* All tokens, the last is "eof", or "error" where the text has none.  There are no more than
\* characters, and an end; they are taken in halves, as that nests less deeply than one by one.
WithToken(done) ==
  LET found == TokenAt(done.text, SkipBlanks(done.text, done.next))
  IN [done EXCEPT !.tokens = Append(@, found.token), !.next = IF found.token.t \in {"eof", "error"} THEN 0 ELSE found.next]
RECURSIVE WithTokens(_, _)
WithTokens(done, n) ==
  LET half == WithTokens(done, n \div 2)
  IN CASE n = 1 -> WithToken(done)
       [] n > 1 -> IF half.next = 0 THEN half ELSE WithTokens(half, n - n \div 2)
Tokenize(text) == WithTokens([text |-> text, next |-> 1, tokens |-> <<>>], Len(text) + 1).tokens
Unreadable(tokens) == Last(tokens).t = "error"
=============================================================================
