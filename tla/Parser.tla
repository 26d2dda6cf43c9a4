-------------------------------- MODULE Parser --------------------------------
(* The parser of the Limbo compiler (ricevm-limbo, parser.rs): recursive       *)
(* descent, binding powers for the operators, and lookahead of a bounded       *)
(* number of tokens where an arm may begin.  The state is [ts, at, ok, val]:   *)
(* the tokens, the next one, whether nothing failed yet, and what was parsed   *)
(* last.  After a failure the state stays what it is.                          *)
EXTENDS Syntax

-----------------------------------------------------------------------------
(* The cursor.                                                                 *)

KindAhead(p, n) == IF p.at + n <= Len(p.ts) THEN p.ts[p.at + n].t ELSE "eof"
Kind(p) == IF p.ok THEN KindAhead(p, 0) ELSE "failed"
Ended == {"eof", "failed"}
Skip(p) == IF p.ok /\ p.at < Len(p.ts) THEN [p EXCEPT !.at = @ + 1] ELSE p
Fail(p) == [p EXCEPT !.ok = FALSE]
Yield(p, val) == IF p.ok THEN [p EXCEPT !.val = val] ELSE p
Expect(p, kind) == IF Kind(p) = kind THEN Skip(p) ELSE Fail(p)
ExpectIdent(p) == IF Kind(p) = "ident" THEN Yield(Skip(p), p.ts[p.at].v) ELSE Fail(p)
SkipIf(p, kinds) == IF Kind(p) \in kinds THEN Skip(p) ELSE p
\* The first token ahead, after the next one, that is none of these.
Beyond(p, kinds) ==
  CHOOSE n \in 1 .. Len(p.ts) : KindAhead(p, n) \notin kinds /\ \A m \in 1 .. n - 1 : KindAhead(p, m) \in kinds

\* A star is the wildcard of an arm only if the arm begins or goes on after it.
AtStar(p) == Kind(p) = "*"   \* a statement may begin with a star too
AtWildcardArm(p) == Kind(p) = "*" /\ KindAhead(p, 1) \in {"=>", "or"}

\* Type parameters, and the clauses that only they need, are skipped.
RECURSIVE SkipTo(_, _), Balanced(_, _)
SkipTo(p, close) == IF Kind(p) \in {close} \cup Ended THEN SkipIf(p, {close}) ELSE SkipTo(Skip(p), close)
SkipTypeParams(p) == IF Kind(p) = "[" THEN SkipTo(Skip(p), "]") ELSE p
SkipAdtHeader(p) ==
  LET q == SkipTypeParams(p) IN IF Kind(q) = "for" THEN SkipTo(Expect(Skip(q), "{"), "}") ELSE q
\* Up to the brace that closes the one before the cursor.
Balanced(p, depth) ==
  IF depth = 0 \/ Kind(p) \in Ended THEN p
  ELSE Balanced(Skip(p), CASE Kind(p) = "{" -> depth + 1 [] Kind(p) = "}" -> depth - 1 [] OTHER -> depth)

-----------------------------------------------------------------------------
(* Where an arm begins.                                                        *)

CaseLookahead == 60
AltLookahead == 30
Headwords == {"if", "for", "while", "do", "case", "return", "break", "continue", "exit", "spawn", "raise", "alt", "pick"}

RECURSIVE ArrowAhead(_, _, _)
ArrowAhead(p, n, depth) ==
  LET kind == KindAhead(p, n)
  IN /\ n < CaseLookahead
     /\ p.at + n <= Len(p.ts)
     /\ CASE kind \in {"(", "[", "{"} -> ArrowAhead(p, n + 1, depth + 1)
          [] kind \in {")", "]", "}"} -> depth > 0 /\ ArrowAhead(p, n + 1, depth - 1)
          [] kind = "=>" /\ depth = 0 -> TRUE
          [] OTHER -> ~(depth = 0 /\ kind \in Headwords \cup {";"}) /\ ArrowAhead(p, n + 1, depth)
CasePatternStarts(p) ==
  \/ AtWildcardArm(p)
  \/ Kind(p) \notin Headwords \cup {"{", ";"} /\ (KindAhead(p, 1) = "=>" \/ ArrowAhead(p, 0, 0))
AltGuardStarts(p) ==
  \/ AtWildcardArm(p)
  \/ \E n \in 0 .. AltLookahead - 1 :
       KindAhead(p, n) = "=>" /\ \A m \in 0 .. n - 1 : KindAhead(p, m) \notin {";", "{", "}"}
\* Names with or between them.
PickTagStarts(p) ==
  LET n == Beyond(p, {"or", "ident"})
  IN /\ Kind(p) = "ident" /\ KindAhead(p, n) = "=>"
     /\ \A m \in 1 .. n - 1 : KindAhead(p, m) = "ident" => KindAhead(p, m - 1) = "or"
HandlerStarts(p) ==
  \/ AtWildcardArm(p)
  \/ Kind(p) \in {"string literal", "ident"} /\ KindAhead(p, Beyond(p, {"or", "string literal", "ident", "*"})) = "=>"
FieldStarts(p) == Kind(p) = "ident" /\ KindAhead(p, 1) \in {",", ":"}

LabelStarts(p) ==
  Kind(p) = "ident" /\ KindAhead(p, 1) = ":" /\ KindAhead(p, 2) \in {"for", "while", "do", "case", "alt", "pick", "{"}
TypeStarts == {"int", "byte", "big", "real", "string", "array", "list", "chan", "ref", "fn", "(", "cyclic",
               "import", "con", "type", "self", "ident"}
LocalDeclStarts(p) ==
  LET n == Beyond(p, {",", "ident"})
  IN /\ Kind(p) = "ident" /\ KindAhead(p, n) = ":" /\ KindAhead(p, n + 1) \in TypeStarts
     /\ \A m \in 1 .. n - 1 : KindAhead(p, m) = "ident" => KindAhead(p, m - 1) = ","
\* What the name at the cursor, with its qualifiers and type parameters, is followed by.
RECURSIVE AfterName(_, _)
AfterName(p, n) ==
  CASE KindAhead(p, n) = "." -> AfterName(p, IF KindAhead(p, n + 1) = "ident" THEN n + 2 ELSE n + 1)
    [] KindAhead(p, n) = "[" -> AfterName(p, 1 + CHOOSE m \in n .. Len(p.ts) : KindAhead(p, m) \in {"]", "eof"}
                                                   /\ \A k \in n .. m - 1 : KindAhead(p, k) # "]")
    [] OTHER -> KindAhead(p, n)

-----------------------------------------------------------------------------
(* Lists.  An item is named, and Item parses it; the items of Many are         *)
(* themselves sequences.                                                       *)

RECURSIVE Many(_, _), Joined(_, _, _, _), Parse(_, _, _)
Item(p, what) == Parse(p, what, 0)
Stops(p, what) ==
  \/ Kind(p) \in Ended
  \/ what # "declaration" /\ Kind(p) = "}"
  \/ what = "case statement" /\ CasePatternStarts(p)
  \/ what = "alt statement" /\ AltGuardStarts(p)
  \/ what = "pick statement" /\ (PickTagStarts(p) \/ AtWildcardArm(p))
  \/ what = "handler statement" /\ HandlerStarts(p)
  \/ what = "field" /\ Kind(p) = "ident" /\ ~FieldStarts(p)
\* Items up to where the construct around them goes on.
Many(p, what) ==
  IF Stops(p, what) THEN Yield(p, <<>>)
  ELSE LET first == Item(p, what)
           rest == Many(first, what)
       IN Yield(rest, first.val \o rest.val)
\* At least one item, with separators between them; one may stand before close.
Joined(p, separator, what, close) ==
  LET first == Item(p, what)
      rest == Joined(Skip(first), separator, what, close)
  IN IF Kind(first) # separator THEN Yield(first, <<first.val>>)
     ELSE IF KindAhead(first, 1) \in close THEN Yield(Skip(first), <<first.val>>)
     ELSE Yield(rest, <<first.val>> \o rest.val)
Names(p) == Joined(p, ",", "name", {})
\* Names and a colon.
NamesOf(p) == Expect(Names(p), ":")
Ending(p, kind, val) == LET q == Expect(p, kind) IN Yield(q, val)
PerName(names, Op(_)) == [n \in DOMAIN names |-> Op(names[n])]

-----------------------------------------------------------------------------
(* Types and the heads of functions.                                           *)

ParseType(p) == Item(p, "type")
ParseExprBp(p, min) == Parse(p, "expression", min)
ParseExpr(p) == ParseExprBp(p, 0)

\* Names that share a type go on after a comma while a colon is still to come.
SharesType(p) ==
  LET n == Beyond(p, {",", "ident", "nil"})
  IN /\ KindAhead(p, 1) \in {"ident", "nil"} /\ KindAhead(p, n) = ":" /\ KindAhead(p, n - 1) # ","
     /\ \A m \in 1 .. n - 1 : (KindAhead(p, m) = ",") # (KindAhead(p, m - 1) = ",")
ParamNames(p) ==
  LET name == IF Kind(p) = "nil" THEN Yield(Skip(p), "nil") ELSE ExpectIdent(p)
      rest == Item(Skip(name), "names of parameters")
  IN IF Kind(name) = "," /\ SharesType(name) THEN Yield(rest, <<name.val>> \o rest.val) ELSE Yield(name, <<name.val>>)
Params(p) ==
  LET names == Item(p, "names of parameters")
      colon == Expect(names, ":")
      type == ParseType(SkipIf(colon, {"self"}))
      group == [n \in DOMAIN names.val |-> Param(names.val[n], type.val, Kind(colon) = "self")]
      rest == Item(Skip(type), "parameters")
  IN CASE Kind(p) = ")" -> Yield(p, <<>>)
       [] Kind(p) = "*" -> Yield(Skip(p), <<>>)
       [] OTHER -> IF Kind(type) = "," THEN Yield(rest, group \o rest.val) ELSE Yield(type, group)

\* What it raises, and the clause of its type parameters, are skipped.
AtRaises(p) == Kind(p) = "raise" \/ (Kind(p) = "ident" /\ p.ts[p.at].v = "raises")
SkipRaises(p) ==
  CASE AtRaises(p) /\ KindAhead(p, 1) = "(" -> SkipTo(Skip(Skip(p)), ")")
    [] AtRaises(p) /\ KindAhead(p, 1) # "(" -> SkipIf(Skip(p), {"ident"})
    [] OTHER -> p
SkipForPoly(p) ==
  IF Kind(p) # "for" THEN p ELSE IF KindAhead(p, 1) = "{" THEN SkipTo(Skip(Skip(p)), "}") ELSE Skip(p)
ParseFuncSig(p) ==
  LET start == Expect(IF Kind(p) = "fn" THEN SkipTypeParams(Skip(p)) ELSE p, "(")
      params == Item(start, "parameters")
      close == Expect(IF Kind(params) = "," /\ KindAhead(params, 1) = "*" THEN Skip(Skip(params)) ELSE params, ")")
      ret == IF Kind(close) = ":" THEN ParseType(Skip(close)) ELSE Yield(close, NoType)
      done == SkipForPoly(SkipRaises(ret))
  IN Yield(done, FuncSig("", params.val, ret.val))

ElementType(p) == ParseType(Expect(Skip(p), "of"))
NamedType(p) ==
  LET name == SkipTypeParams(ExpectIdent(p))
      member == SkipTypeParams(ExpectIdent(Skip(name)))
  IN IF Kind(name) \in {"->", "."} THEN Yield(member, NamedT(<<name.val, member.val>>))
     ELSE Yield(name, NamedT(<<name.val, "">>))
TypeForm(p) ==
  LET elem == ElementType(p)
      to == ParseType(Skip(p))
      sig == Item(p, "signature")
      types == Joined(Skip(p), ",", "type", {})
  IN CASE Kind(p) \in Basics -> Yield(Skip(p), Basic(Kind(p)))
       [] Kind(p) = "array"   -> Yield(elem, ArrayT(elem.val))
       [] Kind(p) = "list"    -> Yield(elem, ListT(elem.val))
       [] Kind(p) = "chan"    -> Yield(elem, ChanT(elem.val))
       [] Kind(p) = "ref"     -> Yield(to, Reference(to.val))
       [] Kind(p) = "fn"      -> Yield(sig, FuncT(sig.val.params, sig.val.ret))
       [] Kind(p) = "("       -> Ending(types, ")", IF Len(types.val) = 1 THEN types.val[1] ELSE TupleT(types.val))
       [] Kind(p) = "ident"   -> NamedType(p)
       [] Kind(p) = "self"    -> to
       [] OTHER               -> Fail(p)

-----------------------------------------------------------------------------
(* Expressions.                                                                *)

ConsBp == 7
UnaryBp == 27
\* How tightly an operator holds what is left and right of it, and what it builds.
Binary == [x \in {"|", "^", "&", "==", "!=", "<", ">", "<=", ">=", "<<", ">>", "+", "-", "*", "/", "%", "**"} |->
  CASE x = "|" -> <<9, 10, "or">> [] x = "^" -> <<11, 12, "xor">> [] x = "&" -> <<13, 14, "and">>
    [] x = "==" -> <<15, 16, "eq">> [] x = "!=" -> <<15, 16, "ne">>
    [] x = "<" -> <<17, 18, "lt">> [] x = ">" -> <<17, 18, "gt">> [] x = "<=" -> <<17, 18, "le">> [] x = ">=" -> <<17, 18, "ge">>
    [] x = "<<" -> <<19, 20, "shl">> [] x = ">>" -> <<19, 20, "shr">>
    [] x = "+" -> <<21, 22, "add">> [] x = "-" -> <<21, 22, "sub">>
    [] x = "*" -> <<23, 24, "mul">> [] x = "/" -> <<23, 24, "div">> [] x = "%" -> <<23, 24, "mod">>
    [] x = "**" -> <<26, 25, "pow">>]
Compound == [x \in {"+=", "-=", "*=", "/=", "%=", "&=", "|=", "^=", "<<=", ">>="} |->
  CASE x = "+=" -> "add" [] x = "-=" -> "sub" [] x = "*=" -> "mul" [] x = "/=" -> "div" [] x = "%=" -> "mod"
    [] x = "&=" -> "and" [] x = "|=" -> "or" [] x = "^=" -> "xor" [] x = "<<=" -> "shl" [] x = ">>=" -> "shr"]
\* The arrow of a send may stand apart from its equals sign.
InfixAt(p) == IF Kind(p) = "<-" /\ KindAhead(p, 1) = "=" THEN "<-=" ELSE Kind(p)
SkipInfix(p) == IF Kind(p) = "<-" THEN Skip(Skip(p)) ELSE Skip(p)
Powers(infix) ==
  CASE infix \in DOMAIN Binary -> <<Binary[infix][1], Binary[infix][2]>>
    [] infix = "||" -> <<3, 4>>
    [] infix = "&&" -> <<5, 6>>
    [] infix = "::" -> <<ConsBp, ConsBp>>
    [] infix \in DOMAIN Compound \cup {"=", ":=", "<-="} -> <<1, 1>>
    [] OTHER -> <<-1, -1>>

\* l := r declares the names on its left.
Nameable(e) == e.op \in {"var", "nil"}
NameOf(e) == IF e.op = "nil" THEN "nil" ELSE e.name
Declaring(p, l, r) ==
  CASE l.op = "var" -> Yield(p, DeclE(l.name, r))
    [] l.op = "tuple" /\ \A n \in DOMAIN l.elems : Nameable(l.elems[n]) ->
         Yield(p, TupleDeclE([n \in DOMAIN l.elems |-> NameOf(l.elems[n])], r))
    [] OTHER -> Fail(p)
Combined(p, infix, l, r) ==
  CASE infix \in DOMAIN Binary -> Yield(p, Bin(Binary[infix][3], l, r))
    [] infix \in DOMAIN Compound -> Yield(p, OpSetE(l, Compound[infix], r))
    [] infix = "||"  -> Yield(p, Or(l, r))
    [] infix = "&&"  -> Yield(p, And(l, r))
    [] infix = "::"  -> Yield(p, ConsE(l, r))
    [] infix = "="   -> Yield(p, SetE(l, r))
    [] infix = "<-=" -> Yield(p, SendE(l, r))
    [] infix = ":="  -> Declaring(p, l, r)

\* What stands in brackets or parentheses after an expression, a member, a step.
Bracketed(p, e) ==
  LET lo == IF Kind(p) = ":" THEN Yield(p, Nothing) ELSE ParseExpr(p)
      hi == IF KindAhead(lo, 1) = "]" THEN Yield(Skip(lo), Nothing) ELSE ParseExpr(Skip(lo))
  IN IF Kind(lo) = ":" THEN Ending(hi, "]", SliceE(e, lo.val, hi.val)) ELSE Ending(lo, "]", IndexE(e, lo.val))
Elems(p, what, close) == IF Kind(p) \in close THEN Yield(p, <<>>) ELSE Joined(p, ",", what, close)
Closers == {")", "]", "}"}
Postfix(p) ==
  LET e == p.val
      args == Elems(Skip(p), "argument", Closers)
      member == ExpectIdent(Skip(p))
  IN CASE Kind(p) = "("  -> Ending(args, ")", CallE(e, args.val))
       [] Kind(p) = "."  -> Yield(member, Dot(e, member.val))
       [] Kind(p) = "->" -> Yield(member, ModQual(e, member.val))
       [] Kind(p) = "["  -> Bracketed(Skip(p), e)
       [] Kind(p) = "++" -> Yield(Skip(p), Of("inc", e))
       [] Kind(p) = "--" -> Yield(Skip(p), Of("dec", e))

\* What follows an expression, as far as it holds it more tightly than min.
RECURSIVE Following(_, _)
Following(p, min) ==
  LET infix == InfixAt(p)
      right == ParseExprBp(SkipInfix(p), Powers(infix)[2])
  IN CASE Kind(p) \in {"(", ".", "->", "[", "++", "--"} -> Following(Postfix(p), min)
       [] Powers(infix)[1] >= min -> Following(Combined(right, infix, p.val, right.val), min)
       [] OTHER -> p

\* The operators before an operand, and what they make of it.
PrefixOps == {"+", "++", "--", "*", "-", "!", "~", "hd", "tl", "len", "tagof", "ref", "<-"}
Prefixed(op, e) ==
  CASE op = "+"  -> e
    [] op = "++" -> Of("inc", e)
    [] op = "--" -> Of("dec", e)
    [] op = "-"  -> Un("neg", e)
    [] op = "!"  -> Un("not", e)
    [] op = "~"  -> Un("inv", e)
    [] op = "<-" -> Of("recv", e)
    [] op \in {"hd", "tl", "len", "tagof"} -> Of(op, e)
    [] op \in {"ref", "*"} -> RefE(e)
\* The name of a type alone is taken for a name.
TypeName(kind) == Ident("Basic " \o kind)
CastOrName(p) ==
  LET e == ParseExprBp(Skip(p), UnaryBp)
  IN IF KindAhead(p, 1) \in {"]", ",", ")", "=>", ";", "}"} THEN Yield(Skip(p), TypeName(Kind(p)))
     ELSE Yield(e, Cast(Basic(Kind(p)), e.val))
\* Of a size in brackets, or of none; with elements in braces, or of a type.
ArrayOrCast(p) ==
  LET sized == KindAhead(p, 1) = "["
      size == IF KindAhead(p, 2) = "]" THEN Yield(Skip(Skip(p)), Nothing) ELSE ParseExpr(Skip(Skip(p)))
      of == Expect(IF sized THEN Expect(size, "]") ELSE Skip(p), "of")
      elems == Elems(Skip(of), "element", {"}"})
      type == ParseType(of)
      e == ParseExprBp(type, UnaryBp)
  IN CASE ~sized -> Yield(e, Cast(ArrayT(type.val), e.val))
       [] sized /\ Kind(of) = "{" -> Ending(elems, "}", ArrayE(size.val, elems.val))
       [] OTHER -> Yield(type, ArrayOf(type.val, IF size.val.op = "nothing" THEN IntLit(0) ELSE size.val))
\* The size of a channel is dropped.
ChanOf(p) ==
  LET size == Expect(ParseExpr(Skip(Skip(p))), "]")
      type == ParseType(Expect(IF KindAhead(p, 1) = "[" THEN size ELSE Skip(p), "of"))
  IN Yield(type, ChanE(type.val))
ListOf(p) ==
  LET elems == Elems(Expect(Expect(Skip(p), "of"), "{"), "argument", Closers)
  IN Ending(elems, "}", ListE(elems.val))
ParseLoad(p) ==
  LET module == ExpectIdent(Skip(p))
      path == ParseExprBp(module, 2)
  IN Yield(path, LoadE(module.val, path.val))
\* A tuple, or an expression that was only put into parentheses.
Parenthesised(p) ==
  LET first == ParseExpr(Skip(p))
      elems == Joined(Skip(p), ",", "expression", {")"})
  IN IF Kind(first) = "," THEN Ending(elems, ")", TupleE(elems.val)) ELSE Ending(first, ")", first.val)
Literal(p) ==
  LET v == p.ts[p.at].v
  IN Yield(Skip(p), CASE Kind(p) = "int literal"    -> IntLit(v)
                      [] Kind(p) = "real literal"   -> RealLit(v)
                      [] Kind(p) = "string literal" -> StringLit(v)
                      [] Kind(p) = "char literal"   -> CharLit(v)
                      [] Kind(p) = "ident"          -> Ident(v)
                      [] Kind(p) = "nil"            -> Nil
                      [] Kind(p) = "iota"           -> Ident("iota"))
ParsePrefix(p) ==
  LET e == ParseExprBp(Skip(p), UnaryBp)
  IN CASE Kind(p) \in {"int literal", "real literal", "string literal", "char literal", "ident", "nil", "iota"} -> Literal(p)
       [] Kind(p) = "*" /\ KindAhead(p, 1) = "=>" -> Yield(Skip(p), Ident("*"))
       [] Kind(p) \in PrefixOps /\ ~(Kind(p) = "*" /\ KindAhead(p, 1) = "=>") -> Yield(e, Prefixed(Kind(p), e.val))
       [] Kind(p) \in Basics -> CastOrName(p)
       [] Kind(p) = "array"   -> ArrayOrCast(p)
       [] Kind(p) = "chan"    -> ChanOf(p)
       [] Kind(p) = "list"    -> ListOf(p)
       [] Kind(p) = "load"    -> ParseLoad(p)
       [] Kind(p) = "("       -> Parenthesised(p)
       [] Kind(p) = "{"       -> Yield(Balanced(Skip(p), 1), Nil)   \* nothing was made of it
       [] OTHER               -> Fail(p)

\* An argument; what says where in an array it would go is read and dropped.
RECURSIVE SkipQualifiers(_)
SkipQualifiers(p) ==
  CASE Kind(p) = "=>" -> ParseExpr(Skip(p))
    [] Kind(p) \in {"or", "to"} -> LET q == ParseExpr(Skip(p)) IN SkipQualifiers(Yield(q, p.val))
    [] OTHER -> p
Argument(p) == SkipQualifiers(ParseExpr(p))
\* An element, with the indices it is for.
Selector(p) ==
  LET lo == ParseExpr(p)
      hi == ParseExpr(Skip(lo))
  IN IF Kind(lo) = "to" THEN Yield(hi, [lo |-> lo.val, hi |-> hi.val]) ELSE Yield(lo, [lo |-> lo.val, hi |-> Nothing])
ParseElement(p) ==
  LET selectors == Joined(p, "or", "selector", {})
      at == IF Kind(p) = "*" THEN Yield(Skip(p), AnyP) ELSE Yield(selectors, Selected(selectors.val))
      plain == ParseExpr(p)
      e == ParseExpr(Expect(at, "=>"))
  IN IF Kind(p) # "*" /\ Kind(plain) \notin {"to", "or", "=>"} THEN Yield(plain, [at |-> Nothing, e |-> plain.val])
     ELSE Yield(e, [at |-> at.val, e |-> e.val])

-----------------------------------------------------------------------------
(* Statements.                                                                 *)

ParseStmt(p) == Item(p, "one statement")
ParseBlock(p) == LET body == Many(Expect(p, "{"), "statement") IN Ending(body, "}", body.val)
\* A handler of exceptions is read and dropped, its patterns included.
RECURSIVE SkipPattern(_, _)
SkipPattern(p, depth) ==
  CASE Kind(p) = "=>" /\ depth = 0 -> Skip(p)
    [] Kind(p) \in {"(", "[", "{"} -> SkipPattern(Skip(p), depth + 1)
    [] Kind(p) \in {")", "]"} \/ (Kind(p) = "}" /\ depth > 0) -> SkipPattern(Skip(p), depth - 1)
    [] Kind(p) \in Ended \/ (Kind(p) = "}" /\ depth <= 0) -> p
    [] OTHER -> SkipPattern(Skip(p), depth)
SkipHandler(p) == Expect(Many(Expect(SkipIf(Skip(p), {"ident"}), "{"), "handler"), "}")
BlockOrHandled(p) ==
  LET block == ParseBlock(p)
      done == IF Kind(block) = "exception" THEN SkipHandler(block) ELSE block
  IN Yield(done, BlockS(block.val))

Optional(p, end) == IF Kind(p) = end THEN Yield(p, Nothing) ELSE ParseExpr(p)
AsStatement(e) == IF e.op = "nothing" THEN Nothing ELSE ExprS(e)
InParens(p) == LET e == ParseExpr(Expect(p, "(")) IN Ending(e, ")", e.val)
ParseIf(p) ==
  LET cond == InParens(Skip(p))
      then == ParseStmt(cond)
      else == IF Kind(then) = "else" THEN ParseStmt(Skip(then)) ELSE Yield(then, Nothing)
  IN Yield(else, IfS(cond.val, then.val, else.val))
ParseWhile(p) ==
  LET cond == InParens(Skip(p))
      body == ParseStmt(cond)
  IN Yield(body, WhileS(cond.val, body.val))
ParseDo(p) ==
  LET body == ParseStmt(Skip(p))
      cond == InParens(Expect(body, "while"))
  IN Ending(cond, ";", DoS(cond.val, body.val))
ParseFor(p) ==
  LET init == Optional(Expect(Skip(p), "("), ";")
      cond == Optional(Expect(init, ";"), ";")
      post == Optional(Expect(cond, ";"), ")")
      body == ParseStmt(Expect(post, ")"))
  IN Yield(body, ForS(AsStatement(init.val), cond.val, AsStatement(post.val), body.val))
ParseCase(p) ==
  LET e == ParseExpr(Skip(p))
      arms == Many(Expect(e, "{"), "case arm")
  IN Ending(arms, "}", CaseS(e.val, arms.val))
ParseAlt(p) == LET arms == Many(Expect(Skip(p), "{"), "alt arm") IN Ending(arms, "}", AltS(arms.val))
ParsePick(p) ==
  LET name == ExpectIdent(Skip(p))
      e == ParseExpr(Expect(name, ":="))
      arms == Many(Expect(e, "{"), "pick arm")
  IN Ending(arms, "}", PickS(name.val, e.val, arms.val))
ParseLeave(p, Op(_)) ==
  IF KindAhead(p, 1) = "ident" THEN LET label == ExpectIdent(Skip(p)) IN Ending(label, ";", Op(label.val))
  ELSE Ending(Skip(p), ";", Op(""))
Labelled(p) ==
  LET name == ExpectIdent(p)
      s == ParseStmt(Expect(name, ":"))
  IN Yield(s, LabelS(name.val, s.val))
\* Constants and types of a function's own are read and dropped.
LocalDecl(p) ==
  LET names == NamesOf(p)
      module == ExpectIdent(Skip(names))
      value == ParseExpr(Skip(names))
      alias == ParseType(Skip(names))
      type == ParseType(names)
      init == IF Kind(type) = "=" THEN ParseExpr(Skip(type)) ELSE Yield(type, Nothing)
  IN CASE Kind(names) = "import" -> Ending(module, ";", Import(names.val, module.val))
       [] Kind(names) = "con"    -> Ending(value, ";", EmptyS)
       [] Kind(names) = "type"   -> Ending(alias, ";", EmptyS)
       [] OTHER                  -> Ending(init, ";", VarDecl(names.val, type.val, init.val))
OtherStmt(p) ==
  LET e == ParseExpr(p)
  IN CASE LabelStarts(p) -> Labelled(p)
       [] LocalDeclStarts(p) -> LocalDecl(p)
       [] Kind(p) = "include" -> Ending(SkipIf(Skip(p), {"string literal"}), ";", EmptyS)
       [] OTHER -> Ending(e, ";", ExprS(e.val))
StmtForm(p) ==
  LET rest == Optional(Skip(p), ";")
      e == ParseExpr(Skip(p))
  IN CASE Kind(p) = "{"         -> BlockOrHandled(p)
       [] Kind(p) = "if"        -> ParseIf(p)
       [] Kind(p) = "for"       -> ParseFor(p)
       [] Kind(p) = "while"     -> ParseWhile(p)
       [] Kind(p) = "do"        -> ParseDo(p)
       [] Kind(p) = "return"    -> Ending(rest, ";", ReturnS(rest.val))
       [] Kind(p) = "raise"     -> Ending(rest, ";", RaiseS(rest.val))
       [] Kind(p) = "break"     -> ParseLeave(p, BreakS)
       [] Kind(p) = "continue"  -> ParseLeave(p, ContinueS)
       [] Kind(p) = "exit"      -> Ending(Skip(p), ";", ExitS)
       [] Kind(p) = "spawn"     -> Ending(e, ";", SpawnS(e.val))
       [] Kind(p) = "case"      -> ParseCase(p)
       [] Kind(p) = "pick"      -> ParsePick(p)
       [] Kind(p) = "alt"       -> ParseAlt(p)
       [] Kind(p) = ";"         -> Yield(Skip(p), EmptyS)
       [] Kind(p) = "exception" -> Yield(SkipHandler(p), EmptyS)
       [] OTHER                 -> OtherStmt(p)

\* The arms of case, alt and pick.
Pattern(p) ==
  LET lo == ParseExpr(p)
      hi == ParseExpr(Skip(lo))
  IN IF AtWildcardArm(p) THEN Yield(Skip(p), AnyP)
     ELSE IF Kind(lo) = "to" THEN Yield(hi, Between(lo.val, hi.val)) ELSE Yield(lo, Is(lo.val))
\* A statement that does not parse ends its arm without a word, and what follows it up to the
\* next pattern is skipped.
RECURSIVE ToCasePattern(_), CaseBody(_)
ToCasePattern(p) == IF Kind(p) = "}" \/ Kind(p) \in Ended \/ CasePatternStarts(p) THEN p ELSE ToCasePattern(Skip(p))
CaseBody(p) ==
  LET s == ParseStmt(p)
      rest == CaseBody(s)
  IN CASE Stops(p, "case statement") -> Yield(p, <<>>)
       [] OTHER -> IF s.ok THEN Yield(rest, <<s.val>> \o rest.val)
                   ELSE Yield(ToCasePattern([s EXCEPT !.ok = TRUE]), <<>>)
ParseCaseArm(p) ==
  LET pats == Joined(p, "or", "pattern", {})
      body == CaseBody(Expect(pats, "=>"))
  IN Yield(body, <<Arm(pats.val, body.val)>>)
\* A guard is a send, or a receive with or without a place for what comes.
Guard(p) ==
  LET q == ParseExpr(p)
      g == q.val
      binds == g.op \in {"decl", "tupledecl", "set"}
  IN CASE ~q.ok -> q
       [] q.ok /\ g.op = "send" -> Yield(q, SendG(g.l, g.r))
       [] q.ok /\ g.op = "recv" -> Yield(q, RecvG(g.e, Nothing))
       [] OTHER -> IF binds THEN IF g.e.op = "recv" THEN Yield(q, RecvG(g.e.e, [g EXCEPT !.e = Nothing])) ELSE Fail(q)
                   ELSE Fail(q)
ParseAltArm(p) ==
  LET guards == IF AtWildcardArm(p) THEN Yield(Skip(p), <<AnyP>>) ELSE Joined(p, "or", "guard", {})
      body == Many(Expect(guards, "=>"), "alt statement")
  IN Yield(body, <<Guarded(guards.val, body.val)>>)
ParsePickArm(p) ==
  LET tags == IF AtWildcardArm(p) THEN Yield(Skip(p), <<"*">>) ELSE Joined(p, "or", "name", {})
      body == Many(Expect(tags, "=>"), "pick statement")
  IN Yield(body, <<Variant(tags.val, body.val)>>)

-----------------------------------------------------------------------------
(* Declarations.                                                               *)

\* What may follow the names and the colon, wherever they stand; each name has a declaration of
\* its own.
ParseCon(p, names) == LET e == ParseExpr(Skip(p)) IN Ending(e, ";", PerName(names, LAMBDA name: Con(name, names, e.val)))
ParseAlias(p, names) ==
  LET type == ParseType(Skip(p)) IN Ending(type, ";", PerName(names, LAMBDA name: TypeAlias(name, type.val)))
ParseSig(p, names) ==
  LET sig == Item(p, "signature")
  IN Ending(sig, ";", PerName(names, LAMBDA name: FuncSig(name, sig.val.params, sig.val.ret)))
ParseFields(p, names) ==
  LET type == ParseType(SkipIf(p, {"cyclic"})) IN Ending(type, ";", <<VarDecl(names, type.val, Nothing)>>)
ParseAdt(p, names) ==
  LET members == Expect(Many(Expect(SkipAdtHeader(Skip(p)), "{"), "member of an adt"), "}")
      Of0(op) == SelectSeq(members.val, LAMBDA member: (member.op = "pick cases") = op)
      pick == IF Of0(TRUE) = <<>> THEN <<>> ELSE Last(Of0(TRUE)).cases   \* the last pick counts
  IN Ending(members, ";", PerName(names, LAMBDA name: Adt(name, Of0(FALSE), pick)))
ParseModule(p, names) ==
  LET members == Expect(Many(Expect(Skip(p), "{"), "member of a module"), "}")
  IN Ending(members, ";", PerName(names, LAMBDA name: Module(name, members.val)))
ParseException(p, names) ==
  LET types == Joined(Skip(Skip(p)), ",", "type", {})
      type == IF KindAhead(p, 1) = "(" THEN Ending(types, ")", IF Len(types.val) = 1 THEN types.val[1] ELSE TupleT(types.val))
              ELSE Yield(Skip(p), NoType)
  IN Ending(type, ";", PerName(names, LAMBDA name: Exception(name, type.val)))
ParseVar(p, names) ==
  LET type == ParseType(p)
      init == IF Kind(type) = "=" THEN ParseExpr(Skip(type)) ELSE Yield(type, Nothing)
  IN Ending(init, ";", <<VarDecl(names, type.val, init.val)>>)
ParseImport(p, names) == LET module == ExpectIdent(Skip(p)) IN Ending(module, ";", <<Import(names, module.val)>>)

ColonDecl(p) ==
  LET q == NamesOf(p)
  IN CASE Kind(q) = "con"       -> ParseCon(q, q.val)
       [] Kind(q) = "type"      -> ParseAlias(q, q.val)
       [] Kind(q) = "module"    -> ParseModule(q, q.val)
       [] Kind(q) = "adt"       -> ParseAdt(q, q.val)
       [] Kind(q) = "import"    -> ParseImport(q, q.val)
       [] Kind(q) = "exception" -> ParseException(q, q.val)
       [] OTHER                 -> ParseVar(q, q.val)
ModuleMember(p) ==
  LET q == NamesOf(p)
  IN CASE Kind(q) = "con"  -> ParseCon(q, q.val)
       [] Kind(q) = "type" -> ParseAlias(q, q.val)
       [] Kind(q) = "fn"   -> ParseSig(q, q.val)
       [] Kind(q) = "adt"  -> ParseAdt(q, q.val)
       [] Kind(q) = "cyclic" -> Fail(q)
       [] OTHER            -> ParseFields(q, q.val)
AdtMember(p) ==
  LET q == NamesOf(p)
      cases == Many(Expect(Skip(p), "{"), "pick case")
  IN CASE Kind(p) = "pick" -> Ending(cases, "}", <<[op |-> "pick cases", cases |-> cases.val]>>)
       [] Kind(p) # "pick" /\ Kind(q) = "con" -> ParseCon(q, q.val)
       [] Kind(p) # "pick" /\ Kind(q) = "fn"  -> ParseSig(q, q.val)
       [] OTHER -> ParseFields(q, q.val)
ParsePickCase(p) ==
  LET tags == Joined(p, "or", "name", {})
      fields == Many(Expect(tags, "=>"), "field")
  IN Yield(fields, <<PickCase(tags.val, fields.val)>>)
Field(p) == LET q == NamesOf(p) IN ParseFields(q, q.val)

\* A name and the last of its qualifiers.
RECURSIVE QualifiedName(_, _)
QualifiedName(p, qualifier) ==
  LET name == SkipTypeParams(ExpectIdent(p))
  IN IF Kind(name) = "." THEN QualifiedName(Skip(name), name.val) ELSE Yield(name, <<qualifier, name.val>>)
FuncDef(p) ==
  LET name == QualifiedName(p, "")
      sig == Item(name, "signature")
      body == ParseBlock(sig)
  IN Yield(body, <<Func(name.val[1], name.val[2], sig.val.params, sig.val.ret, body.val)>>)
TopAssign(p, assign) ==
  LET name == ExpectIdent(p)
      e == ParseExpr(Expect(name, assign))
  IN Ending(e, ";", <<VarDecl(<<name.val>>, NoType, e.val)>>)
IncludeFile(p) ==
  IF KindAhead(p, 1) = "string literal"
  THEN Ending(Skip(Skip(p)), ";", <<[op |-> "include", path |-> p.ts[p.at + 1].v]>>) ELSE Fail(p)
Declaration(p) ==
  CASE Kind(p) = "include" -> IncludeFile(p)
    [] Kind(p) = "ident" -> CASE AfterName(p, 1) = "("  -> FuncDef(p)
                              [] AfterName(p, 1) \in {"=", ":="} -> TopAssign(p, AfterName(p, 1))
                              [] OTHER -> ColonDecl(p)
    [] OTHER -> Fail(p)

\* A file: what it implements, and its declarations; includes are kept apart.
File(p) ==
  LET names == Names(Skip(p))
      head == IF Kind(p) = "implement" THEN Ending(names, ";", names.val) ELSE p
      decls == Many(head, "declaration")
      included == SelectSeq(decls.val, LAMBDA d: d.op = "include")
  IN Yield(decls, SourceFile(head.val, [n \in DOMAIN included |-> included[n].path],
                             SelectSeq(decls.val, LAMBDA d: d.op # "include")))

\* What a named thing is parsed as; an expression, as far as it holds together by min.
Parse(p, what, min) ==
  CASE what = "name"               -> ExpectIdent(p)
    [] what = "type"               -> TypeForm(p)
    [] what = "expression"         -> Following(ParsePrefix(p), min)
    [] what = "signature"          -> ParseFuncSig(p)
    [] what = "parameters"         -> Params(p)
    [] what = "names of parameters" -> ParamNames(p)
    [] what = "argument"           -> Argument(p)
    [] what = "element"            -> ParseElement(p)
    [] what = "selector"           -> Selector(p)
    [] what = "pattern"            -> Pattern(p)
    [] what = "guard"              -> Guard(p)
    [] what \in {"statement", "alt statement", "pick statement", "handler statement"} ->
         LET s == StmtForm(p) IN Yield(s, <<s.val>>)
    [] what = "one statement"      -> StmtForm(p)
    [] what = "case arm"           -> ParseCaseArm(p)
    [] what = "alt arm"            -> ParseAltArm(p)
    [] what = "pick arm"           -> ParsePickArm(p)
    [] what = "handler"            -> Many(SkipPattern(p, 0), "handler statement")
    [] what = "member of a module" -> ModuleMember(p)
    [] what = "member of an adt"   -> AdtMember(p)
    [] what = "pick case"          -> ParsePickCase(p)
    [] what = "field"              -> Field(p)
    [] what = "declaration"        -> Declaration(p)
    [] what = "file"               -> File(p)
ParseFile(tokens) == Item([ts |-> tokens, at |-> 1, ok |-> TRUE, val |-> <<>>], "file")
=============================================================================
