------------------------------ MODULE SourceText ------------------------------
(* How a syntax tree is written in Limbo: with the parentheses that the        *)
(* precedence of the operators asks for, and with blanks only where two tokens *)
(* would otherwise be read as one.  What the lexer and the parser of the       *)
(* compiler read is held against this.                                         *)
EXTENDS Lexer, Syntax

-----------------------------------------------------------------------------
(* Tokens.  A sequence of them is a tree's text.                               *)

M(t) == <<Mark(t)>>
Name(word) == <<Token("ident", word)>>
RECURSIVE Separated(_, _)
Separated(parts, t) ==
  CASE parts = <<>>    -> <<>>
    [] Len(parts) = 1  -> parts[1]
    [] OTHER           -> parts[1] \o M(t) \o Separated(Tail(parts), t)
NamesText(names, t) == Separated([n \in DOMAIN names |-> IF names[n] = "nil" THEN M("nil") ELSE Name(names[n])], t)

\* From the loosest to the tightest; those of one level group from the left, but for :: and **.
Levels == <<{"bor"}, {"band"}, {"cons"}, {"or"}, {"xor"}, {"and"}, {"eq", "ne"}, {"lt", "gt", "le", "ge"},
            {"shl", "shr"}, {"add", "sub"}, {"mul", "div", "mod"}, {"pow"}>>
LevelOf(fn) == 1 + CHOOSE n \in DOMAIN Levels : fn \in Levels[n]
AssignLevel == 1
UnaryLevel == Len(Levels) + 2
TermLevel == UnaryLevel + 1
FromRight == {"cons", "pow"}
Signs == [bor |-> "||", band |-> "&&", cons |-> "::", or |-> "|", xor |-> "^", and |-> "&", eq |-> "==", ne |-> "!=",
          lt |-> "<", gt |-> ">", le |-> "<=", ge |-> ">=", shl |-> "<<", shr |-> ">>", add |-> "+", sub |-> "-",
          mul |-> "*", div |-> "/", mod |-> "%", pow |-> "**", neg |-> "-", not |-> "!", inv |-> "~", ref |-> "*",
          recv |-> "<-", hd |-> "hd", tl |-> "tl", len |-> "len", tagof |-> "tagof"]
InfixOf(e) == CASE e.op = "bin" -> e.fn [] e.op = "and" -> "band" [] e.op = "or" -> "bor" [] e.op = "cons" -> "cons"
                [] OTHER -> "none"
LevelOfTree(e) ==
  CASE InfixOf(e) # "none" -> LevelOf(InfixOf(e))
    [] e.op \in {"set", "opset", "decl", "tupledecl", "send", "load"} -> AssignLevel
    [] e.op \in {"un", "recv", "hd", "tl", "len", "tagof", "cast", "ref", "chan", "arralloc"} -> UnaryLevel
    [] OTHER -> TermLevel

RECURSIVE Ty(_), Ex(_, _), St(_), De(_)
Listed(parts) == Separated(parts, ",")
\* The second name of a type comes after a dot.
TypeName0(adt) == Name(adt[1]) \o IF adt[2] = "" THEN <<>> ELSE M(".") \o Name(adt[2])
ParamText(param) == NamesText(<<param.name>>, ",") \o M(":") \o (IF param.self THEN M("self") ELSE <<>>) \o Ty(param.type)
SigText(params, ret) ==
  M("(") \o Listed([n \in DOMAIN params |-> ParamText(params[n])]) \o M(")")
    \o IF ret = NoType THEN <<>> ELSE M(":") \o Ty(ret)
Ty(type) ==
  CASE type.kind \in Basics  -> M(type.kind)
    [] type.kind = "named"   -> TypeName0(type.adt)
    [] type.kind = "ref"     -> M("ref") \o TypeName0(type.adt)
    [] type.kind = "refto"   -> M("ref") \o Ty(type.to)
    [] type.kind \in {"list", "array", "chan"} -> M(type.kind) \o M("of") \o Ty(type.elem)
    [] type.kind = "tuple"   -> M("(") \o Listed([n \in DOMAIN type.fields |-> Ty(type.fields[n])]) \o M(")")
    [] type.kind = "fn"      -> M("fn") \o SigText(type.params, type.ret)

-----------------------------------------------------------------------------
(* Expressions, in a place that asks for a level.                              *)

Whole(e) == Ex(e, AssignLevel)
All0(elems) == Listed([n \in DOMAIN elems |-> Whole(elems[n])])
SelectorText(s) == Whole(s.lo) \o IF s.hi.op = "nothing" THEN <<>> ELSE M("to") \o Whole(s.hi)
ElementText(elem) ==
  (CASE elem.at = Nothing -> <<>>
     [] elem.at = AnyP -> M("*") \o M("=>")
     [] OTHER -> Separated([n \in DOMAIN elem.at.by |-> SelectorText(elem.at.by[n])], "or") \o M("=>")) \o Whole(elem.e)
IfAny(e) == IF e.op = "nothing" THEN <<>> ELSE Whole(e)
Bare(e) ==
  LET infix == InfixOf(e)
      level == LevelOf(infix)
      right == infix \in FromRight
  IN CASE infix # "none" -> Ex(e.l, IF right THEN level + 1 ELSE level) \o M(Signs[infix]) \o Ex(e.r, IF right THEN level ELSE level + 1)
       [] e.op = "int"     -> <<Token("int literal", e.val)>>
       [] e.op = "real"    -> <<Token("real literal", e.digits)>>
       [] e.op = "string"  -> <<Token("string literal", e.text)>>
       [] e.op = "char"    -> <<Token("char literal", e.char)>>
       [] e.op = "nil"     -> M("nil")
       [] e.op = "var"     -> Name(e.name)
       [] e.op = "un"      -> M(Signs[e.fn]) \o Ex(e.e, UnaryLevel)
       [] e.op \in {"recv", "hd", "tl", "len", "tagof"} -> M(Signs[e.op]) \o Ex(e.e, UnaryLevel)
       [] e.op = "inc"     -> Ex(e.e, TermLevel) \o M("++")
       [] e.op = "dec"     -> Ex(e.e, TermLevel) \o M("--")
       [] e.op = "cast"    -> Ty(e.to) \o Ex(e.e, UnaryLevel)
       [] e.op = "dot"     -> Ex(e.e, TermLevel) \o M(".") \o Name(e.field)
       [] e.op = "modqual" -> Ex(e.e, TermLevel) \o M("->") \o Name(e.field)
       [] e.op = "index"   -> Ex(e.e, TermLevel) \o M("[") \o Whole(e.i) \o M("]")
       [] e.op = "slice"   -> Ex(e.e, TermLevel) \o M("[") \o IfAny(e.lo) \o M(":") \o IfAny(e.hi) \o M("]")
       [] e.op = "tuple"   -> M("(") \o All0(e.elems) \o M(")")
       [] e.op = "list"    -> M("list") \o M("of") \o M("{") \o All0(e.elems) \o M("}")
       [] e.op = "array"   -> M("array") \o M("[") \o IfAny(e.size) \o M("]") \o M("of") \o M("{")
                                \o Listed([n \in DOMAIN e.elems |-> ElementText(e.elems[n])]) \o M("}")
       [] e.op = "arralloc" -> M("array") \o M("[") \o Whole(e.e) \o M("]") \o M("of") \o Ty(e.elem)
       [] e.op = "chan"    -> M("chan") \o M("of") \o Ty(e.elem)
       [] e.op = "call"    -> Name(e.name) \o M("(") \o All0(e.args) \o M(")")
       [] e.op = "apply"   -> Ex(e.fn, TermLevel) \o M("(") \o All0(e.args) \o M(")")
       [] e.op = "ref"     -> M("ref") \o TypeName0(e.adt) \o M("(") \o All0(e.args) \o M(")")
       [] e.op = "load"    -> M("load") \o Name(e.module) \o Ex(e.e, TermLevel)
       [] e.op = "set"     -> Ex(e.to, AssignLevel + 1) \o M("=") \o Whole(e.e)
       [] e.op = "opset"   -> Ex(e.to, AssignLevel + 1) \o M(Signs[e.fn] \o "=") \o Whole(e.e)
       [] e.op = "decl"    -> Name(e.name) \o M(":=") \o Whole(e.e)
       [] e.op = "tupledecl" -> M("(") \o NamesText(e.names, ",") \o M(")") \o M(":=") \o Whole(e.e)
       [] e.op = "send"    -> Ex(e.l, AssignLevel + 1) \o M("<-=") \o Whole(e.r)
Ex(e, level) == IF LevelOfTree(e) >= level THEN Bare(e) ELSE M("(") \o Bare(e) \o M(")")

-----------------------------------------------------------------------------
(* Statements and declarations.                                                *)

All1(body) == FlattenSeq([n \in DOMAIN body |-> St(body[n])])
Braced(tokens) == M("{") \o tokens \o M("}")
Headed(head, body) == head \o M("=>") \o All1(body)
PatternText(p) ==
  CASE p.op = "any" -> M("*") [] p.op = "is" -> Whole(p.e) [] p.op = "range" -> Whole(p.lo) \o M("to") \o Whole(p.hi)
GuardText(g) ==
  CASE g.op = "any"  -> M("*")
    [] g.op = "send" -> Whole(SendE(g.chan, g.e))
    [] g.op = "recv" -> IF g.to.op = "nothing" THEN Whole(Of("recv", g.chan)) ELSE Whole([g.to EXCEPT !.e = Of("recv", g.chan)])
Arms(arms, Pats(_)) == Braced(FlattenSeq([n \in DOMAIN arms |-> Headed(Pats(arms[n]), arms[n].body)]))
LabelText(label) == IF label = "" THEN <<>> ELSE Name(label)
\* The statement of a for, without the semicolon.
Plain(s) == IF s.op = "nothing" THEN <<>> ELSE Whole(s.e)
VarText(d) == NamesText(d.names, ",") \o M(":") \o Ty(d.type) \o IF d.init.op = "nothing" THEN M(";") ELSE M("=") \o Whole(d.init) \o M(";")
St(s) ==
  CASE s.op = "expr"     -> Whole(s.e) \o M(";")
    [] s.op = "vardecl"  -> VarText(s)
    [] s.op = "import"   -> NamesText(s.names, ",") \o M(":") \o M("import") \o Name(s.module) \o M(";")
    [] s.op = "block"    -> Braced(All1(s.body))
    [] s.op = "empty"    -> M(";")
    [] s.op = "if"       -> M("if") \o M("(") \o Whole(s.cond) \o M(")") \o St(s.then)
                              \o IF s.else.op = "nothing" THEN <<>> ELSE M("else") \o St(s.else)
    [] s.op = "while"    -> M("while") \o M("(") \o Whole(s.cond) \o M(")") \o St(s.body)
    [] s.op = "do"       -> M("do") \o St(s.body) \o M("while") \o M("(") \o Whole(s.cond) \o M(")") \o M(";")
    [] s.op = "for"      -> M("for") \o M("(") \o Plain(s.init) \o M(";") \o IfAny(s.cond) \o M(";") \o Plain(s.post) \o M(")") \o St(s.body)
    [] s.op = "case"     -> M("case") \o Whole(s.e)
                              \o Arms(s.arms, LAMBDA a: Separated([n \in DOMAIN a.pats |-> PatternText(a.pats[n])], "or"))
    [] s.op = "alt"      -> M("alt")
                              \o Arms(s.arms, LAMBDA a: Separated([n \in DOMAIN a.guards |-> GuardText(a.guards[n])], "or"))
    [] s.op = "pick"     -> M("pick") \o Name(s.name) \o M(":=") \o Whole(s.e)
                              \o Arms(s.arms, LAMBDA a: IF a.tags = <<"*">> THEN M("*") ELSE NamesText(a.tags, "or"))
    [] s.op = "label"    -> Name(s.name) \o M(":") \o St(s.s)
    [] s.op \in {"break", "continue"} -> M(s.op) \o LabelText(s.label) \o M(";")
    [] s.op \in {"return", "raise"}   -> M(s.op) \o IfAny(s.e) \o M(";")
    [] s.op = "exit"     -> M("exit") \o M(";")
    [] s.op = "spawn"    -> M("spawn") \o Whole(CallE(Ident(s.name), s.args)) \o M(";")
    [] s.op = "spawnexpr" -> M("spawn") \o Whole(s.e) \o M(";")

Members(decls) == FlattenSeq([n \in DOMAIN decls |-> De(decls[n])])
PickText(pick) ==
  IF pick = <<>> THEN <<>>
  ELSE M("pick") \o Braced(FlattenSeq([n \in DOMAIN pick |-> NamesText(pick[n].tags, "or") \o M("=>") \o Members(pick[n].fields)]))
TypesText(type) == IF type = NoType THEN <<>> ELSE IF type.kind = "tuple" THEN Ty(type) ELSE M("(") \o Ty(type) \o M(")")
De(d) ==
  CASE d.op = "vardecl"   -> IF d.type = NoType THEN NamesText(d.names, ",") \o M(":=") \o Whole(d.init) \o M(";") ELSE VarText(d)
    [] d.op = "con"       -> IF d.name # d.with[1] THEN <<>>   \* written with the first
                             ELSE NamesText(d.with, ",") \o M(":") \o M("con") \o Whole(d.e) \o M(";")
    [] d.op = "type"      -> Name(d.name) \o M(":") \o M("type") \o Ty(d.type) \o M(";")
    [] d.op = "exception" -> Name(d.name) \o M(":") \o M("exception") \o TypesText(d.type) \o M(";")
    [] d.op = "module"    -> Name(d.name) \o M(":") \o M("module") \o Braced(Members(d.members)) \o M(";")
    [] d.op = "adt"       -> Name(d.name) \o M(":") \o M("adt") \o Braced(Members(d.members) \o PickText(d.pick)) \o M(";")
    [] d.op = "sig"       -> Name(d.name) \o M(":") \o M("fn") \o SigText(d.params, d.ret) \o M(";")
    [] d.op = "import"    -> St(d)
    [] d.op = "func"      -> (IF d.of = "" THEN <<>> ELSE Name(d.of) \o M(".")) \o Name(d.name) \o SigText(d.params, d.ret) \o Braced(All1(d.body))
FileText(file) ==
  (IF file.implement = <<>> THEN <<>> ELSE M("implement") \o NamesText(file.implement, ",") \o M(";"))
    \o FlattenSeq([n \in DOMAIN file.includes |-> M("include") \o <<Token("string literal", file.includes[n])>> \o M(";")])
    \o Members(file.decls)

-----------------------------------------------------------------------------
(* Characters.                                                                 *)

Word(word) == <<[c |-> "word", v |-> word]>>
Digits(n) == <<[c |-> "digits", v |-> n]>>
Chars(sign) == [n \in 1 .. Len(sign) |-> [c |-> SubSeq(sign, n, n), v |-> SubSeq(sign, n, n)]]
\* What is not itself between quotes.
Escape == ("\n" :> "n") @@ ("\t" :> "t") @@ ("\r" :> "r") @@ ("\f" :> "f") @@ ("BEL" :> "a") @@ ("BS" :> "b") @@ ("VT" :> "v")
Quoting(e) ==
  CASE e.c \in DOMAIN Escape -> Chars("\\") \o Word(Escape[e.c])
    [] e.c = "NUL"           -> Chars("\\") \o Digits(0)
    [] e.c \in {"\"", "'", "\\"} -> Chars("\\") \o <<e>>
    [] OTHER                 -> <<e>>
CharsOf(token) ==
  CASE token.t = "ident"          -> Word(token.v)
    [] token.t \in Keywords       -> Word(token.t)
    [] token.t = "int literal"    -> Digits(token.v)
    [] token.t = "real literal"   -> Digits(token.v[1]) \o Chars(".") \o Digits(token.v[2])
    [] token.t = "string literal" -> Chars("\"") \o FlattenSeq([n \in DOMAIN token.v |-> Quoting(token.v[n])]) \o Chars("\"")
    [] token.t = "char literal"   -> Chars("'") \o Quoting(token.v) \o Chars("'")
    [] OTHER                      -> Chars(token.t)
\* Two tokens that touch and would be read differently.
Wordy(token) == token.t \in Keywords \cup {"ident", "int literal", "real literal"}
Glued(left, right) ==
  \/ Wordy(left) /\ Wordy(right)
  \/ left.t = "int literal" /\ right.t = "."
  \/ left.t = "." /\ right.t = "int literal"
  \/ left.t \in Symbols /\ right.t \in Symbols /\ left.t \o SubSeq(right.t, 1, 1) \in Symbols
Blank == Chars(" ")
Note0 == Chars(" ") \o Chars("#") \o Word("note") \o Chars(";") \o Chars("\n") \o Chars("\t")
\* Tight, or with a comment after every token.
WrittenToken(tokens, spaced, n) ==
  CharsOf(tokens[n]) \o IF spaced THEN Note0
                        ELSE IF n < Len(tokens) /\ Glued(tokens[n], tokens[n + 1]) THEN Blank ELSE <<>>
\* In halves, as there may be hundreds.
RECURSIVE WrittenFrom(_, _, _, _)
WrittenFrom(tokens, spaced, from, to) ==
  LET middle == (from + to) \div 2
  IN CASE from > to -> <<>>
       [] from = to -> WrittenToken(tokens, spaced, from)
       [] from < to -> WrittenFrom(tokens, spaced, from, middle) \o WrittenFrom(tokens, spaced, middle + 1, to)
Written(tokens, spaced) == WrittenFrom(tokens, spaced, 1, Len(tokens))
=============================================================================
