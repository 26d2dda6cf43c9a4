----------------------------- MODULE LimboSources -----------------------------
(* Files of Limbo source: the programs, files with every other construct of    *)
(* the syntax, and some that are no Limbo.                                     *)
EXTENDS LimboPrograms

\* What follows a file's text, and where it is refused.
Plain0(file) == [file |-> [implement |-> file.implement, includes |-> file.includes, decls |-> file.decls],
                after |-> <<>>, refused |-> "nowhere"]
Refused(file, after) == [Plain0(file) EXCEPT !.after = after, !.refused = "reading"]
Sign(c) == [c |-> c, v |-> c]
Str(words) == StringLit([n \in DOMAIN words |-> [c |-> "word", v |-> words[n]]])
Stmts(body) == SourceFile(<<"Test">>, <<>>, <<Main(body)>>)
Exprs(elems) == Stmts([n \in DOMAIN elems |-> Do(SetE(V("x"), elems[n]))])

\* Expressions, spread over files.
Size == 10
Spread(exprs) ==
  [f \in 1 .. (Len(exprs) + Size - 1) \div Size |-> Exprs(SubSeq(exprs, Size * (f - 1) + 1, IF Size * f < Len(exprs) THEN Size * f ELSE Len(exprs)))]

\* Two operators of every two levels, and two of one level, grouped in both ways.
Infixes == <<"bor", "band", "cons", "or", "xor", "and", "ne", "le", "shr", "sub", "mul", "div", "pow">>
Join(infix, l, r) ==
  CASE infix = "bor" -> Or(l, r) [] infix = "band" -> And(l, r) [] infix = "cons" -> ConsE(l, r) [] OTHER -> Bin(infix, l, r)
TwoOperators(infix) ==
  FlattenSeq([n \in DOMAIN Infixes |->
    <<Join(infix, V("a"), Join(Infixes[n], V("b"), V("c"))), Join(infix, Join(Infixes[n], V("a"), V("b")), V("c"))>>])
OneOperator == [n \in 1 .. 8 |-> Bin(<<"eq", "lt", "gt", "ge", "shl", "add", "mod", "sub">>[n], V("a"), V("b"))]
\* What can stand around an operand; under and over an infix operator, and around one another.
Around(e) ==
  <<Un("neg", e), Un("not", e), Un("inv", e), Of("hd", e), Of("recv", e), Of("len", e), Of("tagof", e), Of("inc", e), Of("dec", e),
    As(BigT, e), As(ArrayT(Basic("byte")), e), Dot(e, "f"), ModQual(e, "f"), At0(e, V("i")), CallE(e, <<>>), RefE(e), SetE(V("y"), e),
    SliceE(e, Nothing, V("i")), SliceE(e, V("i"), Nothing), SendE(e, V("z")), OpSetE(V("y"), "shl", e), LoadE("M", e), Tup(<<e, e>>)>>
Nested(infix) ==
  LET around == Around(V("a"))
  IN Around(Join(infix, V("a"), V("b")))
       \o FlattenSeq([n \in DOMAIN around |-> <<Join(infix, around[n], V("b")), Join(infix, V("b"), around[n])>>])
Expressions ==
  FlattenSeq([n \in DOMAIN Infixes |-> TwoOperators(Infixes[n])]) \o OneOperator
    \o FlattenSeq([n \in 1 .. 4 |-> Nested(<<"cons", "le", "mul", "pow">>[n])])
    \o FlattenSeq([n \in DOMAIN Around(V("a")) |-> Around(Around(V("a"))[n])])

Literals ==
  Exprs(<<RealLit(<<1, 5>>), RealLit(<<0, 25>>), Un("neg", RealLit(<<2, 0>>)), Str(<<"a", "b2">>), Bin("add", Str(<<>>), Str(<<"c">>)),
          StringLit(<<Sign("\""), Sign("\n"), Sign("\\"), Sign("#"), Sign(" "), [c |-> "NUL", v |-> "NUL"]>>), CharLit(Sign("'")),
          CharLit(Sign("\t")), CharLit([c |-> "word", v |-> "q"]), As(Basic("real"), I(1)), As(Basic("byte"), CharLit(Sign("+"))),
          As(StringT, Nil), Bin("sub", I(1), I(-1)), Bin("lt", V("a"), I(-1)), Of("dec", Un("neg", V("a"))), Bin("mul", V("a"), Of("recv", V("c")))>>)
Arrays ==
  Exprs(<<ArrayE(I(9), <<[at |-> Selected(<<[lo |-> I(1), hi |-> Nothing], [lo |-> I(3), hi |-> Bin("add", I(4), I(1))]>>), e |-> V("a")],
                         [at |-> Nothing, e |-> ArrayE(Nothing, <<>>)], [at |-> AnyP, e |-> I(0)]>>),
          ArrayOf(RefT(<<"T", "">>), Bin("add", V("n"), I(1))), Chan(TupleT(<<IntT, ListT(StringT)>>)), ListE(<<>>), Tup(<<V("a"), Nil>>),
          CallE(Dot(V("o"), "m"), <<V("a"), Tup(<<I(1), I(2)>>)>>), CallE(ModQual(V("sys"), "print"), <<Str(<<"s">>)>>),
          LoadE("Sys", ModQual(V("Sys"), "PATH")), Ref("T", "V", <<V("a")>>), Un("ref", Dot(V("o"), "f"))>>)
T(name) == NamedT(<<name, "">>)
Sig(name, params, ret) == FuncSig(name, params, ret)
ConGroup(names, e) == [n \in DOMAIN names |-> Con(names[n], names, e)]
Declarations ==
  SourceFile(<<"Test", "Other">>, << <<Sign("+")>>, <<[c |-> "word", v |-> "draw"]>> >>,
    ConGroup(<<"ONE">>, I(1)) \o ConGroup(<<"TWO", "THREE">>, Bin("add", Ident("iota"), I(1))) \o << TypeAlias("Id", T("Key")), Exception("Bad", NoType),
      Exception("Worse", TupleT(<<IntT, StringT>>)), Exception("Bare", StringT), Import(<<"print", "fprint">>, "sys"),
      Module("M", ConGroup(<<"PATH">>, Str(<<"m">>)) \o <<TypeAlias("T", ArrayT(Basic("byte"))), VarDecl(<<"v", "w">>, RefT(<<"M", "T">>), Nothing),
                    Sig("f", <<Par("a", IntT), Par("b", IntT), Par("nil", ChanT(T("T")))>>, TupleT(<<IntT, BigT>>)), Sig("g", <<>>, NoType),
                    Adt("A", <<VarDecl(<<"x">>, T("T"), Nothing)>>, <<>>)>>),
      Adt("Node", ConGroup(<<"MAX">>, I(8)) \o <<VarDecl(<<"next", "prev">>, RefT(<<"Node", "">>), Nothing),
                    Sig("get", <<Param("n", RefT(<<"Node", "">>), TRUE), Par("k", ListT(IntT))>>, StringT)>>,
          <<PickCase(<<"Leaf">>, <<>>), PickCase(<<"One", "Two">>, <<VarDecl(<<"l", "r">>, T("Node"), Nothing), VarDecl(<<"s">>, StringT, Nothing)>>)>>),
      VarDecl(<<"a", "b">>, FuncT(<<Par("x", IntT)>>, BigT), Nothing), VarDecl(<<"c">>, Reference(TupleT(<<IntT, T("M")>>)), Nil),
      VarDecl(<<"d">>, NoType, I(3)),
      Func("Node", "get", <<Param("n", RefT(<<"Node", "">>), TRUE), Par("k", ListT(IntT))>>, StringT, <<ReturnS(Nil)>>), Main(<<>>)>>)
Statements ==
  Stmts(<<VarDecl(<<"a", "b">>, ListT(IntT), Nil), Import(<<"open", "read">>, "sys"), RaiseS(Str(<<"fail">>)), RaiseS(Nothing), EmptyS,
          SpawnS(CallE(ModQual(V("m"), "run"), <<V("a")>>)), Label("l", DoWhile(V("a"), <<BreakS("l"), ContinueS("")>>)),
          If(V("a"), If(V("b"), EmptyS, BlockS(<<>>)), If(V("c"), ExitS, Nothing)),
          For(Nothing, Nothing, Nothing, <<>>), ForS(Do(DeclE("i", I(0))), V("a"), Nothing, EmptyS), WhileS(Of("recv", V("c")), EmptyS),
          Do(SetE(V("a"), SetE(V("b"), SendE(V("c"), V("d"))))), Do(SetE(Tup(<<V("a"), Nil>>), V("t"))), LetTuple(<<"x", "nil">>, V("t"))>>)
\* Arms: jumps, labels and a dereference at their start, names that could be patterns, patterns of several tokens.
ArmBody == <<Do(RefE(V("in"))), If(V("a"), BlockS(<<Case(V("b"), <<Arm(<<AnyP>>, <<>>)>>)>>), Nothing),
             VarDecl(<<"p">>, ArrayT(IntT), ArrayE(Nothing, <<[at |-> Selected(<<[lo |-> I(1), hi |-> Nothing]>>), e |-> I(2)]>>)),
             Label("l", While(V("a"), <<ContinueS("l")>>)), Do(Call0("f", <<Tup(<<V("a"), V("b")>>)>>)), AltS(<<>>)>>
ArmsOfAll ==
  Stmts(<<Case(Bin("mod", V("a"), I(2)), <<Arm(<<Is(Ident("ONE")), AnyP>>, ArmBody),
                                           Arm(<<Is(Str(<<"s">>)), Between(CharLit(Sign("+")), Bin("add", I(1), I(2))), Is(Un("neg", I(1)))>>, <<>>),
                                           Arm(<<AnyP, Is(ModQual(V("M"), "C"))>>, ArmBody), Arm(<<AnyP>>, ArmBody)>>),
          Pick("x", Call0("f", <<>>), <<Variant(<<"A", "B">>, ArmBody), Variant(<<"C">>, <<>>), Variant(<<"*">>, ArmBody)>>),
          AltS(<<Guarded(<<RecvG(V("c"), Nothing), RecvG(At0(V("cs"), I(0)), DeclE("v", Nothing))>>, ArmBody),
                 Guarded(<<SendG(Dot(V("o"), "c"), Bin("add", V("a"), I(1)))>>, <<BreakS("")>>),
                 Guarded(<<RecvG(V("c"), TupleDeclE(<<"x", "nil">>, Nothing))>>, ArmBody),
                 Guarded(<<RecvG(V("c"), SetE(Tup(<<V("x"), V("y")>>), Nothing))>>, <<>>), Guarded(<<AnyP>>, ArmBody)>>)>>)
\* As many tokens in a pattern as the parser looks ahead over, less the arrow.
Names0(n) == [i \in 1 .. n |-> Is(V("n"))]
LongPattern == Stmts(<<Case(V("a"), <<Arm(<<Is(I(1))>>, <<EmptyS>>), Arm(Names0(30), <<EmptyS>>)>>)>>)

SyntaxSources ==
  LET files == Spread(Expressions)
  IN [n \in DOMAIN files |-> Plain0(files[n])]
       \o [n \in 1 .. 7 |-> Plain0(<<Literals, Arrays, Declarations, Statements, ArmsOfAll, LongPattern, SourceFile(<<>>, <<>>, <<>>)>>[n])]
RefusedSources ==
  <<Refused(Stmts(<<AltS(<<Guarded(<<SendG(V("c"), V("d")), RecvG(V("c"), OpSetE(V("x"), "add", Nothing))>>, <<>>)>>)>>), <<>>),
    Refused(Exprs(<<Nil>>), <<Sign("@")>>), Refused(Exprs(<<Nil>>), <<Sign("\""), Sign("+")>>), Refused(Exprs(<<Nil>>), <<Sign("'"), Sign("+"), Sign("-")>>),
    Refused(Exprs(<<Nil>>), <<Sign("}")>>), Refused(Stmts(<<Let("int", V("t"))>>), <<>>),
    Refused(Stmts(<<Pick("x", V("y"), <<Variant(<<"A", "nil">>, <<>>)>>)>>), <<>>),
    Refused(SourceFile(<<"nil">>, <<>>, <<>>), <<>>), Refused(SourceFile(<<>>, <<>>, <<VarDecl(<<"x">>, T("nil"), Nothing)>>), <<>>)>>

-----------------------------------------------------------------------------
(* Files that declare nothing but data, and the interfaces they include.       *)

RealT == Basic("real")
ByteT == Basic("byte")
RealOf(whole, digits) == RealLit(<<whole, digits>>)
Q(module, name) == ModQual(V(module), name)
ConOf(name, e) == ConGroup(<<name>>, e)
Add(l, r) == Bin("add", l, r)
Iota == V("iota")
Minus(n) == Un("neg", I(n))
ByteOf(n) == As(ByteT, I(n))
At(selectors, e) == [at |-> Selected(selectors), e |-> e]
One(lo) == [lo |-> lo, hi |-> Nothing]
Range0(lo, hi) == [lo |-> lo, hi |-> hi]
Other(e) == [at |-> AnyP, e |-> e]
Filling(size, elems) == ArrayE(size, elems)
Word0(w) == <<[c |-> "word", v |-> w]>>
Path(w) == Word0(w) \o <<Sign(".")>> \o Word0("m")
WordsOfStrings == <<"a", "bc", "sys">>

\* Another interface's constants, several counts of iota, what is no constant, and names of all kinds.
SysM ==
  SourceFile(<<>>, <<>>,
    <<Module("Sys",
        ConOf("PATH", Str(<<"sys">>)) \o ConGroup(<<"OREAD", "OWRITE", "ORDWR">>, Iota) \o ConOf("NAMEMAX", Bin("shl", I(1), I(5)))
          \o ConGroup(<<"SEEK", "TELL">>, Bin("mul", I(3), Add(Iota, I(1)))) \o ConOf("LATER", Iota) \o ConOf("TWICE", Add(V("NAMEMAX"), V("NAMEMAX")))
          \o ConOf("ORIGIN", Tup(<<I(0), I(0)>>)) \o ConOf("HALF", Bin("div", RealOf(1, 0), I(4)))
          \o <<Sig("open", <<Par("s", StringT)>>, IntT), VarDecl(<<"count">>, IntT, Nothing), TypeAlias("Id", IntT),
               Adt("FD", <<VarDecl(<<"fd">>, IntT, Nothing)>>, <<>>)>>)>>)
BufioM ==
  SourceFile(<<>>, <<Path("sys")>>,
    <<Module("Bufio", ConOf("SIZE", Bin("mul", Q("Sys", "TELL"), I(7))) \o ConGroup(<<"EOF", "ERROR">>, Bin("sub", Minus(1), Iota)))>>
      \o ConOf("LIMIT", I(40)) \o ConOf("DOUBLE", Bin("shl", I(21), I(1))))
\* The interface of what includes it.
TestM ==
  SourceFile(<<>>, <<>>,
    <<Module("Test", ConGroup(<<"LOW", "MID">>, Add(Iota, I(5))) \o ConOf("NAME", Add(Str(<<"a">>), Str(<<"bc">>)))
                       \o <<Sig("run", <<>>, NoType), VarDecl(<<"shared">>, IntT, Nothing)>>)>>)
Library == <<[path |-> Path("sys"), file |-> Plain0(SysM)], [path |-> Path("bc"), file |-> Plain0(BufioM)],
             [path |-> Path("a"), file |-> Plain0(TestM)], [path |-> Path("north"), file |-> Refused(SysM, <<Sign("@")>>)]>>

DataFile(includes, decls) == SourceFile(<<"Test">>, [n \in DOMAIN includes |-> Path(includes[n])], decls)

Constants ==
  DataFile(<<>>, ConGroup(<<"A0", "A1", "A2">>, Iota) \o ConGroup(<<"B0", "B1">>, Bin("sub", I(9), Bin("mul", Iota, I(4))))
    \o ConOf("C", Bin("xor", Bin("or", V("A2"), I(5)), V("B1"))) \o ConOf("S", Add(Str(<<"a">>), As(StringT, Minus(42)))) \o ConOf("D", Add(V("C"), Of("len", V("S"))))
    \o ConOf("F", Bin("sub", RealOf(2, 5), As(RealT, V("B0")))) \o ConOf("G", As(IntT, Bin("mul", V("F"), RealOf(1, 5)))) \o ConOf("E", Un("inv", Un("neg", V("D"))))
    \o ConOf("T", Bin("ge", V("A2"), V("A1"))) \o ConOf("U", Bin("lt", V("A2"), V("A1"))) \o ConOf("N", Un("not", V("U")))
    \o <<Var("a", NoType, V("A1")), Var("b", IntT, V("B1")), Var("c", NoType, Bin("mul", V("C"), I(30))), Var("d", NoType, V("D")), Var("e", NoType, V("E")),
         Var("s", StringT, Add(V("S"), Str(<<"bc">>))), Var("f", NoType, V("F")), Var("g", NoType, V("G")), Var("t", NoType, Add(Bin("shl", V("T"), I(3)), V("N"))),
         Var("q", NoType, Bin("shr", Minus(37), I(2))), Var("r", NoType, Bin("mod", Minus(37), I(5))), Var("z", NoType, Bin("div", Minus(37), I(5)))>>)
\* Words, bigs and reals next to one another, with and without a value.
Slots ==
  DataFile(<<>>, <<Var("a", NoType, I(3)), Var("b", NoType, I(600)), Var("c", IntT, Nothing), Var("d", RealT, RealOf(0, 25)), Var("e", StringT, Nothing),
               Var("f", BigT, Minus(700)), Var("g", IntT, I(511)), VarDecl(<<"h", "i">>, BigT, I(5)), Var("j", NoType, As(BigT, I(1))),
               Var("k", NoType, As(RealT, Minus(2))), VarDecl(<<"l", "m">>, StringT, Str(<<"a">>)), Var("n", NoType, Add(As(BigT, I(500)), I(500))),
               Var("o", ListT(IntT), Nothing), Var("p", IntT, Minus(512))>>)
Arrays0 ==
  DataFile(<<>>, ConOf("N", I(3)) \o
    <<Var("a", NoType, ArrayOf(IntT, Add(V("N"), I(1)))), Var("b", ArrayT(BigT), ArrayOf(BigT, I(2))), Var("c", NoType, Given(<<I(7), Un("neg", V("N"))>>)),
      Var("d", NoType, Given(<<ByteOf(200), ByteOf(7), ByteOf(0), ByteOf(255), ByteOf(1)>>)), Var("e", NoType, Given(<<Str(<<"a">>), Str(<<"bc", "a">>)>>)),
      Var("f", NoType, Given(<<RealOf(1, 5), RealOf(0, 5)>>)), Var("g", ArrayT(BigT), Given(<<I(3), Minus(600), I(600)>>)),
      Var("h", NoType, Filling(I(6), <<At(<<One(I(4)), Range0(I(1), I(2))>>, I(11)), [at |-> Nothing, e |-> I(12)], Other(I(13)), At(<<One(I(4))>>, I(14))>>)),
      Var("i", NoType, Filling(Nothing, <<At(<<One(V("N"))>>, Str(<<"a">>)), [at |-> Nothing, e |-> Str(<<"bc">>)], At(<<One(I(0))>>, Str(<<>>))>>)),
      Var("j", ArrayT(ByteT), Filling(I(20), <<Other(ByteOf(3)), At(<<Range0(I(16), I(19))>>, ByteOf(4))>>)), Var("k", NoType, ArrayOf(StringT, I(2))),
      Var("l", ArrayT(StringT), Nothing), Var("m", NoType, Given(<<>>)), Var("n", ArrayT(RealT), Filling(I(2), <<Other(I(2))>>)),
      VarDecl(<<"o", "p">>, ArrayT(IntT), Given(<<I(1), I(2)>>)), Var("q", ArrayT(IntT), ArrayOf(IntT, I(0))), Var("r", NoType, I(9))>>)
\* Imports through a variable and from an interface, the scope of the interface, and what hides what.
Imports ==
  DataFile(<<"sys", "bc", "a">>, <<Var("sys", T("Sys"), Nothing), Import(<<"OWRITE", "NAMEMAX", "open", "ORIGIN">>, "sys"), Import(<<"EOF">>, "Bufio")>>
    \o ConOf("LIMIT", I(41)) \o ConOf("MINE", Add(V("NAMEMAX"), V("MID")))
    \o <<Var("a", NoType, V("OWRITE")), Var("b", NoType, V("MINE")), Var("c", NoType, Q("Sys", "LATER")), Var("d", NoType, Q("Bufio", "SIZE")),
         Var("e", NoType, Add(V("LIMIT"), V("DOUBLE"))), Var("f", NoType, Q("Bufio", "ERROR")), Var("g", NoType, V("NAME")), Var("h", NoType, Q("Sys", "TWICE")),
         Var("i", StringT, Q("Sys", "PATH")), Var("j", NoType, Given(<<V("EOF"), V("LOW"), Q("Sys", "TELL"), Q("Test", "MID")>>)), Var("k", RealT, Q("Sys", "HALF"))>>)
\* An interface in the file, whose variable the file sets, and includes that are missing or no Limbo.
Interface ==
  DataFile(<<"north", "m">>, <<Module("Test", ConGroup(<<"ONE", "TWO">>, Add(Iota, I(1))) \o ConOf("THREE", Add(V("ONE"), V("TWO")))
                                    \o <<VarDecl(<<"x", "y">>, IntT, Nothing), Var("w", StringT, Nothing)>>),
             Module("Other", ConGroup(<<"P", "Q", "R">>, Bin("mul", Iota, I(10))) \o <<VarDecl(<<"x">>, BigT, Nothing)>>)>>
    \o ConOf("FOUR", Add(V("THREE"), V("ONE"))) \o ConOf("P", I(1))
    \o <<Var("y", IntT, V("FOUR")), Var("w", StringT, Str(<<"a">>)), Var("z", NoType, Add(Q("Other", "R"), Q("Test", "TWO"))), Var("v", NoType, V("P"))>>)
\* An import wins over the interface that is implemented, and a constant of the file over both.
Hiding ==
  DataFile(<<"sys", "a">>, <<Module("Low", ConOf("LOW", I(100)) \o ConOf("MID", I(200))), Import(<<"LOW", "MID">>, "Low")>> \o ConOf("MID", I(300))
    \o <<Var("a", NoType, V("LOW")), Var("b", NoType, V("MID")), Var("c", NoType, Q("Test", "LOW"))>>)

DataFiles == [n \in 1 .. 6 |-> Plain0(<<Constants, Slots, Arrays0, Imports, Interface, Hiding>>[n])]

\* Nothing would run what is not constant; names that are no members; arrays of no length.
NotGenerated ==
  LET file(includes, decls) == [Plain0(DataFile(includes, decls)) EXCEPT !.refused = "generating"]
  IN <<file(<<>>, <<Var("a", IntT, I(1)), Var("b", NoType, V("a"))>>), file(<<>>, ConOf("A", V("B")) \o ConOf("B", I(1)) \o <<Var("a", NoType, V("A"))>>),
       file(<<>>, <<Var("a", NoType, Bin("div", I(1), I(0)))>>), file(<<"sys">>, <<Import(<<"nothing">>, "Sys")>>),
       file(<<"sys">>, <<Var("a", NoType, V("PATH"))>>), file(<<"sys">>, <<Var("a", NoType, Q("Sys", "ORIGIN"))>>),
       file(<<"sys">>, <<Var("a", NoType, Q("Sys", "count"))>>), file(<<"north">>, <<Var("a", NoType, Q("Sys", "OREAD"))>>),
       file(<<>>, <<Var("a", NoType, ArrayOf(IntT, Minus(1)))>>), file(<<>>, <<Var("a", NoType, Filling(I(2), <<At(<<One(I(2))>>, I(1))>>))>>),
       file(<<>>, <<Var("a", NoType, Filling(Nothing, <<At(<<One(Minus(1))>>, I(1))>>))>>), file(<<>>, <<Var("a", NoType, Given(<<I(1), V("a")>>))>>),
       file(<<>>, <<Var("a", NoType, Filling(Nothing, <<At(<<One(Str(<<"a">>))>>, I(1))>>))>>),
       file(<<>>, <<Var("a", NoType, Bin("sub", Str(<<"a">>), Str(<<"a">>)))>>), file(<<>>, <<Var("a", NoType, Of("len", I(1)))>>),
       file(<<"sys">>, <<Import(<<"nothing">>, "Other")>> \o <<Var("a", NoType, V("nothing"))>>)>>

=============================================================================
