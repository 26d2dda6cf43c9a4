------------------------------- MODULE LimboPrograms ----------------------------
(* Limbo programs, each small and together one of every construct: operators   *)
(* over both widths into every kind of target, jumps out of every kind of      *)
(* construct, calls and layouts, objects, threads.  A program leaves what it   *)
(* computes in module variables.                                               *)
EXTENDS Dis, Syntax, TLC

\* Shorter names.
I(v) == IF v < 0 THEN Un("neg", IntLit(-v)) ELSE IntLit(v)
V(name) == Ident(name)
As(type, e) == Cast(type, e)
At0(e, i) == IndexE(e, i)
Ref(name, tag, args) == NewRecord(name, tag, args)
Tup(elems) == TupleE(elems)
Positional(elems) == [n \in DOMAIN elems |-> [at |-> Nothing, e |-> elems[n]]]
Given(elems) == ArrayE(Nothing, Positional(elems))
Filled(elems, size, default) == ArrayE(size, Positional(elems) \o <<[at |-> AnyP, e |-> default]>>)
Chan(elem) == ChanE(elem)
Call0(name, args) == CallE(V(name), args)
Do(e) == ExprS(e)
Set(to, e) == Do(SetE(to, e))
Bump(to, fn, e) == Do(OpSetE(to, fn, e))
Let(name, e) == Do(DeclE(name, e))
LetTuple(names, e) == Do(TupleDeclE(names, e))
Var(name, type, init) == VarDecl(<<name>>, type, init)
SendS(chan, e) == Do(SendE(chan, e))
If(cond, then, else) == IfS(cond, then, else)
While(cond, body) == WhileS(cond, BlockS(body))
DoWhile(cond, body) == DoS(cond, BlockS(body))
For(init, cond, post, body) == ForS(init, cond, post, BlockS(body))
Case(e, arms) == CaseS(e, arms)
Pick(name, e, arms) == PickS(name, e, arms)
Label(name, s) == LabelS(name, s)
Ret0(e) == ReturnS(e)
Spawned(name, args) == SpawnS(Call0(name, args))
Fn(name, params, ret, body) == Func("", name, params, ret, body)
Par(name, type) == Param(name, type, FALSE)
Global(name, type, init) == VarDecl(<<name>>, type, init)

\* The ADTs, as a table and as they are declared.
MCAdts ==
  [Pair |-> [fields |-> << <<"n", IntT>>, <<"w", BigT>>, <<"next", RefT(<<"Pair", "">>)>> >>, pick |-> <<>>],
   Shape |-> [fields |-> << <<"id", IntT>> >>,
              pick |-> << [tags |-> <<"Dot">>, fields |-> <<>>],
                          [tags |-> <<"Box", "Tile">>, fields |-> << <<"area", BigT>> >>],
                          [tags |-> <<"Group">>, fields |-> << <<"part", RefT(<<"Shape", "">>)>>, <<"n", IntT>> >>] >>]]
Fields0(fields) == [n \in DOMAIN fields |-> VarDecl(<<fields[n][1]>>, fields[n][2], Nothing)]
AdtDecl(name) ==
  LET pick == MCAdts[name].pick
  IN Adt(name, Fields0(MCAdts[name].fields), [n \in DOMAIN pick |-> PickCase(pick[n].tags, Fields0(pick[n].fields))])
File(globals, funcs) == SourceFile(<<"Test">>, <<>>, <<AdtDecl("Pair"), AdtDecl("Shape")>> \o globals \o funcs)
Main(body) == Fn("init", <<>>, NoType, body)
R == Global("r", IntT, Nothing)
B == Global("b", BigT, Nothing)
Only(body) == File(<<R, B>>, <<Main(body)>>)
\* r counts in a way that tells the order of what was counted.
Mix(v) == Set(V("r"), Bin("add", Bin("mul", V("r"), I(3)), v))
MixB(v) == Set(V("b"), Bin("add", Bin("mul", V("b"), As(BigT, I(3))), v))

-----------------------------------------------------------------------------
(* Operators: ints and bigs near the ends of their ranges, into a local, a     *)
(* variable of the module, an element, a field and the field of a tuple.       *)

Operators == <<"add", "sub", "mul", "div", "mod", "shl", "shr", "and", "or", "xor",
               "eq", "ne", "lt", "gt", "le", "ge">>
Operator(fn, k, a, b) ==
  LET type == IF k = "w" THEN IntT ELSE BigT
      kind == IF fn \in Comparisons THEN IntT ELSE type
      mix(v) == IF kind = IntT THEN Mix(v) ELSE MixB(v)
      e == Bin(fn, V("x"), IF fn \in {"shl", "shr"} THEN I(b % 5) ELSE V("y"))
  IN Only(<<Var("x", type, As(type, I(a))), Var("y", type, As(type, I(b))),
            Let("a", ArrayOf(kind, I(2))),
            Let("t", Tup(<<I(1), As(kind, I(0)), I(2)>>)),
            Let("z", e), mix(V("z")),
            Set(At0(V("a"), I(1)), e), mix(At0(V("a"), I(1))),
            Set(Dot(V("t"), "t1"), e), LetTuple(<<"u", "v", "w">>, V("t")), mix(V("v")), Mix(V("w")),
            mix(e)>>)
OperatorPrograms ==
  FlattenSeq([n \in DOMAIN Operators |->
    LET fn == Operators[n]
    IN <<Operator(fn, "w", 100, 50), Operator(fn, "w", -7, 2), Operator(fn, "w", 3, 3),
         Operator(fn, "l", 300, 150), Operator(fn, "l", -700, 3)>>])

-----------------------------------------------------------------------------
(* Control: the jumps out of an inner loop of every kind, from an if and from  *)
(* a case, in an outer loop that is labelled.                                  *)

Jumps0 == <<EmptyS, BreakS(""), ContinueS(""), BreakS("out"), ContinueS("out")>>
Lt(l, r) == Bin("lt", l, r)
Eq(l, r) == Bin("eq", l, r)
Plus(l, r) == Bin("add", l, r)
Inc(e) == Of("inc", e)
Inner(loop, body) ==
  CASE loop = "while" -> <<Let("j", I(0)), While(Lt(V("j"), I(3)), <<Do(Inc(V("j")))>> \o body)>>
    [] loop = "do"    -> <<Let("j", I(0)), DoWhile(Lt(V("j"), I(3)), <<Do(Inc(V("j")))>> \o body)>>
    [] loop = "for"   -> <<For(Do(DeclE("j", I(0))), Lt(V("j"), I(3)), Do(Inc(V("j"))), body)>>
Within(context, jump) ==
  CASE context = "if"   -> If(Eq(V("j"), I(2)), BlockS(<<jump>>), Mix(I(1)))
    [] context = "case" -> Case(V("j"), <<Arm(<<Is(I(2)), Is(I(9))>>, <<jump, Mix(I(5))>>),
                                          Arm(<<Between(I(3), I(4))>>, <<Mix(I(6))>>),
                                          Arm(<<AnyP>>, <<Mix(I(7))>>)>>)
Control(loop, context, jump) ==
  Only(<<Let("i", I(0)),
         Label("out", For(Set(V("i"), I(0)), Lt(V("i"), I(3)), Do(Inc(V("i"))),
                          Inner(loop, <<Within(context, jump), Mix(V("j"))>>) \o <<Mix(V("i"))>>))>>)
ControlPrograms ==
  FlattenSeq([n \in DOMAIN Jumps0 |->
    <<Control("while", "if", Jumps0[n]), Control("while", "case", Jumps0[n]),
      Control("do", "if", Jumps0[n]), Control("do", "case", Jumps0[n]),
      Control("for", "if", Jumps0[n]), Control("for", "case", Jumps0[n])>>])

-----------------------------------------------------------------------------
(* Conditions whose operands leave a trace when they are evaluated.            *)

\* f mixes its argument and returns it.
F == Fn("f", <<Par("v", IntT)>>, IntT, <<Mix(Plus(V("v"), I(1))), Ret0(V("v"))>>)
Fof(v) == Call0("f", <<I(v)>>)
Conditions(a, b, c) ==
  LET one == And(Or(Fof(a), Fof(b)), Fof(c))
      two == Or(And(Fof(a), Fof(b)), Un("not", Fof(c)))
  IN File(<<R, B>>,
          <<F, Main(<<Let("x", one), Mix(V("x")), Set(V("x"), two), Mix(V("x")),
                      If(one, Mix(I(1)), Mix(I(2))), If(two, Mix(I(1)), Nothing),
                      While(And(Lt(V("x"), I(3)), Or(Fof(c), Fof(a))), <<Do(Inc(V("x")))>>)>>)>>)
ConditionPrograms ==
  FlattenSeq([a \in 1 .. 2 |-> FlattenSeq([b \in 1 .. 2 |-> [c \in 1 .. 2 |-> Conditions(a - 1, b - 1, c - 1)]])])

-----------------------------------------------------------------------------
(* Calls: parameters of every width, what is returned, recursion, calls of     *)
(* functions that come later, frames that grow, the variables of the module.   *)

Big(v) == As(BigT, I(v))
Pt == TupleT(<<IntT, BigT>>)
CallG(a, b, c, d, e) ==   \* g(a: int, b: big, c: int, d: (int, big), e: int)
  Call0("g", <<a, b, c, d, e>>)
G == Fn("g", <<Par("a", IntT), Par("b", BigT), Par("c", IntT), Par("d", Pt), Par("e", IntT)>>, BigT,
          <<Mix(V("a")), Mix(V("c")), Mix(V("e")), MixB(V("b")), LetTuple(<<"x", "y">>, V("d")), Mix(V("x")), MixB(V("y")),
            Ret0(Plus(V("b"), V("y")))>>)
\* h(n) returns (n + 1, big n * big 2), k(p) swaps a pair.
H == Fn("h", <<Par("n", IntT)>>, Pt, <<Ret0(Tup(<<Plus(V("n"), I(1)), Bin("mul", As(BigT, V("n")), Big(2))>>))>>)
K == Fn("k", <<Par("p", Pt)>>, TupleT(<<BigT, IntT>>), <<LetTuple(<<"x", "y">>, V("p")), Ret0(Tup(<<V("y"), V("x")>>))>>)
Call1(name, e) == Call0(name, <<e>>)
Less(e, n) == Bin("sub", e, I(n))
LayoutProgram ==
  File(<<R, B>>,
       <<Main(<<MixB(CallG(I(3), Big(300), I(5), Tup(<<I(7), Big(400)>>), I(9))),
                Let("t", Call1("h", I(20))), LetTuple(<<"u", "v">>, Call1("k", V("t"))), MixB(V("u")), Mix(V("v")),
                Do(CallG(I(1), Big(2), I(3), V("t"), I(4))), MixB(Dot(Call1("k", Call1("h", I(4))), "t0"))>>), G, H, K>>)
\* fact and the mutual recursion of even and odd; a function that returns from within a loop.
Fact == Fn("fact", <<Par("n", IntT)>>, IntT,
             <<If(Bin("le", V("n"), I(1)), Ret0(I(1)), Nothing), Ret0(Bin("mul", V("n"), Call1("fact", Less(V("n"), 1))))>>)
Parity(name, other, base) ==
  Fn(name, <<Par("n", IntT)>>, IntT,
       <<If(Eq(V("n"), I(0)), Ret0(I(base)), Ret0(Call1(other, Less(V("n"), 1))))>>)
First == Fn("first", <<Par("n", IntT), Par("m", IntT)>>, IntT,
              <<For(Nothing, Nothing, Do(Inc(V("n"))), <<If(Eq(Bin("mod", V("n"), V("m")), I(0)), Ret0(V("n")), Nothing)>>), Ret0(I(0))>>)
RecursionProgram ==
  File(<<R, B>>,
       <<Fact, Main(<<Mix(Call1("fact", I(5))), Mix(Call1("even", I(3))), Mix(Call1("odd", I(3))),
                      Mix(Call0("first", <<I(7), I(5)>>)), Mix(Plus(Call1("fact", Call1("fact", I(3))), Call1("fact", I(2))))>>),
         Parity("even", "odd", 1), Parity("odd", "even", 0), First>>)
\* The variables of the module: constants, what is computed before init, a big after an int.
GlobalsProgram ==
  File(<<R, Global("c", NoType, I(5)), Global("d", BigT, I(7)), Global("s", IntT, Call0("twice", <<I(6)>>)), B,
         Global("e", NoType, I(1000)), Global("l", ListT(IntT), ConsE(I(2), Nil))>>,
       <<Fn("twice", <<Par("n", IntT)>>, IntT, <<Set(V("c"), Plus(V("c"), V("n"))), Ret0(Plus(V("n"), V("n")))>>),
         Fn("note", <<Par("n", IntT)>>, NoType, <<If(Lt(V("n"), I(0)), BlockS(<<Set(V("r"), I(99)), Ret0(Nothing)>>), Nothing), Mix(V("n"))>>),
         Main(<<Mix(V("c")), Mix(V("s")), MixB(V("d")), MixB(V("e")), Do(Call1("note", I(4))), Do(Inc(V("d"))), MixB(V("d")),
                Bump(V("c"), "mul", I(3)), Mix(V("c")), Let("x", Of("hd", V("l"))), Mix(V("x")), Do(Call1("note", I(-4))),
                Mix(I(1))>>)>>)
\* More locals than the first frame has room for, in a function that is called while others are live.
Locals == [n \in 1 .. 12 |-> "v" \o ToString(n)]
ManyProgram ==
  File(<<R, B>>,
       <<Fn("many", <<Par("a", BigT), Par("b", IntT)>>, BigT,
              [n \in DOMAIN Locals |-> Let(Locals[n], Plus(V("b"), I(n)))]
                \o <<If(Lt(I(0), V("b")), MixB(Call0("many", <<Plus(V("a"), Big(1)), Less(V("b"), 1)>>)), Nothing)>>
                \o <<Mix(Plus(V("v1"), V("v12"))), Ret0(Plus(V("a"), As(BigT, V("v7"))))>>),
         Main(<<MixB(Call0("many", <<Big(500), I(2)>>))>>)>>)
CallPrograms == <<LayoutProgram, RecursionProgram, GlobalsProgram, ManyProgram>>

-----------------------------------------------------------------------------
(* Data: records and their variants, lists, arrays, tuples in tuples.          *)

PairT == RefT(<<"Pair", "">>)
ShapeT == RefT(<<"Shape", "">>)
NewPair(n, w, next) == Ref("Pair", "", <<n, w, next>>)
RecordProgram ==
  Only(<<Let("p", NewPair(I(3), Big(300), Nil)), Let("q", NewPair(Plus(Dot(V("p"), "n"), I(1)), Dot(V("p"), "w"), V("p"))),
         Set(Dot(V("p"), "w"), Plus(Dot(V("q"), "w"), Big(5))), MixB(Dot(Dot(V("q"), "next"), "w")),
         Do(Inc(Dot(Dot(V("q"), "next"), "n"))), Do(Inc(Dot(V("p"), "w"))), MixB(Dot(V("p"), "w")), Mix(Dot(V("p"), "n")),
         Set(Dot(V("p"), "next"), NewPair(I(9), Big(9), V("q"))), Mix(Dot(Dot(Dot(V("q"), "next"), "next"), "n")),
         Set(Dot(V("p"), "next"), Nil), If(Eq(Dot(V("p"), "next"), Nil), Mix(I(1)), Mix(I(2))),
         Set(V("q"), V("p")), Mix(Dot(V("q"), "n"))>>)
\* area(s) adds up what it finds in the variants.
Area ==
  Fn("area", <<Par("s", ShapeT)>>, BigT,
       <<Mix(Dot(V("s"), "id")), Mix(Of("tagof", V("s"))),
         Pick("x", V("s"), <<Variant(<<"Box", "Tile">>, <<Ret0(Dot(V("x"), "area"))>>),
                             Variant(<<"Group">>, <<Mix(Dot(V("x"), "n")), If(Eq(Dot(V("x"), "part"), Nil), BreakS(""), Nothing),
                                                    Ret0(Plus(Call1("area", Dot(V("x"), "part")), Big(1)))>>),
                             Variant(<<"*">>, <<Mix(I(8))>>)>>),
         Ret0(Big(7))>>)
ShapeProgram ==
  File(<<R, B>>,
       <<Main(<<Let("d", Ref("Shape", "Dot", <<I(1)>>)), Let("t", Ref("Shape", "Tile", <<I(2), Big(500)>>)),
                Let("g", Ref("Shape", "Group", <<I(3), V("t"), I(4)>>)), Let("h", Ref("Shape", "Group", <<I(5), Nil, I(6)>>)),
                MixB(Call1("area", V("d"))), MixB(Call1("area", V("t"))), MixB(Call1("area", V("g"))), MixB(Call1("area", V("h")))>>),
         Area>>)
\* Lists built in front and taken apart, shared tails, a list of records.
ListProgram ==
  Only(<<Let("l", ListE(<<I(3), I(1), I(2)>>)), Let("m", ConsE(I(5), V("l"))), Let("k", ConsE(I(6), V("l"))),
         Set(V("l"), Nil), While(V("m"), <<Mix(Of("hd", V("m"))), Set(V("m"), Of("tl", V("m")))>>),
         Mix(Of("hd", Of("tl", V("k")))), Set(V("k"), Of("tl", Of("tl", V("k")))),
         For(Nothing, Bin("ne", V("k"), Nil), Set(V("k"), Of("tl", V("k"))), <<Mix(Of("hd", V("k")))>>)>>)
SharedListProgram ==
  Only(<<Let("l", ListE(<<I(3), I(1)>>)), Let("m", V("l")), While(V("l"), <<Set(V("l"), Of("tl", V("l")))>>),
         While(V("m"), <<Mix(Of("hd", V("m"))), Set(V("m"), Of("tl", V("m")))>>)>>)
RecordListProgram ==
  Only(<<Var("l", ListT(PairT), Nothing), Var("p", PairT, Nothing),
         For(Do(DeclE("i", I(0))), Lt(V("i"), I(3)), Do(Inc(V("i"))),
             <<Set(V("l"), ConsE(NewPair(V("i"), As(BigT, V("i")), V("p")), V("l"))), Set(V("p"), Of("hd", V("l")))>>),
         Set(V("p"), Nil), Set(V("p"), Of("hd", Of("tl", V("l")))), Set(V("l"), Nil), Mix(Dot(V("p"), "n"))>>)
\* Arrays: a default, given elements over it, arrays of arrays and of bigs, elements swapped.
ArrayProgram ==
  Only(<<Let("a", Filled(<<I(4), I(5)>>, I(4), I(7))), Let("c", Given(<<Big(300), Big(301)>>)), Let("i", I(1)),
         Let("n", Of("len", V("a"))), Mix(V("n")), Bump(At0(V("a"), V("i")), "mul", I(3)), Do(Inc(At0(V("a"), I(3)))),
         Set(Tup(<<At0(V("a"), I(0)), At0(V("a"), V("i"))>>), Tup(<<At0(V("a"), V("i")), At0(V("a"), I(0))>>)),
         For(Set(V("i"), I(0)), Lt(V("i"), V("n")), Do(Inc(V("i"))), <<Mix(At0(V("a"), V("i")))>>),
         Bump(At0(V("c"), I(1)), "add", At0(V("c"), I(0))), Do(Of("dec", At0(V("c"), I(0)))), MixB(At0(V("c"), I(0))), MixB(At0(V("c"), I(1)))>>)
NestedArrayProgram ==
  File(<<R, B>>,
       <<Fn("put", <<Par("a", ArrayT(IntT)), Par("i", IntT), Par("v", IntT)>>, IntT,
              <<Let("old", At0(V("a"), V("i"))), Set(At0(V("a"), V("i")), V("v")), Ret0(V("old"))>>),
         Main(<<Let("a", ArrayOf(ArrayT(IntT), I(2))), Let("b", ArrayOf(IntT, I(3))), Set(At0(V("a"), I(1)), V("b")),
                Mix(Call0("put", <<V("b"), I(2), I(6)>>)), Set(At0(At0(V("a"), I(1)), I(0)), I(5)),
                Mix(Call0("put", <<At0(V("a"), I(1)), I(0), I(8)>>)), Mix(At0(V("b"), I(0))), Mix(At0(At0(V("a"), I(1)), I(2))),
                Var("p", PairT, NewPair(I(1), Big(2), Nil)), Let("c", Filled(<<>>, I(2), V("p"))),
                Do(Inc(Dot(V("p"), "n"))), Set(V("p"), Nil), Set(V("p"), At0(V("c"), I(1))), Mix(Dot(V("p"), "n"))>>)>>)
TupleProgram ==
  Only(<<LetTuple(<<"x", "y">>, Tup(<<I(1), Big(400)>>)), Let("t", Tup(<<I(2), Tup(<<V("x"), V("y")>>), I(3)>>)),
         LetTuple(<<"u", "v", "nil">>, V("t")), LetTuple(<<"m", "n">>, V("v")), Mix(V("u")), Mix(V("m")), MixB(V("n")),
         Set(Tup(<<V("u"), V("m")>>), Tup(<<V("m"), V("u")>>)), Mix(V("u")), Set(Dot(V("v"), "t0"), I(9)), Set(Dot(V("v"), "t1"), Big(401)),
         Set(Tup(<<V("x"), V("y")>>), V("v")), Mix(V("x")), MixB(V("y")), Set(Tup(<<Nil, V("y")>>), Dot(V("t"), "t1")), MixB(V("y"))>>)
ValueProgram ==
  Only(<<Let("i", I(3)), Let("j", Inc(V("i"))), Mix(V("j")), Let("k", SetE(V("i"), Plus(V("j"), I(9)))), Mix(V("k")),
         Mix(Un("neg", V("i"))), Mix(Un("inv", V("i"))), Mix(Un("not", V("i"))), MixB(Un("neg", Big(300))), MixB(Un("inv", Big(300))),
         Let("c", As(BigT, Un("neg", V("i")))), MixB(V("c")), Mix(As(IntT, Big(300))), MixB(Of("dec", V("c"))), MixB(V("c"))>>)
DataPrograms == <<RecordProgram, ShapeProgram, ListProgram, SharedListProgram, RecordListProgram, ArrayProgram, NestedArrayProgram, TupleProgram, ValueProgram>>

-----------------------------------------------------------------------------
(* Threads that talk over channels; may says what the main thread may be left  *)
(* with.  A thread has variables of the module of its own.                     *)

Leaves(values) == {[r |-> [v |-> Wrap("w", v[1])], b |-> [v |-> Wrap("l", v[2])]] : v \in values}
Threaded(values, funcs) == [may |-> Leaves(values)] @@ File(<<R, B>>, funcs)
RecvE(chan) == Of("recv", V(chan))
\* prod(c, n) sends 1 .. n on a channel of ints, bigs(c) two bigs, pairs(c) one (int, big).
Prod == Fn("prod", <<Par("c", ChanT(IntT)), Par("n", IntT)>>, NoType,
             <<For(Do(DeclE("i", I(1))), Bin("le", V("i"), V("n")), Do(Inc(V("i"))), <<SendS(V("c"), V("i"))>>)>>)
Bigs == Fn("bigs", <<Par("c", ChanT(BigT))>>, NoType, <<SendS(V("c"), Big(300)), SendS(V("c"), I(5))>>)
Pairs == Fn("pairs", <<Par("n", IntT), Par("c", ChanT(Pt))>>, NoType, <<Mix(I(1)), SendS(V("c"), Tup(<<V("n"), Big(301)>>)), ExitS>>)
OneProducer ==
  Threaded({<<9 + 6 + 3, 0>>},
           <<Main(<<Let("c", Chan(IntT)), Spawned("prod", <<V("c"), I(3)>>), Mix(RecvE("c")), Mix(RecvE("c")), Mix(RecvE("c"))>>), Prod>>)
TwoProducers ==
  Threaded({<<9 * 1 + 3 * 1 + 2, 0>>, <<9 * 1 + 3 * 2 + 1, 0>>},
           <<Main(<<Let("c", Chan(IntT)), Spawned("prod", <<V("c"), I(2)>>), Spawned("prod", <<V("c"), I(1)>>),
                    Mix(RecvE("c")), Mix(RecvE("c")), Mix(RecvE("c"))>>), Prod>>)
WideChannels ==
  Threaded({<<7, (300 * 3 + 301) * 3 + 5>>},
           <<Main(<<Let("c", Chan(BigT)), Let("d", Chan(Pt)), Spawned("bigs", <<V("c")>>), Spawned("pairs", <<I(7), V("d")>>),
                    MixB(RecvE("c")), LetTuple(<<"x", "y">>, RecvE("d")), Mix(V("x")), MixB(V("y")), MixB(RecvE("c"))>>), Bigs, Pairs>>)
Twice(body) == For(Do(DeclE("i", I(0))), Lt(V("i"), I(2)), Do(Inc(V("i"))), <<body>>)
\* An alt that receives from two producers, into a name of its own and into a tuple.
RecvAlt ==
  Threaded({<<3 * 1 + 7, 301>>, <<3 * 7 + 1, 301>>},
           <<Main(<<Let("c", Chan(IntT)), Let("d", Chan(Pt)), Spawned("prod", <<V("c"), I(1)>>), Spawned("pairs", <<I(7), V("d")>>),
                    Twice(AltS(<<Guarded(<<RecvG(V("c"), DeclE("v", Nothing))>>, <<Mix(V("v"))>>),
                                 Guarded(<<RecvG(V("d"), TupleDeclE(<<"x", "y">>, Nothing))>>,
                                         <<Mix(V("x")), MixB(V("y"))>>)>>))>>),
             Prod, Pairs>>)
\* A send that is performed once, as long as nobody takes what was sent.
SendAlt ==
  Threaded({<<3 * (3 * 5 + 1) + 4, 0>>},
           <<Main(<<Let("c", Chan(IntT)), Let("d", Chan(IntT)), Let("a", ArrayOf(IntT, I(2))), Spawned("prod", <<V("d"), I(1)>>),
                    Twice(AltS(<<Guarded(<<RecvG(V("d"), SetE(At0(V("a"), I(1)), Nothing))>>,
                                         <<Mix(At0(V("a"), I(1))), BreakS(""), Mix(I(9))>>),
                                 Guarded(<<SendG(V("c"), I(4))>>, <<Mix(I(5))>>)>>)),
                    Mix(RecvE("c"))>>),
             Prod>>)
\* Two guards with one body.
OrAlt ==
  Threaded({<<3 * (3 * (3 * 1 + 0) + 1) + 1, 0>>, <<3 * (3 * (3 * 0 + 1) + 1) + 1, 0>>},
           <<Main(<<Let("c", Chan(IntT)), Let("d", Chan(IntT)), Let("v", I(0)), Let("a", ArrayOf(IntT, I(2))),
                    Spawned("prod", <<V("c"), I(1)>>), Spawned("prod", <<V("d"), I(1)>>),
                    Twice(AltS(<<Guarded(<<RecvG(V("c"), SetE(V("v"), Nothing)), RecvG(V("d"), SetE(At0(V("a"), I(1)), Nothing))>>,
                                         <<Mix(V("v")), Mix(At0(V("a"), I(1)))>>)>>))>>),
             Prod>>)
\* An alt that does not wait.
PollAlt ==
  Threaded({<<3 * 1 + 1, 0>>, <<3 * 0 + 2, 0>>},
           <<Main(<<Let("c", Chan(IntT)), Let("n", I(0)), Spawned("prod", <<V("c"), I(1)>>),
                    AltS(<<Guarded(<<RecvG(V("c"), SetE(V("r"), Nothing))>>, <<Do(Inc(V("n")))>>),
                           Guarded(<<AnyP>>, <<Set(V("n"), I(2))>>)>>),
                    Mix(V("n"))>>),
             Prod>>)
ThreadPrograms == <<OneProducer, TwoProducers, WideChannels, RecvAlt, SendAlt, OrAlt, PollAlt>>

\* An array of what the compiler does not take for pointers.
RefsProgram ==
  Only(<<Let("a", Given(<<NewPair(I(1), Big(2), Nil), NewPair(I(3), Big(4), Nil)>>)), Mix(I(1))>>)
MCRefs == <<RefsProgram, ControlPrograms[1]>>

RunnablePrograms ==
  OperatorPrograms \o ControlPrograms \o ConditionPrograms \o CallPrograms \o DataPrograms \o ThreadPrograms
=============================================================================
