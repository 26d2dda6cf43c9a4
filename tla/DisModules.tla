------------------------------ MODULE DisModules ------------------------------
(* Modules that no source of LimboSources compiles to: every opcode and mode,  *)
(* numbers where the form of an operand changes, every kind of data, handlers, *)
(* imports, modules that are not valid, and modules that load one another.      *)
EXTENDS Linking

\* A module, where it is refused, how much a file of it may lose, what the slots of its data hold,
\* the jumps through its tables, what it loads and what it computes.
Good(module, cuts) ==
  [module |-> module, refused |-> "nowhere", cuts |-> cuts, slots |-> <<>>, switches |-> <<>>, loads |-> <<>>, operations |-> <<>>]
Bad(module) == [Good(module, {}) EXCEPT !.refused = "loading"]

Instr(op, src, mid, dst) == [op |-> op, src |-> src, mid |-> mid, dst |-> dst]
Nop == Instr("nop", UnusedOperand, UnusedOperand, UnusedOperand)
TypeOf(id, size, map) == [id |-> id, size |-> size, map |-> map]
Item(kind, at, vals) == [kind |-> kind, at |-> at, vals |-> vals]
Export(pc, frame, name) == [pc |-> pc, frame |-> frame, sig |-> -559038737, name |-> <<name>>]
Function(sig, name) == [sig |-> sig, name |-> name]
CaseOf(name, pc) == [name |-> name, pc |-> pc]
Handler(from, to, type, cases) == [at |-> 40, from |-> from, to |-> to, type |-> type, cases |-> cases]
\* A module whose header says of its sections what is in them.
ModuleWith(flags, pc, frame, code, types, data, exports, imports, handlers) ==
  [signature |-> <<>>,
   header |-> [flags |-> flags, stack |-> 512, code |-> Len(code), data |-> 64, types |-> Len(types),
               exports |-> Len(exports), pc |-> pc, frame |-> frame],
   code |-> code, types |-> types, data |-> data, name |-> <<300, 301>>, exports |-> exports, imports |-> imports,
   handlers |-> handlers]

Ordinary ==
  ModuleWith(HasHandler + HasImport, 0, 1, <<Nop, Instr("ret", UnusedOperand, UnusedOperand, UnusedOperand)>>,
             <<TypeOf(0, 12, <<160>>), TypeOf(1, 40, <<>>)>>,
             <<Item("array", 8, <<0, 3>>), Item("setarray", 8, <<2>>), Item("words", 0, <<-1, 7>>), Item("restore", 0, <<>>)>>,
             <<Export(0, 1, 302), Export(-1, -1, 303)>>, <<<<Function(-1, <<304>>), Function(1, <<>>)>>, <<>>>>,
             <<Handler(0, 2, 0, <<CaseOf(<<305>>, 1), CaseOf(<<306>>, 0), CaseOf(NoName, -1)>>), Handler(1, 2, -1, <<CaseOf(NoName, 0)>>)>>)
Library == ModuleWith(0, -1, -1, <<>>, <<>>, <<>>, <<>>, <<>>, <<>>)
NoTypes == ModuleWith(HasImport, 0, 5, <<Nop>>, <<>>, <<>>, <<Export(0, 9, 302)>>, <<<<>>>>, <<>>)

\* Numbers on both sides of where an operand takes more bytes.
Boundaries == <<0, 63, 64, -1, -64, -65, 8191, 8192, -8192, -8193, OperandLimit - 1, -OperandLimit>>
OutOfBounds == <<OperandLimit, -OperandLimit - 1>>
With(v) ==
  [Ordinary EXCEPT !.header.stack = v, !.header.data = v, !.types[1].id = v, !.types[2].size = v, !.handlers[1].at = v,
                   !.data[3].at = Max({v, 0}),
                   !.code[1] = Instr("addw", Operand("ind", v, 0), Operand("imm", v, 0), Operand("mpind", 0, v))]
Codes(code) == ModuleWith(HasImport, 0, -1, code, <<>>, <<>>, <<>>, <<<<>>>>, <<>>)
AllOpcodes == Codes([n \in DOMAIN Opcodes |-> Instr(Opcodes[n], UnusedOperand, UnusedOperand, UnusedOperand)])
Plain(mode) == IF mode = "none" THEN UnusedOperand ELSE Operand(mode, 4, IF mode \in {"ind", "mpind"} THEN -8 ELSE 0)
AllModes ==
  Codes(Flat([m \in DOMAIN MiddleModes |-> Flat([s \in DOMAIN Modes |->
          [d \in DOMAIN Modes |-> Instr("subw", Plain(Modes[s]), Plain(MiddleModes[m]), Plain(Modes[d]))]])]))
Datas(items) == ModuleWith(HasImport, -1, -1, <<>>, <<>>, items, <<>>, <<<<>>>>, <<>>)
\* As many values as the first byte can count, one more, and none.
ValuesOf(kind, count) == [n \in 1 .. count |-> IF kind \in Wide THEN <<-n, n>> ELSE IF kind \in Narrow THEN n - 1 ELSE -n]
Items == FlattenSeq([k \in 1 .. 5 |-> LET kind == <<"bytes", "words", "string", "reals", "bigs">>[k]
                                      IN [n \in 1 .. 4 |-> Item(kind, 8 * n, ValuesOf(kind, <<1, 15, 16, 0>>[n]))]])

-----------------------------------------------------------------------------
(* Data that is placed, and tables that are jumped through.                    *)

WithData(module, size) == [module EXCEPT !.header.data = size]
Number(is, n) == [is |-> is, val |-> n]
Nil == Number("nil", 0)
Text(bytes) == [is |-> "text", val |-> bytes]
ArrayOf(kind, vals) == [is |-> "array", type |-> [kind |-> kind], val |-> vals]
Ints(ns) == ArrayOf("int", [n \in DOMAIN ns |-> Number("int", ns[n])])
Slot(at, holds) == [at |-> at, holds |-> holds]
Restore == Item("restore", 0, <<>>)
\* Words, bytes, pointers and bigs; arrays in arrays, of which one has the offset of the outermost.
Nested ==
  [Good(WithData(ModuleWith(HasImport, -1, -1, <<>>, <<TypeOf(0, 4, <<0>>), TypeOf(1, 1, <<0>>), TypeOf(2, 4, <<128>>), TypeOf(3, 8, <<0>>)>>,
     <<Item("array", 0, <<2, 3>>), Item("setarray", 0, <<0>>), Item("array", 0, <<2, 2>>), Item("setarray", 0, <<1>>), Item("array", 4, <<0, 2>>),
       Item("setarray", 4, <<0>>), Item("words", 0, <<-5>>), Item("words", 4, <<6, 7>>), Restore, Item("string", 0, <<65, 66>>), Restore,
       Item("array", 8, <<1, 3>>), Item("setarray", 8, <<2>>), Item("bytes", 1, <<255, 3, 4>>), Restore, Item("string", 12, <<67>>), Restore, Restore,
       Item("string", 4, <<>>), Item("array", 8, <<0, 64>>), Item("array", 12, <<0, 65>>), Item("array", 16, <<0, -1>>), Item("array", 20, <<3, 1>>),
       Item("setarray", 20, <<0>>), Item("bigs", 0, <<<<-1, -9>>, <<0, 1>>>>), Restore, Item("array", 24, <<9, 1>>), Item("words", 28, <<1, 2>>),
       Item("string", 33, <<65>>), Item("setarray", 36, <<0>>), Restore>>, <<>>, <<<<>>>>, <<>>), 36), {40}) EXCEPT !.slots =
     <<Slot(0, ArrayOf("array", <<ArrayOf("string", <<Text(<<65, 66>>), Ints(<<-5, 6>>)>>), Nil, ArrayOf("byte", <<Number("byte", 0), Number("byte", 255), Number("byte", 3)>>)>>)),
       Slot(4, Text(<<>>)), Slot(8, Ints([n \in 1 .. 64 |-> 0])), Slot(12, Nil), Slot(16, Nil), Slot(20, ArrayOf("big", <<Number("big", -9)>>)), Slot(28, Number("int", 1)),
       Slot(32, Number("int", 2))>>]

\* In their order: the values that are looked up, and the bounds of ranges.
Least == -2147483647 - 1
Ordered ==
  [casew |-> <<Least, -7, -1, 0, 1, 8, 1000, 2147483647>>,
   casel |-> <<<<Least, 0>>, <<-1, 0>>, <<-1, -1>>, <<0, 0>>, <<0, 2147483647>>, <<0, Least>>, <<0, -1>>, <<1, 0>>>>,
   casec |-> <<<<>>, <<65>>, <<65, 65>>, <<65, 66>>, <<66>>, <<66, 1>>, <<97, 1>>, <<97, 2>>>>]
\* Each from one on, up to and without another: next to one another, apart, and of one value.
Ranges ==
  <<<<>>, <<<<3, 5>>>>, <<<<1, 2>>, <<4, 6>>>>, <<<<2, 3>>, <<3, 4>>, <<6, 8>>>>, <<<<1, 3>>, <<3, 4>>, <<5, 6>>, <<7, 8>>>>,
    <<<<1, 2>>, <<2, 3>>, <<3, 5>>, <<5, 7>>, <<7, 8>>>>>>
TableAt(n) == 136 * (n - 1)
PcOf(table, n) == 10 * table + n
WordTable(values, t) ==
  LET ranges == Ranges[t]
  IN <<Item("words", TableAt(t), <<Len(ranges)>> \o FlattenSeq([n \in DOMAIN ranges |->
         <<values[ranges[n][1]], values[ranges[n][2]], PcOf(t, n)>>]) \o <<PcOf(t, 0)>>)>>
BigTable(values, t) ==
  LET ranges == Ranges[t]
      Entry(n) == TableAt(t) + 8 + 24 * (n - 1)
  IN <<Item("words", TableAt(t), <<Len(ranges)>>), Item("words", Entry(Len(ranges) + 1), <<PcOf(t, 0)>>)>>
       \o FlattenSeq([n \in DOMAIN ranges |-> <<Item("bigs", Entry(n), <<values[ranges[n][1]], values[ranges[n][2]]>>),
                                               Item("words", Entry(n) + 16, <<PcOf(t, n)>>)>>])
\* With the last of a range, and without it where it is the first.
TextTable(values, t) ==
  LET ranges == Ranges[t]
      Entry(n) == TableAt(t) + 4 + 12 * (n - 1)
  IN <<Item("words", TableAt(t), <<Len(ranges)>> \o FlattenSeq([n \in DOMAIN ranges |-> <<0, 0, PcOf(t, n)>>]) \o <<PcOf(t, 0)>>)>>
       \o FlattenSeq([n \in DOMAIN ranges |-> <<Item("string", Entry(n), values[ranges[n][1]])>>
                        \o IF ranges[n][2] = ranges[n][1] + 1 THEN <<>> ELSE <<Item("string", Entry(n) + 4, values[ranges[n][2] - 1])>>])
Tables(op, t) ==
  CASE op = "casew" -> WordTable(Ordered.casew, t) [] op = "casel" -> BigTable(Ordered.casel, t) [] op = "casec" -> TextTable(Ordered.casec, t)
JumpsThrough(op, t) ==
  [n \in DOMAIN Ordered[op] |-> [op |-> op, at |-> TableAt(t), value |-> Ordered[op][n], place |-> n, other |-> PcOf(t, 0),
                                 ranges |-> [r \in DOMAIN Ranges[t] |-> Append(Ranges[t][r], PcOf(t, r))]]]
Cases(op) ==
  [Good(WithData(Datas(FlattenSeq([t \in DOMAIN Ranges |-> Tables(op, t)])), TableAt(Len(Ranges) + 1)), {1})
     EXCEPT !.switches = FlattenSeq([t \in DOMAIN Ranges |-> JumpsThrough(op, t)])]
Gotos ==
  [Good(Datas(<<Item("words", 8, <<4, 0, 9>>)>>), {1}) EXCEPT !.switches =
     [n \in 1 .. 3 |-> [op |-> "goto", at |-> 8, value |-> n - 1, place |-> n, other |-> 0, ranges |-> <<<<1, 2, 4>>, <<2, 3, 0>>, <<3, 4, 9>>>>]]]

-----------------------------------------------------------------------------
(* Modules that are loaded.  /dis/lib/env.dis has three functions, two of them  *)
(* of one type, and /dis/env.dis another one.                                   *)

Signed(pc, frame, sig, name) == [pc |-> pc, frame |-> frame, sig |-> sig, name |-> <<name>>]
TypesOf(sizes) == [n \in DOMAIN sizes |-> TypeOf(n - 1, sizes[n], <<>>)]
Nops(n) == [i \in 1 .. n |-> Nop]
Env == ModuleWith(HasImport, -1, -1, Nops(9), TypesOf(<<36, 40, 48>>), <<Item("words", 4, <<77>>)>>,
                  <<Signed(2, 0, 11, 310), Signed(5, 1, 11, 311), Signed(8, 2, 12, 312)>>, <<<<>>>>, <<>>)
Envcmd == ModuleWith(HasImport, -1, -1, Nops(3), TypesOf(<<72>>), <<Item("words", 4, <<88>>)>>, <<Signed(1, 0, 13, 313)>>, <<<<>>>>, <<>>)
\* A frame without a type has the size that all such have.
Untyped == ModuleWith(HasImport, -1, -1, Nops(1), <<>>, <<>>, <<Signed(0, 4, 14, 314)>>, <<<<>>>>, <<>>)
Tree == <<"/", "t">>
Copy == <<"/", "copy">>
Path(dir, name) == Tree \o dir \o <<name, ".dis">>
Damaged(bytes) == SubSeq(bytes, 1, Len(bytes) - 3)
Files ==
  LET env == Write(Env)
  IN [file \in {Path(<<"dis", "lib">>, "env"), <<"dis", "lib", "env", ".dis">>} |-> env]
       @@ (Path(<<"dis">>, "env") :> Write(Envcmd)) @@ (Path(<<>>, "untyped") :> Write(Untyped))
       @@ (Copy \o <<"dis", "lib", "env", ".dis">> :> Damaged(env))

\* In an order of its own; the name of the last is not what it is exported as.
ImportsEnv == <<Function(11, <<311>>), Function(12, <<312>>), Function(11, <<310>>), Function(12, <<399>>)>>
Loader ==
  ModuleWith(HasImport, -1, -1, Nops(7), TypesOf(<<32, 64>>), <<>>, <<Signed(4, 0, 20, 320), Signed(6, 1, 21, 321)>>,
             <<ImportsEnv, <<Function(13, <<313>>)>>, <<Function(14, <<314>>)>>,
               <<Function(DigestSig, NameOfBuiltin("sha256")), Function(DigestSig, NameOfBuiltin("md4"))>>,
               <<Function(0, NameOfBuiltin("putstring")), Function(DigestSig, NameOfBuiltin("sha1")), Function(-1295507435, <<399>>)>>,
               <<Function(21, <<321>>), Function(20, <<320>>)>>>>, <<>>)
\* What is loaded, from where, and for every function where its calls go and how large its frame is.
Loading(path, import, root, probe, means) ==
  [path |-> path, import |-> import, root |-> root, probe |-> probe, files |-> Files, means |-> means]
To(entry, size) == [entry |-> entry, size |-> size]
ToBuiltin(name, size) == To(<<"builtin", NameOfBuiltin(name)>>, size)
MeansEnv == <<To(At(5), 40), To(At(8), 48), To(At(2), 36), To(At(8), 48)>>
MeansEnvcmd == <<To(At(1), 72)>>
LibEnv == <<"/", "dis", "lib", "env">>
DisEnv == <<"/", "dis", "env">>
Dir(names) == Tree \o names
\* Wherever the tree is mounted, with the files that do not answer before those that do.
Places == <<[root |-> Tree, probe |-> <<>>], [root |-> <<>>, probe |-> <<Tree>>], [root |-> <<>>, probe |-> <<Dir(<<"dis">>)>>],
            [root |-> <<>>, probe |-> <<Tree, Dir(<<"dis", "lib">>)>>], [root |-> <<>>, probe |-> <<Copy, Tree>>],
            [root |-> Copy, probe |-> <<Tree>>], [root |-> <<"/", "none">>, probe |-> <<<<"none">>, Dir(<<"dis">>)>>]>>
Mounted ==
  FlattenSeq([n \in DOMAIN Places |->
    LET In(path, import, means) == Loading(path, import, Places[n].root, Places[n].probe, means)
    IN <<In(LibEnv, 0, MeansEnv), In(LibEnv \o <<".dis">>, 0, MeansEnv), In(DisEnv, 1, MeansEnvcmd), In(DisEnv \o <<".dis">>, 1, MeansEnvcmd)>>])
Loads ==
  Mounted \o
  <<Loading(<<"env">>, 0, <<>>, <<Dir(<<"dis", "lib">>)>>, MeansEnv), Loading(<<"env", ".dis">>, 1, <<>>, <<Dir(<<"dis">>)>>, MeansEnvcmd),
    Loading(LibEnv, 0, <<>>, <<>>, MeansEnv), Loading(Path(<<>>, "untyped"), 2, <<>>, <<>>, <<To(At(0), 64)>>),
    Loading(<<"/", "none">>, 1, Tree, <<Tree>>, <<To(Fault, 0)>>), Loading(Copy \o LibEnv, 1, <<>>, <<>>, <<To(Fault, 0)>>),
    Loading(<<"$Crypt">>, 3, Tree, <<>>, <<ToBuiltin("sha256", 56), ToBuiltin("md4", 56)>>),
    Loading(<<"$Keyring">>, 4, Tree, <<>>, <<ToBuiltin("putstring", 40), ToBuiltin("sha1", 56), ToBuiltin("readauthinfo", 40)>>),
    Loading(<<"$self">>, 5, <<>>, <<>>, <<To(At(6), 64), To(At(4), 32)>>),
    \* Without a list of imports a function is known by its place.
    Loading(LibEnv, 6, Tree, <<>>, <<To(At(2), 36), To(At(5), 40), To(At(8), 48)>>), Loading(<<"$self">>, 6, <<>>, <<>>, <<To(At(4), 32), To(At(6), 64)>>)>>
LoadsOthers == [Good(Loader, {1}) EXCEPT !.loads = Loads]

-----------------------------------------------------------------------------
Everything(m) == 1 .. Len(Write(m)) - 1
Invalid ==
  <<[Ordinary EXCEPT !.header.pc = 2], [Ordinary EXCEPT !.header.pc = -2], [Ordinary EXCEPT !.header.frame = 2],
    [Ordinary EXCEPT !.header.frame = -2], [Ordinary EXCEPT !.header.flags = @ + MustCompile + DontCompile],
    [Ordinary EXCEPT !.exports[1].pc = 2], [Ordinary EXCEPT !.exports[1].frame = 2], [Ordinary EXCEPT !.handlers[2].from = -1],
    [Ordinary EXCEPT !.handlers[2].from = 2], [Ordinary EXCEPT !.handlers[2].to = 3], [Ordinary EXCEPT !.handlers[2].to = 1],
    [Ordinary EXCEPT !.handlers[1].type = 2], [Ordinary EXCEPT !.handlers[1].type = -2], [Ordinary EXCEPT !.handlers[1].cases[1].pc = 2],
    [Ordinary EXCEPT !.handlers[1].cases[2].pc = -1], [Ordinary EXCEPT !.handlers[1].cases[3].pc = -2],
    [Ordinary EXCEPT !.handlers[2].cases[1].pc = 2], [Ordinary EXCEPT !.data[3].at = -4], [Ordinary EXCEPT !.header.code = -1],
    [Ordinary EXCEPT !.header.code = 3], [Ordinary EXCEPT !.header.exports = 0]>>
Made ==
  <<Good(Ordinary, Everything(Ordinary)), Good(Library, Everything(Library)), Good(NoTypes, Everything(NoTypes)), Good(AllOpcodes, {1}),
    Good(AllModes, {1}), Good(Datas(Items), {1, 40}),
    Nested, Cases("casew"), Cases("casel"), Cases("casec"), Gotos, LoadsOthers>>
    \o [n \in DOMAIN Boundaries |-> Good(With(Boundaries[n]), Everything(With(Boundaries[n])))]
    \o [n \in DOMAIN OutOfBounds |-> Bad(With(OutOfBounds[n]))]
    \o [n \in DOMAIN Invalid |-> Bad(Invalid[n])]
=============================================================================
