------------------------------ MODULE ModuleData ------------------------------
(* The data of a module that declares no function: what the compiler makes of  *)
(* constants, of the interfaces a file includes and imports, and of the        *)
(* initialisers of globals (ricevm-limbo, symtab.rs, includes.rs, codegen.rs). *)
(* A real is a number of hundredths, a string a sequence of [c, v]; characters *)
(* as numbers and the bodies of functions are left out.                        *)
EXTENDS Dis, Syntax, TLC

CONSTANTS
  Interfaces,   \* the files that are found and can be parsed: path -> tree
  Words         \* the words of which strings are made

-----------------------------------------------------------------------------
(* Values.  Every int of a constant expression has the width of a big.         *)

IntV(n) == [is |-> "int", val |-> n]
RealV(hundredths) == [is |-> "real", val |-> hundredths]
StringV(s) == [is |-> "string", val |-> s]
NotConstant == [is |-> "none"]

HasKey(f, key) == key \in DOMAIN f
With(f, key, value) == (key :> value) @@ f

HundredthsOf(digits) == 100 * digits[1] + digits[2] * IF digits[2] < 10 THEN 10 ELSE 1
Decimal(n) ==
  (IF n < 0 THEN <<[c |-> "-", v |-> "-"]>> ELSE <<>>) \o <<[c |-> "digits", v |-> Magnitude(n)]>>
\* Its characters, not its bytes.
LengthOf(s) ==
  FoldLeft(LAMBDA n, e: n + (CASE e.c = "word" -> Len(e.v) [] e.c = "digits" -> Len(ToString(e.v)) [] OTHER -> 1), 0, s)

FoldInts(fn, a, b) ==
  CASE fn \in Comparisons -> IntV(IF Compares("b" \o fn, a, b) THEN 1 ELSE 0)
    [] fn = "pow" \/ (fn \in {"div", "mod"} /\ b = 0) -> NotConstant
    [] OTHER -> IntV(Arith(fn, "l", a, b))
FoldReals(fn, a, b) ==
  CASE fn = "add" -> RealV(a + b)
    [] fn = "sub" -> RealV(a - b)
    [] fn = "mul" -> RealV(Quotient(a * b, 100))
    [] fn = "div" -> RealV(Quotient(100 * a, b))
    [] OTHER      -> NotConstant
Hundredths(v) == IF v.is = "int" THEN 100 * v.val ELSE v.val
FoldBinary(l, fn, r) ==
  CASE l.is = "string" /\ r.is = "string" /\ fn = "add" -> StringV(l.val \o r.val)
    [] l.is = "int" /\ r.is = "int" -> FoldInts(fn, l.val, r.val)
    [] {l.is, r.is} \in {{"real"}, {"int", "real"}} -> FoldReals(fn, Hundredths(l), Hundredths(r))
    [] OTHER -> NotConstant
FoldUnary(fn, v) ==
  CASE fn = "neg" /\ v.is \in {"int", "real"} -> [v EXCEPT !.val = -v.val]
    [] fn = "inv" /\ v.is = "int" -> IntV(-v.val - 1)
    [] fn = "not" /\ v.is = "int" -> IntV(IF v.val = 0 THEN 1 ELSE 0)
    [] OTHER -> NotConstant
\* Between the widths of ints nothing is cut off.
FoldCast(type, v) ==
  CASE type.kind = "real" /\ v.is = "int" -> RealV(100 * v.val)
    [] type.kind \in {"int", "big", "byte"} /\ v.is = "real" -> IntV(Quotient(v.val, 100))
    [] type.kind = "string" /\ v.is = "int" -> StringV(Decimal(v.val))
    [] OTHER -> v

-----------------------------------------------------------------------------
(* Names.  The state is                                                        *)
(*   symbols    name -> [is: var (module), const (val), module (name), ...]    *)
(*   modules    interface -> member -> the same                                *)
(*   consts, qualified    the constants of the file: name, <<module, name>>    *)
(*   imported   name -> interface, "" if it is not known                       *)
(*   globals    [name, at, k], mp their size, data the items that set them,    *)
(*   elems      the kinds of array elements that need a type                   *)
(*   pending    what is left to the entry function; ok is FALSE after an error *)
(*   lens       whether len of a constant is one                               *)

ConstS(v) == [is |-> "const", val |-> v]
NewTable ==
  [symbols |-> <<>>, modules |-> <<>>, consts |-> <<>>, qualified |-> <<>>, imported |-> <<>>, globals |-> <<>>,
   mp |-> 0, data |-> <<>>, elems |-> <<>>, pending |-> <<>>, ok |-> TRUE, lens |-> TRUE]

MemberIs(s, module, name, is) ==
  HasKey(s.modules, module) /\ HasKey(s.modules[module], name) /\ s.modules[module][name].is = is
\* A constant that cannot be folded hides what other places would offer.
QualifiedConst(s, module, name) ==
  CASE HasKey(s.qualified, <<module, name>>) -> s.qualified[<<module, name>>]
    [] ~HasKey(s.qualified, <<module, name>>) /\ MemberIs(s, module, name, "const") -> s.modules[module][name].val
    [] OTHER -> NotConstant
ImportedConst(s, name) ==
  HasKey(s.imported, name)
    /\ (HasKey(s.qualified, <<s.imported[name], name>>) \/ MemberIs(s, s.imported[name], name, "const"))
ConstValue(s, name) ==
  IF HasKey(s.consts, name) THEN s.consts[name]
  ELSE IF ImportedConst(s, name) THEN QualifiedConst(s, s.imported[name], name)
  ELSE IF HasKey(s.symbols, name) /\ s.symbols[name].is = "const" THEN s.symbols[name].val
  ELSE NotConstant

RECURSIVE Fold(_, _, _)
Fold(s, e, iota) ==
  CASE e.op = "int"     -> IntV(e.val)
    [] e.op = "real"    -> RealV(HundredthsOf(e.digits))
    [] e.op = "string"  -> StringV(e.text)
    [] e.op = "var"     -> IF e.name = "iota" THEN IntV(iota) ELSE ConstValue(s, e.name)
    [] e.op = "modqual" -> IF e.e.op = "var" THEN QualifiedConst(s, e.e.name, e.field) ELSE NotConstant
    [] e.op = "un"      -> FoldUnary(e.fn, Fold(s, e.e, iota))
    [] e.op = "bin"     -> FoldBinary(Fold(s, e.l, iota), e.fn, Fold(s, e.r, iota))
    [] e.op = "cast"    -> FoldCast(e.to, Fold(s, e.e, iota))
    [] e.op = "len" /\ s.lens ->
         LET v == Fold(s, e.e, iota) IN IF v.is = "string" THEN IntV(LengthOf(v.val)) ELSE NotConstant
    [] OTHER -> NotConstant

\* iota counts within one declaration: those declared with one another.
NoIota == [with |-> <<>>, value |-> 0]
IotaNotRestarted(iota, with) == [with |-> with, value |-> IF iota.with = <<>> THEN 0 ELSE iota.value + 1]
NextIota(iota, with) == [with |-> with, value |-> IF iota.with = with THEN iota.value + 1 ELSE 0]

-----------------------------------------------------------------------------
(* The interfaces that are included, and those of the file itself.             *)

\* What the members of an interface see: the constants before them, and other interfaces.
Inside(s, prior) == [NewTable EXCEPT !.consts = prior, !.modules = s.modules, !.lens = FALSE]
WithCon(s, t, d, iota) ==
  LET v == Fold(Inside(s, t.prior), d.e, iota.value)
  IN IF v.is = "none" THEN [t EXCEPT !.members = With(@, d.name, [is |-> "opaque"]), !.iota = iota]
     ELSE [members |-> With(t.members, d.name, ConstS(v)), prior |-> With(t.prior, d.name, v), iota |-> iota]
WithMember(s, t, d) ==
  CASE d.op = "con"     -> WithCon(s, t, d, NextIota(t.iota, d.with))
    [] d.op = "vardecl" -> [t EXCEPT !.members = [name \in ToSet(d.names) |-> [is |-> "var", module |-> ""]] @@ @]
    [] d.op = "sig"     -> [t EXCEPT !.members = With(@, d.name, [is |-> "func"])]
    [] d.op = "exception" -> [t EXCEPT !.members = With(@, d.name, ConstS(StringV(<<[c |-> "word", v |-> d.name]>>)))]
    [] d.op \in {"type", "adt"} -> [t EXCEPT !.members = With(@, d.name, [is |-> "type"])]
Members(s, d) ==
  FoldLeft(LAMBDA t, member: WithMember(s, t, member), [members |-> <<>>, prior |-> <<>>, iota |-> NoIota], d.members).members
Registered(s, d) ==
  [s EXCEPT !.modules = With(@, d.name, Members(s, d)), !.symbols = With(@, d.name, [is |-> "module", name |-> d.name])]
\* A variable of a module's type stands for the module.
ModuleOf(s, type) ==
  IF type.kind = "named" /\ type.adt[2] = "" /\ HasKey(s.symbols, type.adt[1]) /\ s.symbols[type.adt[1]].is = "module"
  THEN type.adt[1] ELSE ""
Vars(s, d) == [s EXCEPT !.symbols = [name \in ToSet(d.names) |-> [is |-> "var", module |-> ModuleOf(s, d.type)]] @@ @]
OwnDecl(s, d) == CASE d.op = "module" -> Registered(s, d) [] d.op = "vardecl" -> Vars(s, d) [] OTHER -> s
\* Every constant of its own counts iota from 0, and sees no other.
LooseCon(s, d) ==
  LET v == Fold(Inside(s, <<>>), d.e, 0)
  IN IF v.is = "none" THEN s ELSE [s EXCEPT !.symbols = With(@, d.name, ConstS(v))]
IncludedDecl(s, d) == IF d.op = "con" THEN LooseCon(s, d) ELSE OwnDecl(s, d)
ProcessInclude(s, path) == IF HasKey(Interfaces, path) THEN FoldLeft(IncludedDecl, s, Interfaces[path].decls) ELSE s
ProcessIncludes(file) == FoldLeft(OwnDecl, FoldLeft(ProcessInclude, NewTable, file.includes), file.decls)

-----------------------------------------------------------------------------
(* Imports, the scope of the interface that is implemented, constants.         *)

ImportedFrom(s, operand) ==
  LET known == HasKey(s.symbols, operand)
  IN CASE known /\ s.symbols[operand].is = "var" /\ s.symbols[operand].module # "" -> s.symbols[operand].module
       [] known /\ s.symbols[operand].is = "module" -> operand
       [] OTHER -> IF HasKey(s.modules, operand) THEN operand ELSE ""
Bind(s, names, module) == [s EXCEPT !.imported = [name \in names |-> module] @@ @]
BindImport(s, d) ==
  LET module == ImportedFrom(s, d.module)
  IN IF module # "" /\ \E name \in ToSet(d.names) : ~HasKey(s.modules[module], name) THEN [s EXCEPT !.ok = FALSE]
     ELSE Bind(s, ToSet(d.names), module)
CollectImports(s, file) == FoldLeft(BindImport, s, SelectSeq(file.decls, LAMBDA d: d.op = "import"))
Implements(file, module) == file.implement # <<>> /\ file.implement[1] = module
BindImplementScope(s, file) ==
  IF file.implement = <<>> \/ ~HasKey(s.modules, file.implement[1]) THEN s
  ELSE LET members == s.modules[file.implement[1]]
       IN Bind(s, {name \in DOMAIN members : members[name].is # "func"} \ DOMAIN s.imported, file.implement[1])

\* The constants of one block: of a module, or the file's own if the module is "".
KeepConst(s, module, unqualified, name, v) ==
  [s EXCEPT !.qualified = IF module = "" THEN @ ELSE With(@, <<module, name>>, v),
            !.consts = IF unqualified THEN With(@, name, v) ELSE @]
BlockCon(t, module, unqualified, d) ==
  LET iota == NextIota(t.iota, d.with)
  IN [iota |-> iota, s |-> KeepConst(t.s, module, unqualified, d.name, Fold(t.s, d.e, iota.value))]
BlockCons(s, module, unqualified, decls) ==
  FoldLeft(LAMBDA t, d: BlockCon(t, module, unqualified, d), [s |-> s, iota |-> NoIota],
           SelectSeq(decls, LAMBDA d: d.op = "con")).s
CollectConsts(s, file) ==
  BlockCons(FoldLeft(LAMBDA t, d: BlockCons(t, d.name, Implements(file, d.name), d.members), s,
                     SelectSeq(file.decls, LAMBDA d: d.op = "module")), "", TRUE, file.decls)

-----------------------------------------------------------------------------
(* Globals.                                                                    *)

Widths == <<"w", "l", "f">>
Width(type) == CASE type.kind = "big" -> "l" [] type.kind = "real" -> "f" [] OTHER -> "w"
Widest(k1, k2) == Widths[Max({SelectInSeq(Widths, LAMBDA k: k = k1), SelectInSeq(Widths, LAMBDA k: k = k2)})]
WidthOfInt(v) == IF v \in -WordMax - 1 .. WordMax THEN "w" ELSE "l"
WidthOfValue(v) == CASE v.is = "real" -> "f" [] v.is = "int" -> WidthOfInt(v.val) [] OTHER -> "w"
GlobalNamed(s, name) == SelectInSeq(s.globals, LAMBDA g: g.name = name)
WidthOfName(s, name) == IF GlobalNamed(s, name) > 0 THEN s.globals[GlobalNamed(s, name)].k ELSE WidthOfValue(ConstValue(s, name))
RECURSIVE WidthOf(_, _)
WidthOf(s, e) ==
  CASE e.op = "int"  -> WidthOfInt(e.val)
    [] e.op = "real" -> "f"
    [] e.op = "var"  -> WidthOfName(s, e.name)
    [] e.op = "cast" -> Width(e.to)
    [] e.op = "un"   -> WidthOf(s, e.e)
    [] e.op = "bin" /\ e.fn \notin Comparisons -> Widest(WidthOf(s, e.l), WidthOf(s, e.r))
    [] OTHER -> "w"
WidthOfDecl(s, d) == IF d.type # NoType THEN Width(d.type) ELSE WidthOf(s, d.init)
BytesOf(k) == CASE k \in {"l", "f"} -> 8 [] k = "b" -> 1 [] OTHER -> 4
AllocMp(s, bytes) == IF bytes = 8 THEN AlignUp(s.mp, 8) ELSE s.mp

\* What is written, as the file has it: a byte of a string is a number above 255, a number of
\* 64 bits two words.
CharOf(e) ==
  CASE e.c = "digits" -> 2000 + e.v
    [] e.c = "word"   -> 1000 + SelectInSeq(Words, LAMBDA w: w = e.v)
    [] OTHER          -> 256
TextOf(s) == [n \in DOMAIN s |-> CharOf(s[n])]
Truncated(v) == CASE v.is = "int" -> v.val [] v.is = "real" -> Quotient(v.val, 100) [] v.is = "string" -> 0
WordOf(v) == IF v.is = "real" THEN Max({-WordMax - 1, Min({WordMax, Truncated(v)})}) ELSE Wrap("w", Truncated(v))
Twice(n) == <<IF n < 0 THEN -1 ELSE 0, n>>
RealOf(v) == Twice(IF v.is = "string" THEN 0 ELSE Hundredths(v))
Item(kind, at, vals) == [kind |-> kind, at |-> at, vals |-> vals]
ScalarItem(at, k, v) ==
  CASE v.is = "int"    -> IF k = "l" THEN Item("bigs", at, <<Twice(v.val)>>) ELSE Item("words", at, <<WordOf(v)>>)
    [] v.is = "real"   -> Item("reals", at, <<RealOf(v)>>)
    [] v.is = "string" -> Item("string", at, TextOf(v.val))

\* The kind of an array's elements: of their type, else as the values suggest.
ElemKind(type) ==
  CASE type.kind = "byte" -> "b" [] type.kind = "int" -> "w" [] type.kind = "big" -> "l" [] type.kind = "real" -> "f" [] OTHER -> "p"
ElemKindOf(vals) ==
  LET kinds == {vals[n].is : n \in DOMAIN vals}
  IN IF "string" \in kinds THEN "p" ELSE IF "real" \in kinds THEN "f" ELSE "w"
DeclaredElem(d) ==
  CASE d.type.kind = "array" -> d.type.elem
    [] d.type.kind # "array" /\ d.init.op = "arralloc" -> d.init.elem
    [] OTHER -> NoType

NoArray == [is |-> "no"]
BadArray == [is |-> "bad"]
ArrayOfKind(k, len, vals) == [is |-> "array", k |-> k, len |-> len, vals |-> vals]
AllocArray(k, len) == CASE len.is # "int" -> NoArray [] OTHER -> IF len.val \notin 0 .. WordMax THEN BadArray ELSE ArrayOfKind(k, len.val, <<>>)
\* The indices that selectors name, with -1 where one is not a constant.
Selector(s, sel) ==
  LET lo == Fold(s, sel.lo, 0)
      hi == IF sel.hi = Nothing THEN lo ELSE Fold(s, sel.hi, 0)
  IN IF lo.is # "int" \/ hi.is # "int" THEN <<-1>> ELSE [n \in 1 .. hi.val - lo.val + 1 |-> lo.val + n - 1]
Indices(s, at, next) == IF at.op = "nothing" THEN <<next>> ELSE FlattenSeq([n \in DOMAIN at.by |-> Selector(s, at.by[n])])
PlacedAt(t, v, indices) ==
  IF \E i \in ToSet(indices) : i < 0 THEN [t EXCEPT !.ok = FALSE]
  ELSE [t EXCEPT !.placed = [i \in ToSet(indices) |-> v] @@ @, !.next = IF indices = <<>> THEN @ ELSE Last(indices) + 1]
PlaceElem(s, t, elem) ==
  LET v == Fold(s, elem.e, 0)
  IN CASE ~t.ok \/ v.is = "none" -> [t EXCEPT !.ok = FALSE]
       [] t.ok /\ v.is # "none"  -> IF elem.at.op = "any" THEN [t EXCEPT !.default = v] ELSE PlacedAt(t, v, Indices(s, elem.at, t.next))
ValuesOf(t, len) == [n \in 1 .. len |-> IF n - 1 \in DOMAIN t.placed THEN t.placed[n - 1] ELSE t.default]
AreBytes(elems) == elems # <<>> /\ \A n \in DOMAIN elems : elems[n].e.op = "cast" /\ elems[n].e.to.kind = "byte"
LitArray(t, e, len, elem) ==
  LET vals == ValuesOf(t, len.val)
  IN CASE ~t.ok \/ len.is # "int" -> NoArray
       [] OTHER -> IF len.val < 0 THEN NoArray
                   ELSE IF \E i \in DOMAIN t.placed : i >= len.val THEN BadArray
                   ELSE ArrayOfKind(CASE elem # NoType -> ElemKind(elem)
                                      [] elem = NoType -> IF AreBytes(e.elems) THEN "b" ELSE ElemKindOf(vals), len.val, vals)
PlaceElems(s, elems) ==
  FoldLeft(LAMBDA t, elem: PlaceElem(s, t, elem), [placed |-> <<>>, default |-> IntV(0), next |-> 0, ok |-> TRUE], elems)
Reached(t) == IntV(Max({-1} \cup DOMAIN t.placed) + 1)
SizedArray(s, t, e, elem) == LitArray(t, e, IF e.size = Nothing THEN Reached(t) ELSE Fold(s, e.size, 0), elem)
ConstArray(s, e, elem) ==
  CASE e.op = "arralloc" -> AllocArray(ElemKind(elem), Fold(s, e.e, 0))
    [] e.op = "array"    -> SizedArray(s, PlaceElems(s, e.elems), e, elem)
    [] OTHER             -> NoArray

\* Inside an array the offsets are its own; elements that are pointers have an item each.
Contents(array) ==
  LET vals == array.vals
      Each0(kind, Of0(_)) == <<Item(kind, 0, [n \in DOMAIN vals |-> Of0(vals[n])])>>
  IN CASE array.k = "b" -> Each0("bytes", LAMBDA v: WordOf(v) % 256)
       [] array.k = "w" -> Each0("words", WordOf)
       [] array.k = "l" -> Each0("bigs", LAMBDA v: Twice(Truncated(v)))
       [] array.k = "f" -> Each0("reals", RealOf)
       [] array.k = "p" -> FlattenSeq([n \in DOMAIN vals |->
                             IF vals[n].is = "string" THEN <<Item("string", 4 * (n - 1), TextOf(vals[n].val))>> ELSE <<>>])
ElemType(elems, k) == 1 + SelectInSeq(elems, LAMBDA x: x = k)
EmitArray(s, at, array) ==
  LET elems == IF array.k \in ToSet(s.elems) THEN s.elems ELSE Append(s.elems, array.k)
      made == <<Item("array", at, <<ElemType(elems, array.k), array.len>>)>>
  IN [s EXCEPT !.elems = elems,
               !.data = @ \o made \o IF array.vals = <<>> THEN <<>>
                                     ELSE <<Item("setarray", at, <<0>>)>> \o Contents(array) \o <<Item("restore", 0, <<>>)>>]

\* A name that the interface declares and the file sets has one slot.
SlotFor(s, name, k) ==
  IF GlobalNamed(s, name) > 0 THEN s
  ELSE LET at == AllocMp(s, BytesOf(k))
       IN [s EXCEPT !.globals = Append(@, [name |-> name, at |-> at, k |-> k]), !.mp = at + BytesOf(k)]
Initialise(s, name, d, k, v, array) ==
  LET at == s.globals[GlobalNamed(s, name)].at
  IN CASE d.init.op = "nothing" -> s
       [] d.init.op # "nothing" /\ v.is # "none" -> [s EXCEPT !.data = Append(@, ScalarItem(at, k, v))]
       [] OTHER -> CASE array.is = "array" -> EmitArray(s, at, array)
                     [] array.is = "bad"   -> [s EXCEPT !.ok = FALSE]
                     [] array.is = "no"    -> [s EXCEPT !.pending = Append(@, name)]
DeclareGlobal(s, d) ==
  LET k == WidthOfDecl(s, d)
      v == Fold(s, d.init, 0)
      array == ConstArray(s, d.init, DeclaredElem(d))
  IN FoldLeft(LAMBDA t, name: IF name = "nil" THEN t ELSE Initialise(SlotFor(t, name, k), name, d, k, v, array), s, d.names)
VarsIn(file, d) ==
  CASE d.op = "vardecl" -> <<d>>
    [] d.op = "module" /\ Implements(file, d.name) -> SelectSeq(d.members, LAMBDA member: member.op = "vardecl")
    [] OTHER -> <<>>
CollectGlobals(s, file) ==
  FoldLeft(DeclareGlobal, s, FlattenSeq([n \in DOMAIN file.decls |-> VarsIn(file, file.decls[n])]))

-----------------------------------------------------------------------------
(* The module.  Without an entry function nothing may be left to it; types 0   *)
(* and 1 are there for frames.                                                 *)

Elem(k) == [size |-> BytesOf(k), pointers |-> IF k = "p" THEN {0} ELSE {}]
Opaque == [size |-> 48, pointers |-> {4 * n : n \in 0 .. 11}]
Compile(file) ==
  LET scope == BindImplementScope(CollectImports(ProcessIncludes(file), file), file)
      known == CollectConsts(scope, file)
      done == CollectGlobals(known, file)
  IN [ok |-> scope.ok /\ known.ok /\ done.ok /\ done.pending = <<>>, code |-> <<>>, pc |-> -1, frame |-> -1,
      data |-> done.data, size |-> done.mp,
      types |-> <<Opaque, Opaque>> \o [n \in DOMAIN done.elems |-> Elem(done.elems[n])], globals |-> done.globals]
=============================================================================
