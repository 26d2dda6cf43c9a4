------------------------------ MODULE DataMeaning ------------------------------
(* What the declarations of a file that declares only data mean in Limbo: the  *)
(* order of the declarations, and who computes what first, play no part.       *)
EXTENDS Dis, Syntax, TLC

CONSTANT Included   \* the interfaces a file can include: path -> tree

-----------------------------------------------------------------------------
(* Declarations.                                                               *)

Contents(file) == file.decls \o FlattenSeq([n \in DOMAIN file.includes |->
                    IF file.includes[n] \in DOMAIN Included THEN Included[file.includes[n]].decls ELSE <<>>])
ModulesNamed(file, name) == SelectSeq(Contents(file), LAMBDA d: d.op = "module" /\ d.name = name)
MembersOf(file, module) == IF ModulesNamed(file, module) = <<>> THEN <<>> ELSE ModulesNamed(file, module)[1].members
ConsIn(decls, name) == SelectSeq(decls, LAMBDA d: d.op = "con" /\ d.name = name)
Declares(file, module, name) == ConsIn(MembersOf(file, module), name) # <<>>
\* An import names a variable of the module's type, or the module.
ImportsOf(file, name) == SelectSeq(file.decls, LAMBDA d: d.op = "import" /\ name \in ToSet(d.names))
VarsNamed(file, name) == SelectSeq(Contents(file), LAMBDA d: d.op = "vardecl" /\ name \in ToSet(d.names))
Imported(file, operand) == IF VarsNamed(file, operand) = <<>> THEN operand ELSE VarsNamed(file, operand)[1].type.adt[1]

\* Where the constant that a name stands for is declared: <<"in", module>>, or "" for outside of any.
Home(file, from, name) ==
  IF from # "" /\ Declares(file, from, name) THEN from
  ELSE IF ConsIn(file.decls, name) # <<>> THEN ""
  ELSE IF ImportsOf(file, name) # <<>> THEN Imported(file, ImportsOf(file, name)[1].module)
  ELSE IF Declares(file, file.implement[1], name) THEN file.implement[1] ELSE ""
ConOf(file, home, name) ==
  IF home = "" THEN ConsIn(Contents(file), name)[1] ELSE ConsIn(MembersOf(file, home), name)[1]

-----------------------------------------------------------------------------
(* Expressions.  iota is the place of a constant among those it is declared with. *)

IotaOf(con) == SelectInSeq(con.with, LAMBDA name: name = con.name) - 1
IsReal(v) == v.is = "real"
Scale(v) == IF IsReal(v) THEN v.val ELSE 100 * v.val
Number(is, n) == [is |-> is, val |-> n]
Text(s) == [is |-> "text", val |-> s]
Literal(n) == (IF n < 0 THEN <<[c |-> "-", v |-> "-"]>> ELSE <<>>) \o <<[c |-> "digits", v |-> Magnitude(n)]>>
Truth(holds) == Number("int", IF holds THEN 1 ELSE 0)
Kinds == <<"int", "big", "real">>
Larger(a, b) == IF a.is = "real" \/ b.is = "real" THEN "real" ELSE IF a.is = "big" \/ b.is = "big" THEN "big" ELSE "int"
Apply(fn, a, b) ==
  LET is == Larger(a, b)
  IN CASE a.is = "text" -> Text(a.val \o b.val)
       [] a.is # "text" /\ fn \in Comparisons -> Truth(Compares("b" \o fn, Scale(a), Scale(b)))
       [] a.is # "text" /\ fn \in {"add", "sub"} /\ is = "real" -> Number("real", Scale(a) + IF fn = "add" THEN Scale(b) ELSE -Scale(b))
       [] a.is # "text" /\ fn = "mul" /\ is = "real" -> Number("real", Quotient(Scale(a) * Scale(b), 100))
       [] a.is # "text" /\ fn = "div" /\ is = "real" -> Number("real", Quotient(100 * Scale(a), Scale(b)))
       [] OTHER -> Number(is, Arith(fn, "l", a.val, b.val))
Converted(type, v) ==
  CASE type.kind = "string" -> IF v.is = "text" THEN v ELSE Text(Literal(v.val))
    [] type.kind = "real"   -> Number("real", Scale(v))
    [] OTHER                -> Number(type.kind, IF IsReal(v) THEN Quotient(v.val, 100) ELSE v.val)
Characters(s) ==
  FoldLeft(LAMBDA n, e: n + (CASE e.c = "word" -> Len(e.v) [] e.c = "digits" -> Len(ToString(e.v)) [] OTHER -> 1), 0, s)

RECURSIVE Value(_, _, _, _)
Value(file, from, e, iota) ==
  LET Of0(x) == Value(file, from, x, iota)
      Constant(home, name) == LET con == ConOf(file, home, name) IN Value(file, home, con.e, IotaOf(con))
  IN CASE e.op = "int"    -> Number(IF e.val > WordMax THEN "big" ELSE "int", e.val)
       [] e.op = "real"   -> Number("real", 100 * e.digits[1] + e.digits[2] * IF e.digits[2] < 10 THEN 10 ELSE 1)
       [] e.op = "string" -> Text(e.text)
       [] e.op = "var"    -> IF e.name = "iota" THEN Number("int", iota) ELSE Constant(Home(file, from, e.name), e.name)
       [] e.op = "modqual" -> Constant(e.e.name, e.field)
       [] e.op = "bin"    -> Apply(e.fn, Of0(e.l), Of0(e.r))
       [] e.op = "cast"   -> Converted(e.to, Of0(e.e))
       [] e.op = "len"    -> Number("int", Characters(Of0(e.e).val))
       [] e.op = "un" /\ e.fn = "neg" -> LET v == Of0(e.e) IN Number(v.is, -v.val)
       [] e.op = "un" /\ e.fn = "inv" -> LET v == Of0(e.e) IN Number(v.is, -1 - v.val)
       [] e.op = "un" /\ e.fn = "not" -> Truth(Of0(e.e).val = 0)

-----------------------------------------------------------------------------
(* Variables.  What a type holds is a word, a byte, a big, a real, a text, nil *)
(* or an array.                                                                *)

Unset(type) == CASE type.kind \in {"int", "byte", "big", "real"} -> Number(type.kind, 0) [] OTHER -> [is |-> "nil", val |-> 0]
Stored(type, v) ==
  CASE v.is = "text"     -> v
    [] type.kind = "int" -> Number("int", Wrap("w", v.val))
    [] type.kind = "byte" -> Number("byte", v.val % 256)
    [] OTHER             -> Converted(type, v)
TypeOf(v) == IF v.is = "text" THEN StringT ELSE [kind |-> v.is]

\* The indices that an element of an array names, or the one after the last before it.
ConstInt(file, e) == Value(file, "", e, 0).val
NamedBy(file, sel) == ConstInt(file, sel.lo) .. ConstInt(file, IF sel.hi = Nothing THEN sel.lo ELSE sel.hi)
RECURSIVE LastBefore(_, _, _)
IndicesOf(file, elems, n) ==
  CASE elems[n].at.op = "selected" -> UNION {NamedBy(file, sel) : sel \in ToSet(elems[n].at.by)}
    [] elems[n].at.op = "nothing"  -> {LastBefore(file, elems, n) + 1}
    [] elems[n].at.op = "any"      -> {}
LastBefore(file, elems, n) ==
  CASE n = 1 -> -1
    [] n > 1 /\ elems[n - 1].at.op = "any" -> LastBefore(file, elems, n - 1)
    [] n > 1 /\ elems[n - 1].at.op = "nothing" -> LastBefore(file, elems, n - 1) + 1
    [] n > 1 /\ elems[n - 1].at.op = "selected" -> LET sel == Last(elems[n - 1].at.by) IN Max(NamedBy(file, sel))
Others(elems) == {n \in DOMAIN elems : elems[n].at.op = "any"}
ElemType(file, decl, elems) ==
  IF decl.type # NoType THEN decl.type.elem
  ELSE IF elems = <<>> THEN IntT ELSE TypeOf(Value(file, "", elems[1].e, 0))
Length0(file, e) ==
  IF e.size # Nothing THEN ConstInt(file, e.size)
  ELSE Max({-1} \cup UNION {IndicesOf(file, e.elems, n) : n \in DOMAIN e.elems}) + 1
ElementAt(file, type, elems, i) ==
  LET naming == {n \in DOMAIN elems : i \in IndicesOf(file, elems, n)} \* the last of them counts
      chosen == IF naming # {} THEN naming ELSE Others(elems)
  IN IF chosen = {} THEN Unset(type) ELSE Stored(type, Value(file, "", elems[Max(chosen)].e, 0))
Array(type, vals) == [is |-> "array", type |-> type, val |-> vals]
ArrayLit(file, type, e) == Array(type, [i \in 1 .. Length0(file, e) |-> ElementAt(file, type, e.elems, i - 1)])
Initial(file, decl) ==
  LET e == decl.init
  IN CASE e.op = "nothing"  -> Unset(decl.type)
       [] e.op = "arralloc" -> Array(e.elem, [i \in 1 .. ConstInt(file, e.e) |-> Unset(e.elem)])
       [] e.op = "array"    -> ArrayLit(file, ElemType(file, decl, e.elems), e)
       [] OTHER -> LET v == Value(file, "", e, 0) IN Stored(IF decl.type # NoType THEN decl.type ELSE TypeOf(v), v)

\* A variable of the file, or of the interface it implements; the declaration with a value says it.
OwnVars(file) ==
  SelectSeq(file.decls \o FlattenSeq([n \in DOMAIN file.decls |->
              IF file.decls[n].op = "module" /\ file.decls[n].name = file.implement[1] THEN file.decls[n].members ELSE <<>>]),
            LAMBDA d: d.op = "vardecl")
Names(file) == UNION {ToSet(OwnVars(file)[n].names) : n \in DOMAIN OwnVars(file)} \ {"nil"}
DeclOf(file, name) ==
  LET decls == SelectSeq(OwnVars(file), LAMBDA d: name \in ToSet(d.names))
      valued == SelectSeq(decls, LAMBDA d: d.init # Nothing)
  IN IF valued = <<>> THEN decls[1] ELSE valued[1]
Meaning(file) == [name \in Names(file) |-> Initial(file, DeclOf(file, name))]
=============================================================================
