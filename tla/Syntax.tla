------------------------------- MODULE Syntax -------------------------------
(* The syntax trees of Limbo (ricevm-limbo, ast.rs).  A node is a record whose *)
(* op names the construct; what is absent is Nothing.  A call says by its op   *)
(* whether what is called is a plain name, and so does the record that ref     *)
(* allocates; the compiler asks that of the node before anything else.         *)
EXTENDS Integers, SequencesExt

Nothing == [op |-> "nothing"]
AnyP == [op |-> "any"]          \* the wildcard of a case, an alt or an array

-----------------------------------------------------------------------------
(* Types.  A type that has a name has two, <<module or ADT, member>>; the      *)
(* second is "" for a plain name.                                              *)

IntT == [kind |-> "int"]
BigT == [kind |-> "big"]
StringT == [kind |-> "string"]              \* also a pointer of which no more is known
Basic(name) == [kind |-> name]
NamedT(name) == [kind |-> "named", adt |-> name]
RefT(adt) == [kind |-> "ref", adt |-> adt]
Reference(type) == IF type.kind = "named" THEN RefT(type.adt) ELSE [kind |-> "refto", to |-> type]
ListT(elem) == [kind |-> "list", elem |-> elem]
ArrayT(elem) == [kind |-> "array", elem |-> elem]
ChanT(elem) == [kind |-> "chan", elem |-> elem]
TupleT(fields) == [kind |-> "tuple", fields |-> fields]
FuncT(params, ret) == [kind |-> "fn", params |-> params, ret |-> ret]
NoType == [kind |-> "none"]
Basics == {"int", "byte", "big", "real", "string"}

-----------------------------------------------------------------------------
(* Expressions.                                                                *)

IntLit(v) == [op |-> "int", val |-> v]
RealLit(v) == [op |-> "real", digits |-> v]
StringLit(s) == [op |-> "string", text |-> s]
CharLit(c) == [op |-> "char", char |-> c]
Nil == [op |-> "nil"]
Ident(name) == [op |-> "var", name |-> name]
Bin(fn, l, r) == [op |-> "bin", fn |-> fn, l |-> l, r |-> r]
Comparisons == {"eq", "ne", "lt", "gt", "le", "ge"}
And(l, r) == [op |-> "and", l |-> l, r |-> r]
Or(l, r) == [op |-> "or", l |-> l, r |-> r]
Un(fn, e) == [op |-> "un", fn |-> fn, e |-> e]
Cast(type, e) == [op |-> "cast", to |-> type, e |-> e]
Dot(e, field) == [op |-> "dot", e |-> e, field |-> field]
ModQual(e, member) == [op |-> "modqual", e |-> e, field |-> member]
IndexE(e, i) == [op |-> "index", e |-> e, i |-> i]
SliceE(e, lo, hi) == [op |-> "slice", e |-> e, lo |-> lo, hi |-> hi]
Of(op, e) == [op |-> op, e |-> e]     \* hd tl len tagof inc dec recv
ConsE(l, r) == [op |-> "cons", l |-> l, r |-> r]
SendE(chan, e) == [op |-> "send", l |-> chan, r |-> e]
TupleE(elems) == [op |-> "tuple", elems |-> elems]
ListE(elems) == [op |-> "list", elems |-> elems]
LoadE(module, path) == [op |-> "load", module |-> module, e |-> path]
ArrayOf(elem, n) == [op |-> "arralloc", elem |-> elem, e |-> n]
\* elems: [at, e]; at is Nothing, AnyP or the selectors [lo, hi] of what has the value.
Selected(selectors) == [op |-> "selected", by |-> selectors]
ArrayE(size, elems) == [op |-> "array", size |-> size, elems |-> elems]
ChanE(elem) == [op |-> "chan", elem |-> elem]
CallE(fn, args) == IF fn.op = "var" THEN [op |-> "call", name |-> fn.name, args |-> args]
                   ELSE [op |-> "apply", fn |-> fn, args |-> args]
NewRecord(name, tag, args) == [op |-> "ref", adt |-> <<name, tag>>, args |-> args]
RefE(e) == CASE e.op = "call" -> NewRecord(e.name, "", e.args)
             [] e.op = "apply" /\ e.fn.op = "dot" /\ e.fn.e.op = "var" -> NewRecord(e.fn.e.name, e.fn.field, e.args)
             [] OTHER -> Un("ref", e)
SetE(to, e) == [op |-> "set", to |-> to, e |-> e]
OpSetE(to, fn, e) == [op |-> "opset", to |-> to, fn |-> fn, e |-> e]
DeclE(name, e) == [op |-> "decl", name |-> name, e |-> e]
TupleDeclE(names, e) == [op |-> "tupledecl", names |-> names, e |-> e]

-----------------------------------------------------------------------------
(* Statements.                                                                 *)

ExprS(e) == [op |-> "expr", e |-> e]
VarDecl(names, type, init) == [op |-> "vardecl", names |-> names, type |-> type, init |-> init]
Import(names, module) == [op |-> "import", names |-> names, module |-> module]
BlockS(body) == [op |-> "block", body |-> body]
EmptyS == [op |-> "empty"]
IfS(cond, then, else) == [op |-> "if", cond |-> cond, then |-> then, else |-> else]
WhileS(cond, body) == [op |-> "while", cond |-> cond, body |-> body]
DoS(cond, body) == [op |-> "do", cond |-> cond, body |-> body]
ForS(init, cond, post, body) == [op |-> "for", init |-> init, cond |-> cond, post |-> post, body |-> body]
CaseS(e, arms) == [op |-> "case", e |-> e, arms |-> arms]
Arm(pats, body) == [pats |-> pats, body |-> body]
Is(e) == [op |-> "is", e |-> e]
Between(lo, hi) == [op |-> "range", lo |-> lo, hi |-> hi]
AltS(arms) == [op |-> "alt", arms |-> arms]
Guarded(guards, body) == [guards |-> guards, body |-> body]
SendG(chan, e) == [op |-> "send", chan |-> chan, e |-> e]
RecvG(chan, to) == [op |-> "recv", chan |-> chan, to |-> to]   \* to: a declaration or assignment of Nothing
PickS(name, e, arms) == [op |-> "pick", name |-> name, e |-> e, arms |-> arms]
Variant(tags, body) == [tags |-> tags, body |-> body]
LabelS(name, s) == [op |-> "label", name |-> name, s |-> s]
BreakS(label) == [op |-> "break", label |-> label]
ContinueS(label) == [op |-> "continue", label |-> label]
ReturnS(e) == [op |-> "return", e |-> e]
RaiseS(e) == [op |-> "raise", e |-> e]
ExitS == [op |-> "exit"]
SpawnS(e) == IF e.op = "call" THEN [op |-> "spawn", name |-> e.name, args |-> e.args] ELSE [op |-> "spawnexpr", e |-> e]

-----------------------------------------------------------------------------
(* Declarations.                                                               *)

SourceFile(implement, includes, decls) == [implement |-> implement, includes |-> includes, decls |-> decls]
\* A constant, and what it is declared with: the span of their declaration says that in the code.
Con(name, with, e) == [op |-> "con", name |-> name, with |-> with, e |-> e]
TypeAlias(name, type) == [op |-> "type", name |-> name, type |-> type]
Exception(name, type) == [op |-> "exception", name |-> name, type |-> type]
Module(name, members) == [op |-> "module", name |-> name, members |-> members]
Adt(name, members, pick) == [op |-> "adt", name |-> name, members |-> members, pick |-> pick]
PickCase(tags, fields) == [tags |-> tags, fields |-> fields]
Param(name, type, isSelf) == [name |-> name, type |-> type, self |-> isSelf]
FuncSig(name, params, ret) == [op |-> "sig", name |-> name, params |-> params, ret |-> ret]
\* A function, of an ADT if the qualifier is not "".
Func(qualifier, name, params, ret, body) ==
  [op |-> "func", of |-> qualifier, name |-> name, params |-> params, ret |-> ret, body |-> body]
=============================================================================
