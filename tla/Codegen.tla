------------------------------ MODULE Codegen ------------------------------
(* The code generator of the Limbo compiler (ricevm-limbo, codegen.rs):        *)
(* expressions are compiled into slots of the frame, statements into branches  *)
(* that are patched once their target is known, calls into frames that the     *)
(* caller fills.  A syntax tree is a record whose op names the construct.      *)
(* Strings, bytes, reals, slices, exceptions, methods and what a file imports  *)
(* are not among the constructs, nor are the programs the generator rejects.   *)
EXTENDS Dis, Syntax

CONSTANT Adts   \* the ADT declarations: name -> [fields, pick]; fields is a sequence of <<name, type>>,
                \* pick a sequence of [tags, fields], empty for an ADT without variants

-----------------------------------------------------------------------------
(* Types and their layout.  An ADT is named <<name, variant>>, with the        *)
(* variant "" for the ADT itself.                                              *)

NumKind(type) == IF type.kind = "big" THEN "l" ELSE "w"
Wider(k1, k2) == IF "l" \in {k1, k2} THEN "l" ELSE "w"
ValType(type) == CASE type.kind \in {"int", "big"} -> "Word"
                   [] type.kind = "array" -> "Array"
                   [] OTHER -> "Ptr"
IsPtr(type) == type.kind \notin {"int", "big"}
MoveOf(type) == IF IsPtr(type) THEN "p" ELSE NumKind(type)
MoveUncounted(valType, k) == k   \* a pointer is moved as a word
MoveFor(valType, k) == IF k = "w" /\ valType # "Word" THEN "p" ELSE k

\* Tuples lie inside what holds them, so the layout of a type follows its fields.
RECURSIVE Place(_, _), SizeOf(_), AlignOf(_)
Place(base, types) ==
  FoldLeft(LAMBDA done, type:
             LET off == AlignUp(done.end, AlignOf(type))
             IN [offs |-> Append(done.offs, off), end |-> off + SizeOf(type)],
           [offs |-> <<>>, end |-> base], types)
SizeOf(type) == IF type.kind = "tuple" THEN Max({4, AlignUp(Place(0, type.fields).end, 4)})
                ELSE Bytes(NumKind(type))
AlignOf(type) == IF type.kind = "tuple" THEN Max({4} \cup {AlignOf(t) : t \in ToSet(type.fields)})
                 ELSE Bytes(NumKind(type))

\* What the collector and the channels know of a block of fields: its size and the offsets
\* marked as pointers.
Descriptor(base, types) ==
  LET placed == Place(base, types)
  IN [size |-> Max({4, AlignUp(placed.end, 4)}),
      pointers |-> {placed.offs[n] : n \in {i \in DOMAIN types : IsPtr(types[i])}}]
Element(type) == [size |-> Bytes(NumKind(type)), pointers |-> IF IsPtr(type) THEN {0} ELSE {}]

Second(pairs) == [n \in DOMAIN pairs |-> pairs[n][2]]
FieldBase(adt) == IF Adts[adt[1]].pick = <<>> THEN 0 ELSE 4
FieldsOf(adt) ==
  LET decl == Adts[adt[1]]
  IN IF adt[2] = "" THEN decl.fields
     ELSE decl.fields \o SelectSeq(decl.pick, LAMBDA group: adt[2] \in ToSet(group.tags))[1].fields
AdtLayout(adt) ==
  LET fields == FieldsOf(adt)
      offs == Place(FieldBase(adt), Second(fields)).offs
  IN [n \in DOMAIN fields |-> [name |-> fields[n][1], type |-> fields[n][2], off |-> offs[n]]]
Tags(name) == FlattenSeq([n \in DOMAIN Adts[name].pick |-> Adts[name].pick[n].tags])
TagOf(adt) == SelectInSeq(Tags(adt[1]), LAMBDA tag: tag = adt[2]) - 1
RecordShapeWithoutTag(adt) ==   \* the fields of a variant without the word of its tag
  LET desc == Descriptor(0, Second(FieldsOf(adt)))
  IN [desc EXCEPT !.size = @ + FieldBase(adt)]
\* The ADT itself is as large as its largest variant and marks what any of them marks.
RecordShape(adt) ==
  LET shapes == {Descriptor(FieldBase(a), Second(FieldsOf(a))) :
                   a \in {adt} \cup (IF adt[2] = "" THEN {<<adt[1], tag>> : tag \in ToSet(Tags(adt[1]))}
                                     ELSE {})}
  IN [size |-> Max({s.size : s \in shapes}), pointers |-> UNION {s.pointers : s \in shapes}]

-----------------------------------------------------------------------------
(* The state of the generator.                                                 *)

Here(g) == Len(g.code)
Emit(g, op, k, src, mid, dst) ==
  [g EXCEPT !.code = Append(@, [op |-> op, k |-> k, src |-> src, mid |-> mid, dst |-> dst])]
Move(g, k, src, dst) == Emit(g, "mov", k, src, Unused, dst)
Jump(g, pc) == Emit(g, "jmp", "w", Unused, Unused, Imm(pc))
Branch(g, op, k, src, mid) == Emit(g, op, k, src, mid, Imm(0))
Patch(g, ats, pc) ==
  [g EXCEPT !.code = [n \in DOMAIN @ |-> IF n - 1 \in ats THEN [@[n] EXCEPT !.dst = Imm(pc)] ELSE @[n]]]
Land(g, ats) == Patch(g, ats, Here(g))
AllocMp(g, bytes) == IF bytes = 8 THEN AlignUp(g.mp, 8) ELSE g.mp
\* A constant is kept in the data of the module if it is too large for an operand.
Constant(g, v, dst) ==
  LET k == IF v \in -WordMax - 1 .. WordMax THEN "w" ELSE "l"
      at == AllocMp(g, Bytes(k))
      kept == [g EXCEPT !.mp = at + Bytes(k), !.data = Append(@, [at |-> at, k |-> k, val |-> v])]
  IN IF v \in -OperandMax - 1 .. OperandMax THEN Move(g, "w", Imm(v), Fp(dst)) ELSE Move(kept, k, Mp(at), Fp(dst))

\* Slots are never given back, and the frame grows with them.
ReserveInFirstFrame(g, bytes) == [g EXCEPT !.next = @ + bytes]   \* the frame does not grow
Reserve(g, bytes) ==
  LET next == g.next + bytes
  IN [g EXCEPT !.next = next, !.frame = IF next > @ - 8 THEN AlignUp(next + 24, 8) ELSE @]
Temp(g, k) == Reserve(g, Bytes(k))
Block(g, size) == Reserve(g, AlignUp(Max({size, 4}), 4))

Named(vars, name) == SelectSeq(vars, LAMBDA v: v.name = name)
Bound(g, name) == Named(g.locals, name) # <<>>
LocalOf(g, name) == Named(g.locals, name)[1]
\* A local wins over a variable of the module.
LookupVar(g, name) == (Named(g.locals, name) \o Named(g.globals, name))[1]
SlotOf(g, name) == LocalOf(g, name).slot.at
Bind(g, name, off, valType, k) ==
  [g EXCEPT !.locals = Append(@, [name |-> name, slot |-> Fp(off), type |-> valType, k |-> k])]

\* What is known of a name beside its slot: the type of a tuple, of the elements of an array
\* or a channel, or the ADT.
Side(g, what, name) == IF <<what, name>> \in DOMAIN g.side THEN g.side[what, name] ELSE NoType
Note(g, what, name, type) ==
  IF type = NoType THEN g ELSE [g EXCEPT !.side = (<<what, name>> :> type) @@ @]

\* A name that is declared again keeps the slot it has.
AllocLocal(g, name, valType, k) ==
  IF Bound(g, name) THEN g ELSE Bind(Temp(g, k), name, g.next, valType, k)
DeclareOfType(g, name, type) ==
  IF type.kind = "tuple"
  THEN Note(IF Bound(g, name) THEN g ELSE Bind(Block(g, SizeOf(type)), name, g.next, "Word", "w"),
            "tuple", name, type)
  ELSE AllocLocal(g, name, ValType(type), NumKind(type))

FuncOf(g, name) == CHOOSE n \in DOMAIN g.funcs : g.funcs[n].name = name
RetOf(g, name) == g.funcs[FuncOf(g, name)].ret

\* Descriptors 0 and 1 are reserved, those of the functions' frames follow, then the others.
NeedType(g, desc) == IF desc \in ToSet(g.types) THEN g ELSE [g EXCEPT !.types = Append(@, desc)]
TypeIndex(g, desc) == 1 + Len(g.funcs) + SelectInSeq(g.types, LAMBDA d: d = desc)

\* A construct that break leaves takes the label that stands before it.
PushLoop(g, continuable) ==
  [g EXCEPT !.loops = Append(@, [label |-> g.label, breaks |-> {}, continues |-> {},
                                 continuable |-> continuable]),
            !.label = ""]
FindLoopOrCase(g, label, needContinue) ==   \* continue leaves a case
  Max({n \in DOMAIN g.loops : label # "" => g.loops[n].label = label})
FindLoop(g, label, needContinue) ==
  Max({n \in DOMAIN g.loops : /\ needContinue => g.loops[n].continuable
                              /\ label # "" => g.loops[n].label = label})
GenBreak(g, label) ==
  [Jump(g, 0) EXCEPT !.loops[FindLoop(g, label, FALSE)].breaks = @ \cup {Here(g)}]
GenContinue(g, label) ==
  [Jump(g, 0) EXCEPT !.loops[FindLoop(g, label, TRUE)].continues = @ \cup {Here(g)}]
PopLoop(g, exitPc, continuePc) ==
  LET loop == Last(g.loops)
  IN [Patch(Patch(g, loop.breaks, exitPc), loop.continues, continuePc) EXCEPT !.loops = Front(@)]

-----------------------------------------------------------------------------
(* What the generator infers of an expression: the ADT and the tuple it        *)
(* denotes, the elements of an array or channel, the width and the class of    *)
(* its value.                                                                  *)

TupleField == [t0 |-> 1, t1 |-> 2, t2 |-> 3]
AdtName(type) == IF type.kind = "ref" THEN type ELSE NoType
OnlyTuple(type) == IF type.kind = "tuple" THEN type ELSE NoType

RECURSIVE AdtFor(_, _), ArrayElem(_, _), ChanElem(_, _), FieldInfo(_, _)
FieldInfo(g, e) ==
  LET adt == AdtFor(g, e.e)
      found == IF adt = NoType THEN <<>> ELSE Named(AdtLayout(adt.adt), e.field)
  IN IF found = <<>> THEN [type |-> NoType, off |-> 0] ELSE found[1]
AdtFor(g, e) ==
  CASE e.op = "var"   -> Side(g, "adt", e.name)
    [] e.op = "dot"   -> AdtName(FieldInfo(g, e).type)
    [] e.op = "index" -> AdtName(ArrayElem(g, e.e))
    [] e.op = "recv"  -> AdtName(ChanElem(g, e.e))
    [] e.op = "call"  -> AdtName(RetOf(g, e.name))
    [] OTHER          -> NoType
ArrayElem(g, e) ==
  CASE e.op = "var"   -> Side(g, "array", e.name)
    [] e.op = "index" -> LET inner == ArrayElem(g, e.e) IN IF inner.kind = "array" THEN inner.elem ELSE NoType
    [] OTHER          -> NoType
ChanElem(g, e) ==
  CASE e.op = "var"  -> Side(g, "chan", e.name)
    [] e.op = "chan" -> e.elem
    [] e.op = "dot"  -> LET type == FieldInfo(g, e).type IN IF type.kind = "chan" THEN type.elem ELSE NoType
    [] OTHER         -> NoType

RECURSIVE KindOf(_, _), ClassOf(_, _), TupleTypeOf(_, _)
KindOf(g, e) ==
  CASE e.op = "int" -> IF e.val \in -WordMax - 1 .. WordMax THEN "w" ELSE "l"
    [] e.op = "var" -> IF Bound(g, e.name) \/ Named(g.globals, e.name) # <<>> THEN LookupVar(g, e.name).k ELSE "w"
    [] e.op \in {"set", "decl", "opset"} -> KindOf(g, e.e)
    [] e.op \in {"inc", "dec", "un"} -> KindOf(g, e.e)
    [] e.op = "cast" -> NumKind(e.to)
    [] e.op = "bin" /\ e.fn \notin Comparisons -> Wider(KindOf(g, e.l), KindOf(g, e.r))
    [] e.op = "call" -> NumKind(RetOf(g, e.name))
    [] e.op = "index" -> NumKind(ArrayElem(g, e.e))
    [] e.op = "recv" /\ e.e.op = "var" -> NumKind(Side(g, "chan", e.e.name))
    [] e.op = "dot" -> NumKind(FieldInfo(g, e).type)
    [] OTHER -> "w"
\* A field or element of which nothing is known is a word, and so is a string there, as every basic
\* type; so is what a function returns.
ClassOf(g, e) ==
  LET Known(type) == IF type = NoType \/ type.kind = "string" THEN "Word" ELSE ValType(type)
  IN CASE e.op = "var" -> IF Bound(g, e.name) \/ Named(g.globals, e.name) # <<>> THEN LookupVar(g, e.name).type ELSE "Word"
       [] e.op \in {"set", "decl", "opset", "inc", "dec"} -> ClassOf(g, e.e)
       [] e.op = "bin" /\ e.fn = "add" -> IF ClassOf(g, e.l) = "Ptr" THEN "Ptr" ELSE "Word"
       [] e.op \in {"nil", "hd", "tl", "cons", "list", "chan"} -> "Ptr"
       [] e.op \in {"array", "arralloc"} -> "Array"
       [] e.op = "dot" -> Known(FieldInfo(g, e).type)
       [] e.op = "index" -> Known(ArrayElem(g, e.e))
       [] e.op = "cast" -> ValType(e.to)
       [] OTHER -> "Word"
TupleTypeOf(g, e) ==
  LET FieldType(field) == IF TupleTypeOf(g, field) # NoType THEN TupleTypeOf(g, field)
                          ELSE IF KindOf(g, field) = "l" THEN BigT
                          ELSE IF ClassOf(g, field) = "Word" THEN IntT ELSE StringT
  IN CASE e.op = "tuple" -> TupleT([n \in DOMAIN e.elems |-> FieldType(e.elems[n])])
       [] e.op = "var" -> Side(g, "tuple", e.name)
       [] e.op = "call" -> OnlyTuple(RetOf(g, e.name))
       [] e.op = "recv" -> OnlyTuple(ChanElem(g, e.e))
       [] e.op = "dot" -> IF TupleTypeOf(g, e.e) # NoType /\ e.field \in DOMAIN TupleField
                          THEN OnlyTuple(TupleTypeOf(g, e.e).fields[TupleField[e.field]])
                          ELSE OnlyTuple(FieldInfo(g, e).type)
       [] e.op \in {"tupledecl", "decl", "set"} -> TupleTypeOf(g, e.e)
       [] OTHER -> NoType

-----------------------------------------------------------------------------
(* Expressions.  GenTo puts the value of e into the slot dst of the frame.     *)

RECURSIVE GenTo(_, _, _), Discard(_, _), Copy(_, _, _, _)

\* The value at the given width; a conversion goes through a slot of its own.
GenAs(g, e, dst, k) ==
  LET inner == KindOf(g, e)
  IN IF inner = k THEN GenTo(g, e, dst)
     ELSE Emit(GenTo(Temp(g, inner), e, g.next), "cvt", inner \o k, Fp(g.next), Unused, Fp(dst))

\* Slots for l and then r, their values, and the instruction dst = l op r, or the branch
\* on l op r.
Pair(g, l, r, kl, kr) ==
  GenAs(GenAs(Temp(Temp(g, kl), kr), l, g.next, kl), r, g.next + Bytes(kl), kr)
Words(g, l, r) == GenTo(GenTo(Temp(Temp(g, "w"), "w"), l, g.next), r, g.next + 4)

\* A tuple is wider than one move.
Copy(g, type, src, dst) ==
  IF src = dst THEN g
  ELSE IF type.kind # "tuple" THEN Move(g, MoveOf(type), Fp(src), Fp(dst))
  ELSE LET offs == Place(0, type.fields).offs
       IN FoldLeftDomain(LAMBDA h, n: Copy(h, type.fields[n], src + offs[n], dst + offs[n]), g, type.fields)

\* dst is 1 and then 0 unless the branch is taken.
Truth(g, op, k, src, mid, dst) ==
  LET set == Branch(Move(g, "w", Imm(1), Fp(dst)), op, k, src, mid)
  IN Land(Move(set, "w", Imm(0), Fp(dst)), {Here(set) - 1})

IsNil(e) == e.op = "nil"
\* A condition is any word that is not 0, so a comparison with nil is the pointer itself.
GenCond(g, e, dst) ==
  CASE e.op = "bin" /\ e.fn = "ne" /\ IsNil(e.r) -> GenTo(g, e.l, dst)
    [] e.op = "bin" /\ e.fn = "eq" /\ IsNil(e.r) ->
         Truth(GenTo(Temp(g, "w"), e.l, g.next), "beq", "w", Fp(g.next), Imm(0), dst)
    [] e.op = "bin" /\ e.fn = "ne" /\ IsNil(e.l) -> GenTo(g, e.r, dst)
    [] OTHER -> GenTo(g, e, dst)

GenComparison(g, e, dst) ==
  LET k == Wider(KindOf(g, e.l), KindOf(g, e.r))
  IN IF ClassOf(g, e.l) = "Ptr" /\ e.fn \in {"eq", "ne"}
     THEN Truth(Words(g, e.l, e.r), "b" \o e.fn, "c", Fp(g.next), Fp(g.next + 4), dst)
     ELSE Truth(Pair(g, e.l, e.r, k, k), "b" \o e.fn, k, Fp(g.next), Fp(g.next + Bytes(k)), dst)
\* The left operand goes to mid, the right one to src: dst = mid op src.  A shift counts in
\* words whatever it shifts.
GenBinary(g, e, dst) ==
  LET wide == Wider(KindOf(g, e.l), KindOf(g, e.r))
      kl == IF e.fn \in {"shl", "shr"} THEN KindOf(g, e.l) ELSE wide
      kr == IF e.fn \in {"shl", "shr"} THEN "w" ELSE wide
  IN CASE e.fn \in Comparisons -> GenComparison(g, e, dst)
       [] e.fn = "add" /\ ClassOf(g, e.l) = "Ptr" ->
            Emit(Words(g, e.l, e.r), "add", "c", Fp(g.next + 4), Fp(g.next), Fp(dst))
       [] OTHER -> Emit(Pair(g, e.l, e.r, kl, kr), e.fn, kl, Fp(g.next + Bytes(kl)), Fp(g.next), Fp(dst))

\* The right operand is evaluated only where the left one does not settle the value.
GenLogical(g, e, dst) ==
  LET left == Branch(GenCond(Temp(g, "w"), e.l, g.next),
                     IF e.op = "and" THEN "beq" ELSE "bne", "w", Fp(g.next), Imm(0))
      right == Jump(GenCond(left, e.r, dst), 0)
  IN Land(Move(Land(right, {Here(left) - 1}), "w", Imm(IF e.op = "and" THEN 0 ELSE 1), Fp(dst)),
          {Here(right) - 1})

\* The constant v at width k, the wide one by way of a word.
GenUnit(g, v, k, dst) ==
  IF k = "w" THEN Move(g, "w", Imm(v), Fp(dst))
  ELSE Emit(Move(Temp(g, "w"), "w", Imm(v), Fp(g.next)), "cvt", "wl", Fp(g.next), Unused, Fp(dst))
GenUnary(g, e, dst) ==
  LET k == KindOf(g, e.e)
      zero == g.next + Bytes(k)
      not == Branch(GenTo(g, e.e, dst), "beq", "w", Fp(dst), Imm(0))
      false == Jump(Move(not, "w", Imm(0), Fp(dst)), 0)
      value == GenTo(g, e.e, dst)
      ones == IF k = "w" THEN value.next ELSE value.next + 4
  IN CASE e.fn = "neg" ->
            Emit(GenUnit(GenTo(Temp(Temp(g, k), k), e.e, g.next), 0, k, zero),
                 "sub", k, Fp(g.next), Fp(zero), Fp(dst))
       [] e.fn = "not" ->
            Land(Move(Land(false, {Here(not) - 1}), "w", Imm(1), Fp(dst)), {Here(false) - 1})
       [] e.fn = "inv" /\ k = "w" ->
            Emit(Move(Temp(value, "w"), "w", Imm(-1), Fp(ones)), "xor", "w", Fp(ones), Unused, Fp(dst))
       [] e.fn = "inv" /\ k = "l" ->
            Emit(Emit(Move(Temp(Temp(value, "w"), "l"), "w", Imm(-1), Fp(value.next)),
                      "cvt", "wl", Fp(value.next), Unused, Fp(ones)),
                 "xor", "l", Fp(ones), Unused, Fp(dst))

GenVar(g, e, dst) ==
  LET var == LookupVar(g, e.name)
  IN IF Side(g, "tuple", e.name) # NoType /\ Bound(g, e.name)
     THEN Copy(g, Side(g, "tuple", e.name), SlotOf(g, e.name), dst)
     ELSE IF var.slot = Fp(dst) THEN g ELSE Move(g, MoveFor(var.type, var.k), var.slot, Fp(dst))

GenCast(g, e, dst) ==
  LET inner == KindOf(g, e.e)
  IN IF e.to.kind \in {"int", "big"} /\ inner # NumKind(e.to)
     THEN Emit(GenTo(Temp(g, inner), e.e, g.next), "cvt", inner \o NumKind(e.to), Fp(g.next), Unused, Fp(dst))
     ELSE GenTo(g, e.e, dst)

\* The address of an element goes to a slot of its own, at the end of g's slots.
Elements(g, e) == NumKind(ArrayElem(g, e))
GenElement(g, arr, i, k) == Emit(Temp(g, "w"), "ind", k, Fp(arr), Fp(g.next), Fp(i))
GenIndex(g, e, dst) ==
  LET operands == Words(g, e.e, e.i)
      k == Elements(g, e.e)
  IN IF ClassOf(g, e.e) = "Ptr"
     THEN Emit(operands, "ind", "c", Fp(g.next), Fp(g.next + 4), Fp(dst))
     ELSE Move(GenElement(operands, g.next, g.next + 4, k), k, Through(operands.next, 0), Fp(dst))

\* A field of a tuple lies in the frame, that of an ADT behind a reference.
GenTupleBlock(g, e) ==
  IF e.op = "var" /\ Bound(g, e.name) THEN [g |-> g, at |-> SlotOf(g, e.name)]
  ELSE [g |-> GenTo(Block(g, SizeOf(TupleTypeOf(g, e))), e, g.next), at |-> g.next]
IsTupleField(g, e) == e.field \in DOMAIN TupleField /\ TupleTypeOf(g, e.e) # NoType
FieldMove(type) == IF type = NoType THEN "w" ELSE MoveOf(type)
GenDot(g, e, dst) ==
  LET fields == TupleTypeOf(g, e.e).fields
      n == TupleField[e.field]
      block == GenTupleBlock(g, e.e)
      field == FieldInfo(g, e)
  IN IF IsTupleField(g, e) THEN Copy(block.g, fields[n], block.at + Place(0, fields).offs[n], dst)
     ELSE Move(GenTo(Temp(g, "w"), e.e, g.next), FieldMove(field.type), Through(g.next, field.off), Fp(dst))

GenTuple(g, e, dst) ==
  LET types == TupleTypeOf(g, e).fields
      offs == Place(0, types).offs
  IN FoldLeftDomain(LAMBDA h, n: GenAs(h, e.elems[n], dst + offs[n], NumKind(types[n])), g, e.elems)

\* Lists: hd moves a pointer whatever it is; tl reads the slot of a local in place.
GenHead(g, e, dst) == Emit(GenTo(Temp(g, "w"), e.e, g.next), "head", "p", Fp(g.next), Unused, Fp(dst))
GenTail(g, e, dst) ==
  IF e.e.op = "var" /\ Bound(g, e.e.name) THEN Emit(g, "tail", "p", Fp(SlotOf(g, e.e.name)), Unused, Fp(dst))
  ELSE Emit(GenTo(Temp(g, "w"), e.e, g.next), "tail", "p", Fp(g.next), Unused, Fp(dst))
GenCons(g, e, dst) ==
  LET tail == g.next + 4
      consed == Emit(Words(g, e.l, e.r), "cons", "p", Fp(g.next), Unused, Fp(tail))
  IN IF tail = dst THEN consed ELSE Move(consed, "p", Fp(tail), Fp(dst))
GenList(g, e, dst) ==
  FoldRight(LAMBDA elem, h: Emit(GenTo(Temp(h, "w"), elem, h.next), "cons", "p", Fp(h.next), Unused, Fp(dst)),
            e.elems, Move(g, "w", Imm(0), Fp(dst)))
GenLen(g, e, dst) ==
  Emit(GenTo(Temp(g, "w"), e.e, g.next), "len", IF ClassOf(g, e.e) = "Array" THEN "a" ELSE "c",
       Fp(g.next), Unused, Fp(dst))

\* A record is allocated in its target and then filled, its tag first.
GenRecord(g, e, dst) ==
  LET need == NeedType(g, RecordShape(e.adt))
      new == Emit(need, "new", "p", Imm(TypeIndex(need, RecordShape(e.adt))), Unused, Fp(dst))
      tagged == IF e.adt[2] = "" THEN new ELSE Move(new, "w", Imm(TagOf(e.adt)), Through(dst, 0))
      layout == AdtLayout(e.adt)
      Field(h, n) == LET type == layout[n].type
                     IN Move(GenAs(Temp(h, NumKind(type)), e.args[n], h.next, NumKind(type)),
                             MoveOf(type), Fp(h.next), Through(dst, layout[n].off))
  IN FoldLeftDomain(Field, tagged, e.args)

NewArray(g, elem, len, dst) ==
  LET need == NeedType(g, Element(elem))
  IN Emit(need, "newa", "p", Fp(len), Imm(TypeIndex(need, Element(elem))), Fp(dst))
LiteralElem(g, e) ==
  IF e.elems = <<>> THEN IntT
  ELSE IF ClassOf(g, e.elems[1].e) # "Word" THEN StringT
  ELSE IF KindOf(g, e.elems[1].e) = "l" THEN BigT ELSE IntT
\* Where each value goes: at the next index, or at those its selector names.
Placed(done, elem) ==
  LET Range1(sel) == LET hi == IF sel.hi.op = "nothing" THEN sel.lo.val ELSE sel.hi.val
                     IN [n \in 1 .. hi - sel.lo.val + 1 |-> sel.lo.val + n - 1]
      ats == FlattenSeq([n \in DOMAIN elem.at.by |-> Range1(elem.at.by[n])])
  IN CASE elem.at = Nothing -> [done EXCEPT !.list = Append(@, [at |-> done.next, e |-> elem.e]), !.next = @ + 1]
       [] elem.at = AnyP    -> [done EXCEPT !.default = elem.e]
       [] OTHER -> [done EXCEPT !.list = @ \o [n \in DOMAIN ats |-> [at |-> ats[n], e |-> elem.e]], !.next = Last(ats) + 1]
PlacedIn(elems) == FoldLeft(Placed, [list |-> <<>>, next |-> 0, default |-> Nothing], elems)
\* The elements are stored in order, after the default has filled the whole array.
GenArray(g, e, dst) ==
  LET elem == LiteralElem(g, e)
      k == NumKind(elem)
      mov == MoveOf(elem)
      placed == PlacedIn(e.elems)
      len == g.next
      sized == IF e.size.op # "nothing" THEN GenTo(Temp(g, "w"), e.size, len)
               ELSE Constant(Temp(g, "w"), Max({0} \cup {p.at + 1 : p \in ToSet(placed.list)}), len)
      new == NewArray(sized, elem, len, dst)
      default == GenAs(Temp(new, k), placed.default, new.next, k)
      i == default.next
      start == Move(Temp(default, "w"), "w", Imm(0), Fp(i))
      test == Branch(start, "bge", "w", Fp(i), Fp(len))
      store == Move(GenElement(test, dst, i, k), mov, Fp(new.next), Through(test.next, 0))
      next == Jump(Emit(store, "add", "w", Imm(1), Unused, Fp(i)), Here(start))
      filled == IF placed.default.op = "nothing" THEN new ELSE Land(next, {Here(start)})
      Elem(h, p) == LET value == GenAs(Temp(h, k), p.e, h.next, k)
                        at == Constant(Temp(value, "w"), p.at, value.next)
                    IN Move(GenElement(at, dst, value.next, k), mov, Fp(h.next), Through(at.next, 0))
  IN FoldLeft(Elem, filled, placed.list)
GenArrayAlloc(g, e, dst) == NewArray(GenTo(Temp(g, "w"), e.e, g.next), e.elem, g.next, dst)

GenChan(g, e, dst) ==
  LET desc == Descriptor(0, e.elem.fields)
      need == NeedType(g, desc)
  IN IF e.elem.kind = "tuple"
     THEN Emit(need, "newc", "m", Imm(TypeIndex(need, desc)), Unused, Fp(dst))
     ELSE Emit(g, "newc", NumKind(e.elem), Unused, Imm(0), Fp(dst))
GenRecv(g, e, dst) == Emit(GenTo(Temp(g, "w"), e.e, g.next), "recv", "m", Fp(g.next), Unused, Fp(dst))
\* The slot that is sent is as wide as the messages of the channel.
GenSend(g, e) ==
  LET elem == ChanElem(g, e.l)
      k == IF elem = NoType THEN KindOf(g, e.r) ELSE NumKind(elem)
      chan == GenTo(Temp(g, "w"), e.l, g.next)
      value == IF elem.kind = "tuple" THEN GenTo(Block(chan, SizeOf(elem)), e.r, chan.next)
               ELSE GenAs(Temp(chan, k), e.r, chan.next, k)
  IN Emit(value, "send", "m", Fp(chan.next), Unused, Fp(g.next))

-----------------------------------------------------------------------------
(* Calls.  The arguments are evaluated into slots and then stored into the     *)
(* callee's frame, at the offsets at which the callee has its parameters.      *)

NoSlot == -1
Argument(args, e) ==
  LET g == args.g
      tuple == TupleTypeOf(g, e)
      k == KindOf(g, e)
      slot == IF tuple # NoType
              THEN [at |-> g.next, fields |-> tuple.fields, width |-> SizeOf(tuple), align |-> AlignOf(tuple)]
              ELSE [at |-> g.next, fields |-> <<>>, mov |-> MoveFor(ClassOf(g, e), k),
                    width |-> Bytes(k), align |-> Bytes(k)]
  IN [g |-> GenTo(IF tuple # NoType THEN Block(g, slot.width) ELSE Temp(g, k), e, g.next),
      slots |-> Append(args.slots, slot)]
Store(frame, args, slot) ==
  LET off == AlignUp(args.off, slot.align)
      offs == Place(0, slot.fields).offs
      Field(h, n) == Move(h, MoveOf(slot.fields[n]), Fp(slot.at + offs[n]), Through(frame, off + offs[n]))
  IN [g |-> IF slot.fields = <<>> THEN Move(args.g, slot.mov, Fp(slot.at), Through(frame, off))
            ELSE FoldLeftDomain(Field, args.g, slot.fields),
      off |-> off + slot.width]
\* A function that has no code yet is filled in at the end.
Enter(g, op, name, frame) ==
  LET pc == g.funcs[FuncOf(g, name)].pc
  IN [Emit(g, op, "w", Fp(frame), Unused, Imm(pc)) EXCEPT
        !.calls = IF pc < 0 THEN @ \cup {<<Here(g), name>>} ELSE @]
NewFrame(g, name, frame) == Emit(g, "frame", "w", Imm(1 + FuncOf(g, name)), Unused, Fp(frame))
GenCall(g, e, dst) ==
  LET args == FoldLeft(Argument, [g |-> g, slots |-> <<>>], e.args)
      frame == args.g.next
      framed == NewFrame(Temp(Temp(args.g, "w"), NumKind(RetOf(g, e.name))), e.name, frame)
      stored == FoldLeft(LAMBDA done, slot: Store(frame, done, slot), [g |-> framed, off |-> 32], args.slots).g
      target == IF dst = NoSlot THEN frame + 4 ELSE dst
  IN Enter(Emit(stored, "lea", "w", Fp(target), Unused, Through(frame, 16)), "call", e.name, frame)
GenSpawn(g, e) ==
  LET frame == g.next
      Arg(done, arg) == LET value == Argument([g |-> done.g, slots |-> <<>>], arg)
                        IN Store(frame, [g |-> value.g, off |-> done.off], value.slots[1])
      framed == [g |-> NewFrame(Temp(g, "w"), e.name, frame), off |-> 32]
  IN Enter(FoldLeft(Arg, framed, e.args).g, "spawn", e.name, frame)

-----------------------------------------------------------------------------
(* Assignments and declarations.                                               *)

Known(g, name) == Bound(g, name) \/ Named(g.globals, name) # <<>>
\* A name without a declaration becomes a local; the value is also left in dst, if that is a slot.
AssignVar(g, name, e, dst) ==
  LET declared == IF Known(g, name) THEN g ELSE AllocLocal(g, name, ClassOf(g, e), KindOf(g, e))
      var == LookupVar(declared, name)
      mov == MoveFor(var.type, var.k)
      staged == GenAs(Temp(declared, var.k), e, declared.next, var.k)
      stored == Move(staged, mov, Fp(declared.next), var.slot)
      inPlace == GenAs(declared, e, var.slot.at, var.k)
  IN IF var.slot.mode = "fp"
     THEN IF dst \in {NoSlot, var.slot.at} THEN inPlace ELSE Move(inPlace, mov, var.slot, Fp(dst))
     ELSE IF dst = NoSlot THEN stored ELSE Move(stored, mov, Fp(declared.next), Fp(dst))

AssignIndex(g, to, e) ==
  LET isArray == ClassOf(g, to.e) = "Array"
      k == IF isArray THEN Elements(g, to.e) ELSE "w"
      i == g.next
      arr == g.next + 4
      val == g.next + 8
      operands == GenTo(GenTo(GenTo(Temp(Temp(Temp(g, "w"), "w"), k), e, val), to.i, i), to.e, arr)
  IN IF isArray THEN Move(GenElement(operands, arr, i, k), k, Fp(val), Through(operands.next, 0))
     ELSE Emit(operands, "ins", "c", Fp(val), Fp(i), Fp(arr))
AssignField(g, to, e) ==
  LET fields == TupleTypeOf(g, to.e).fields
      n == TupleField[to.field]
      kn == NumKind(fields[n])
      field == FieldInfo(g, to)
      k == NumKind(field.type)
      val == g.next + 4
      operands == GenTo(GenAs(Temp(Temp(g, "w"), k), e, val, k), to.e, g.next)
      mov == IF field.type = NoType THEN MoveFor(ClassOf(g, e), "w") ELSE MoveOf(field.type)
  IN IF IsTupleField(g, to)
     THEN Copy(GenAs(Temp(g, kn), e, g.next, kn), fields[n], g.next, SlotOf(g, to.e.name) + Place(0, fields).offs[n])
     ELSE Move(operands, mov, Fp(val), Through(g.next, field.off))

\* The shape of the right-hand side, or a word for every name.
Unpacked(g, names, e) ==
  LET type == TupleTypeOf(g, e)
  IN IF type # NoType /\ Len(type.fields) = Len(names) THEN type.fields ELSE [n \in DOMAIN names |-> IntT]
\* Another target than a variable is assigned from a name that stands for the slot of the value.
Alias(g) == "slot" \o ToString(Len(g.locals))
AssignFrom(g, to, at, type) ==
  Discard(Bind(g, Alias(g), at, ValType(type), NumKind(type)),
          [op |-> "set", to |-> to, e |-> [op |-> "var", name |-> Alias(g)]])
\* The right-hand side is built whole before any target is written.
AssignTuple(g, targets, e) ==
  LET types == Unpacked(g, targets, e)
      offs == Place(0, types).offs
      Target(h, n) ==
        LET to == targets[n]
            from == g.next + offs[n]
            declared == IF Known(h, to.name) THEN h ELSE DeclareOfType(h, to.name, types[n])
            slot == LookupVar(declared, to.name).slot
        IN CASE to.op = "nil" -> h
             [] to.op = "var" -> IF types[n].kind = "tuple" /\ slot.mode = "fp"
                                 THEN Copy(declared, types[n], from, slot.at)
                                 ELSE Move(declared, MoveOf(types[n]), Fp(from), slot)
             [] OTHER -> [AssignFrom(h, to, from, types[n]) EXCEPT !.locals = Front(@)]
  IN FoldLeftDomain(Target, GenTo(Block(g, SizeOf(TupleT(types))), e, g.next), targets)
\* Names for the fields of a block.
Unpack(g, names, types, from) ==
  LET offs == Place(0, types).offs
      Name(h, n) == LET declared == DeclareOfType(h, names[n], types[n])
                    IN IF names[n] = "nil" THEN h
                       ELSE Copy(declared, types[n], from + offs[n], SlotOf(declared, names[n]))
  IN FoldLeftDomain(Name, g, names)
DeclareTuple(g, names, e, dst) ==
  LET types == Unpacked(g, names, e)
  IN IF dst # NoSlot THEN Unpack(GenTo(g, e, dst), names, types, dst)
     ELSE Unpack(GenTo(Block(g, SizeOf(TupleT(types))), e, g.next), names, types, g.next)

\* name := e takes its type, and what is known beside it, from e.
Declare(g, name, e) ==
  LET elem == IF e.op = "arralloc" THEN e.elem ELSE IF e.op = "array" THEN LiteralElem(g, e) ELSE NoType
      adt == IF e.op = "ref" THEN RefT(e.adt) ELSE IF e.op = "call" THEN AdtName(RetOf(g, e.name)) ELSE NoType
      tuple == DeclareOfType(g, name, TupleTypeOf(g, e))
      array == Note(AllocLocal(g, name, ClassOf(g, e), KindOf(g, e)), "array", name, elem)
      noted == Note(Note(array, "chan", name, ChanElem(g, e)), "adt", name, adt)
  IN IF TupleTypeOf(g, e) # NoType THEN GenTo(tuple, e, SlotOf(tuple, name))
     ELSE GenTo(noted, e, SlotOf(noted, name))

Notes(type, init) ==
  [array |-> IF type.kind = "array" THEN type.elem
             ELSE IF init.op = "arralloc" THEN init.elem ELSE NoType,
   chan |-> IF type.kind = "chan" THEN type.elem ELSE IF init.op = "chan" THEN init.elem ELSE NoType,
   adt |-> AdtName(type)]
NoteAll(g, name, notes) ==
  Note(Note(Note(g, "array", name, notes.array), "chan", name, notes.chan), "adt", name, notes.adt)
DeclClass(type) == IF type.kind \in {"int", "big"} THEN "Word" ELSE "Ptr"
\* names : type = init
GenVarDecl(g, s) ==
  LET Name(h, name) ==
        NoteAll(IF s.type.kind = "tuple" THEN DeclareOfType(h, name, s.type)
                ELSE AllocLocal(h, name, DeclClass(s.type), NumKind(s.type)),
                name, Notes(s.type, s.init))
      declared == FoldLeft(Name, g, s.names)
  IN IF s.init.op = "nothing" THEN declared ELSE GenTo(declared, s.init, SlotOf(declared, s.names[1]))

\* The operand for the update and the slot of the value, for a variable, an element or a field.
Operand(g, e) ==
  LET var == LookupVar(g, e.name)
      elems == Elements(g, e.e)
      element == GenElement(Words(g, e.e, e.i), g.next, g.next + 4, elems)
      field == FieldInfo(g, e)
  IN CASE e.op = "var" -> [g |-> g, to |-> var.slot, mov |-> MoveFor(var.type, var.k), k |-> var.k]
       [] e.op = "index" -> [g |-> element, to |-> Through(element.next - 4, 0), mov |-> elems, k |-> elems]
       [] e.op = "dot" -> [g |-> GenTo(Temp(g, "w"), e.e, g.next), to |-> Through(g.next, field.off),
                           mov |-> NumKind(field.type), k |-> NumKind(field.type)]
\* x++ and x--; the value is what x was before.
GenIncDec(g, e, dst) ==
  LET place == Operand(g, e.e)
      old == IF dst = NoSlot \/ place.to = Fp(dst) THEN place.g ELSE Move(place.g, place.mov, place.to, Fp(dst))
      op == IF e.op = "inc" THEN "add" ELSE "sub"
      one == Emit(Move(Temp(Temp(old, "w"), "l"), "w", Imm(1), Fp(old.next)),
                  "cvt", "wl", Fp(old.next), Unused, Fp(old.next + 4))
  IN IF place.k = "w" THEN Emit(old, op, "w", Imm(1), Unused, place.to)
     ELSE Emit(one, op, "l", Fp(old.next + 4), Unused, place.to)

\* to op= e.  An operator other than + - * / adds words, and only a variable or an element
\* is updated.
GenOpSet(g, e) ==
  LET isVar == e.to.op = "var"
      h0 == IF isVar /\ ~Known(g, e.to.name) THEN AllocLocal(g, e.to.name, "Word", "w") ELSE g
      var == LookupVar(h0, e.to.name)
      k == IF isVar THEN var.k ELSE Elements(g, e.to.e)
      basic == e.fn \in {"add", "sub", "mul", "div"}
      val == GenAs(Temp(h0, k), e.e, h0.next, k)
      operands == GenTo(GenTo(Temp(Temp(val, "w"), "w"), e.to.i, val.next), e.to.e, val.next + 4)
      element == GenElement(operands, val.next + 4, val.next, k)
      Op(h, to) == Emit(h, IF basic THEN e.fn ELSE "add", IF basic THEN k ELSE "w", Fp(h0.next), Unused, to)
  IN CASE isVar /\ var.type = "Ptr" /\ e.fn = "add" ->
            Emit(GenTo(Temp(h0, "w"), e.e, h0.next), "add", "c", Fp(h0.next), Unused, var.slot)
       [] isVar -> Op(val, var.slot)
       [] e.to.op = "index" -> Op(element, Through(operands.next, 0))
       [] OTHER -> g

-----------------------------------------------------------------------------
(* What stands for a value, and what stands for a statement.                   *)

GenTo(g, e, dst) ==
  LET local == LocalOf(Discard(g, e), e.name)
  IN CASE e.op = "int"      -> Constant(g, e.val, dst)
       [] e.op = "nil"      -> Move(g, "w", Imm(0), Fp(dst))
       [] e.op = "var"      -> GenVar(g, e, dst)
       [] e.op = "bin"      -> GenBinary(g, e, dst)
       [] e.op \in {"and", "or"} -> GenLogical(g, e, dst)
       [] e.op = "un"       -> GenUnary(g, e, dst)
       [] e.op = "cast"     -> GenCast(g, e, dst)
       [] e.op = "index"    -> GenIndex(g, e, dst)
       [] e.op = "dot"      -> GenDot(g, e, dst)
       [] e.op = "tuple"    -> GenTuple(g, e, dst)
       [] e.op = "hd"       -> GenHead(g, e, dst)
       [] e.op = "tl"       -> GenTail(g, e, dst)
       [] e.op = "cons"     -> GenCons(g, e, dst)
       [] e.op = "list"     -> GenList(g, e, dst)
       [] e.op = "len"      -> GenLen(g, e, dst)
       [] e.op = "ref"      -> GenRecord(g, e, dst)
       [] e.op = "array"    -> GenArray(g, e, dst)
       [] e.op = "arralloc" -> GenArrayAlloc(g, e, dst)
       [] e.op = "chan"     -> GenChan(g, e, dst)
       [] e.op = "recv"     -> GenRecv(g, e, dst)
       [] e.op = "send"     -> Move(GenSend(g, e), "w", Imm(0), Fp(dst))
       [] e.op = "tagof"    -> Move(GenTo(Temp(g, "w"), e.e, g.next), "w", Through(g.next, 0), Fp(dst))
       [] e.op = "call"     -> GenCall(g, e, dst)
       [] e.op \in {"inc", "dec"} -> GenIncDec(g, e, dst)
       [] e.op = "set"      -> IF e.to.op = "var" THEN AssignVar(g, e.to.name, e.e, dst) ELSE GenTo(g, e.e, dst)
       [] e.op = "decl"     -> IF local.slot = Fp(dst) THEN Discard(g, e)
                               ELSE Move(Discard(g, e), MoveFor(local.type, local.k), local.slot, Fp(dst))
       [] e.op = "tupledecl" -> DeclareTuple(g, e.names, e.e, dst)

GenAssign(g, e) ==
  CASE e.to.op = "var"   -> AssignVar(g, e.to.name, e.e, NoSlot)
    [] e.to.op = "tuple" -> AssignTuple(g, e.to.elems, e.e)
    [] e.to.op = "index" -> AssignIndex(g, e.to, e.e)
    [] e.to.op = "dot"   -> AssignField(g, e.to, e.e)
    [] OTHER             -> GenTo(Temp(g, "w"), e.e, g.next)

\* An expression whose value is not wanted.
Discard(g, e) ==
  CASE e.op = "set"       -> GenAssign(g, e)
    [] e.op = "opset"     -> GenOpSet(g, e)
    [] e.op = "decl"      -> Declare(g, e.name, e.e)
    [] e.op = "tupledecl" -> DeclareTuple(g, e.names, e.e, NoSlot)
    [] e.op \in {"inc", "dec"} -> GenIncDec(g, e, NoSlot)
    [] e.op = "call"      -> GenCall(g, e, NoSlot)
    [] e.op = "send"      -> GenSend(g, e)
    [] OTHER              -> GenTo(Temp(g, "w"), e, g.next)

-----------------------------------------------------------------------------
(* Statements.                                                                 *)

RECURSIVE GenStmt(_, _)
\* There is always a next slot: asking for it has TLC finish one part before it takes up another.
InTurn(Gen(_, _), g, parts) == FoldLeft(LAMBDA h, part: IF h.next > 0 THEN Gen(h, part) ELSE h, g, parts)
GenBody(g, body) == InTurn(GenStmt, g, body)

\* A branch on a condition that is 0, or is not.
Test(g, op, cond) == Branch(GenCond(Temp(g, "w"), cond, g.next), op, "w", Fp(g.next), Imm(0))

GenIf(g, s) ==
  LET test == Test(g, "beq", s.cond)
      then == GenStmt(test, s.then)
      skip == Jump(then, 0)
  IN IF s.else.op = "nothing" THEN Land(then, {Here(test) - 1})
     ELSE Land(GenStmt(Land(skip, {Here(test) - 1}), s.else), {Here(then)})

GenWhile(g, s) ==
  LET loop == PushLoop(g, TRUE)
      test == Test(loop, "beq", s.cond)
      done == Jump(GenStmt(test, s.body), Here(loop))
  IN PopLoop(Land(done, {Here(test) - 1}), Here(done), Here(loop))

GenForToTest(g, s) ==   \* continue goes on with the test
  LET loop == GenStmt(PushLoop(g, TRUE), s.init)
      test == IF s.cond.op = "nothing" THEN loop ELSE Test(loop, "beq", s.cond)
      done == Jump(GenStmt(GenStmt(test, s.body), s.post), Here(loop))
      exit == IF s.cond.op = "nothing" THEN {} ELSE {Here(test) - 1}
  IN PopLoop(Land(done, exit), Here(done), Here(loop))
\* continue goes on with the post statement.
GenFor(g, s) ==
  LET loop == GenStmt(PushLoop(g, TRUE), s.init)
      test == IF s.cond.op = "nothing" THEN loop ELSE Test(loop, "beq", s.cond)
      body == GenStmt(test, s.body)
      done == Jump(GenStmt(body, s.post), Here(loop))
      exit == IF s.cond.op = "nothing" THEN {} ELSE {Here(test) - 1}
  IN PopLoop(Land(done, exit), Here(done), Here(body))

\* continue goes on with the test, which is at the end.
GenDo(g, s) ==
  LET loop == PushLoop(g, TRUE)
      body == GenStmt(loop, s.body)
      done == Patch(Test(body, "bne", s.cond), {Here(Test(body, "bne", s.cond)) - 1}, Here(loop))
  IN PopLoop(done, Here(done), Here(body))

\* The patterns of an arm are tried in turn; hits are the branches to its body.
Pattern(val, class, tried, p) ==
  LET g == tried.g
      is == Branch(GenTo(Temp(g, "w"), p.e, g.next), "beq", IF class = "Word" THEN "w" ELSE "c",
                   Fp(val), Fp(g.next))
      below == Branch(Words(g, p.lo, p.hi), "blt", "w", Fp(val), Fp(g.next))
      within == Branch(below, "ble", "w", Fp(val), Fp(g.next + 4))
      next == CASE p.op = "is"    -> is
                [] p.op = "range" -> Land(within, {Here(below) - 1})
                [] p.op = "any"   -> Jump(g, 0)
  IN [g |-> next, hits |-> tried.hits \cup {Here(next) - 1}]
CaseArm(val, class, done, arm) ==
  LET tried == FoldLeft(LAMBDA t, p: Pattern(val, class, t, p), [g |-> done.g, hits |-> {}], arm.pats)
      skip == Jump(tried.g, 0)
      end == Jump(GenBody(Land(skip, tried.hits), arm.body), 0)
  IN [g |-> Land(end, {Here(skip) - 1}), ends |-> done.ends \cup {Here(end) - 1}]
GenCase(g, s) ==
  LET val == g.next
      start == GenTo(Temp(PushLoop(g, FALSE), "w"), s.e, val)
      done == FoldLeft(LAMBDA d, arm: CaseArm(val, ClassOf(start, s.e), d, arm),
                       [g |-> start, ends |-> {}], s.arms)
      end == Land(done.g, done.ends)
  IN PopLoop(end, Here(end), Here(end))

\* The name is bound to the value, and within an arm to the variant the arm is for.
PickArmAdt(base, tags) ==
  LET group(tag) == SelectInSeq(Adts[base].pick, LAMBDA p: tag \in ToSet(p.tags))
  IN IF tags[1] # "*" /\ \A tag \in ToSet(tags) : tag # "*" /\ group(tag) = group(tags[1])
     THEN <<base, tags[1]>> ELSE <<base, "">>
PickArm(s, base, pads, default, done, n) ==
  LET arm == s.arms[n]
      landed == Land(done.g, {p[1] : p \in {q \in pads : q[2] = n}}
                             \cup (IF "*" \in ToSet(arm.tags) THEN {default} ELSE {}))
      bound == Note(landed, "adt", s.name, RefT(PickArmAdt(base, arm.tags)))
      end == Jump(GenBody(bound, arm.body), 0)
  IN [g |-> end, ends |-> done.ends \cup {Here(end) - 1}]
GenPick(g, s) ==
  LET base == AdtFor(g, s.e).adt[1]
      bound == AllocLocal(PushLoop(g, FALSE), s.name, "Ptr", "w")
      bind == SlotOf(bound, s.name)
      value == GenTo(bound, s.e, bind)
      tag == value.next
      tagged == Move(Temp(value, "w"), "w", Through(bind, 0), Fp(tag))
      tests == FlattenSeq([n \in DOMAIN s.arms |->
                 [i \in DOMAIN SelectSeq(s.arms[n].tags, LAMBDA t: t # "*") |->
                    <<SelectSeq(s.arms[n].tags, LAMBDA t: t # "*")[i], n>>]])
      tested == FoldLeft(LAMBDA h, t: Branch(h, "beq", "w", Fp(tag), Imm(TagOf(<<base, t[1]>>))), tagged, tests)
      pads == {<<Here(tagged) + n - 1, tests[n][2]>> : n \in DOMAIN tests}
      default == Here(tested)
      done == FoldLeftDomain(LAMBDA d, n: PickArm(s, base, pads, default, d, n),
                             [g |-> Jump(tested, 0), ends |-> {}], s.arms)
      wild == \E n \in DOMAIN s.arms : "*" \in ToSet(s.arms[n].tags)
      end == Land(done.g, done.ends \cup (IF wild THEN {} ELSE {default}))
      saved == Side(value, "adt", s.name)
      side == [x \in DOMAIN end.side \ {<<"adt", s.name>>} |-> end.side[x]]
  IN Note(PopLoop([end EXCEPT !.side = side], Here(end), Here(end)), "adt", s.name, saved)

\* The sends have the first entries of the table and the receives the next ones, each in the
\* order of the guards; "any" is a guard without an entry.
Entries(s) ==
  LET guards == FlattenSeq([a \in DOMAIN s.arms |->
                  [i \in DOMAIN s.arms[a].guards |-> [guard |-> s.arms[a].guards[i], arm |-> a]]])
      channels == SelectSeq(guards, LAMBDA e: e.guard.op # "any")
      sends == SelectSeq(channels, LAMBDA e: e.guard.op = "send")
      Same(n) == Cardinality({i \in 1 .. n - 1 : channels[i].guard.op = channels[n].guard.op})
  IN [nsend |-> Len(sends),
      list |-> [n \in DOMAIN channels |->
                  [guard |-> channels[n].guard, arm |-> channels[n].arm,
                   index |-> Same(n) + IF channels[n].guard.op = "send" THEN 0 ELSE Len(sends)]]]
\* Where the value to send is, or where the value received goes.  The table holds offsets into
\* the frame, so what is no local is written once the entry is selected.
ChanSlot(g, elem) ==
  IF elem.kind = "tuple" THEN Block(g, SizeOf(elem)) ELSE Temp(g, NumKind(elem))
Source(g, elem, e) ==
  LET slot == ChanSlot(g, elem)
  IN [g |-> IF elem.kind \in {"tuple", "none"} THEN GenTo(slot, e, g.next)
            ELSE GenAs(slot, e, g.next, NumKind(elem)),
      at |-> g.next]
InPlace(g, to) == to.op = "set" /\ to.to.op = "var" /\ Bound(g, to.to.name)
Destination(g, elem, to) ==
  LET declared == IF elem = NoType THEN AllocLocal(g, to.name, "Word", "w")
                  ELSE NoteAll(DeclareOfType(g, to.name, elem), to.name, Notes(elem, [op |-> "nothing"]))
  IN CASE to.op = "decl"  -> [g |-> declared, at |-> SlotOf(declared, to.name)]
       [] InPlace(g, to)  -> [g |-> g, at |-> SlotOf(g, to.to.name)]
       [] OTHER           -> [g |-> ChanSlot(g, elem), at |-> g.next]
\* One entry: the channel and the address of the slot.
Entry(table, done, entry) ==
  LET g == done.g
      guard == entry.guard
      elem == ChanElem(g, guard.chan)
      at == table + 8 + 8 * entry.index
      chan == Move(GenTo(Temp(g, "w"), guard.chan, g.next), "p", Fp(g.next), Fp(at))
      slot == IF guard.op = "send" THEN Source(chan, elem, guard.e) ELSE Destination(chan, elem, guard.to)
      after == CASE guard.op = "recv" /\ guard.to.op = "tupledecl" -> "unpack"
                 [] guard.op = "recv" /\ guard.to.op = "set" /\ ~InPlace(chan, guard.to) -> "assign"
                 [] OTHER -> "none"
  IN [g |-> Emit(slot.g, "lea", "w", Fp(slot.at), Unused, Fp(at + 4)),
      entries |-> Append(done.entries, [index |-> entry.index, arm |-> entry.arm, at |-> slot.at, after |-> after,
                                        guard |-> guard, elem |-> IF elem = NoType THEN IntT ELSE elem])]
\* What is done with a value received before the body of the arm.
Prologue(g, entry) ==
  CASE entry.after = "unpack" -> Unpack(g, entry.guard.to.names, entry.elem.fields, entry.at)
    [] entry.after = "assign" -> [AssignFrom(g, entry.guard.to.to, entry.at, entry.elem) EXCEPT
                                    !.locals = SelectSeq(@, LAMBDA v: v.name # Alias(g))]
    [] entry.after = "none"   -> g
\* The prologues of an arm, each at the landing pad of its entry, all lead to its body.
AltArm(pads, count, entries, done, arm, n) ==
  LET mine == SelectSeq(entries, LAMBDA e: e.arm = n)
      wild == \E i \in DOMAIN arm.guards : arm.guards[i].op = "any"
      Landed(d, i) ==
        LET at == Prologue(Land(d.g, {pads + mine[i].index}), mine[i])
        IN IF i < Len(mine) \/ wild THEN [g |-> Jump(at, 0), skips |-> d.skips \cup {Here(at)}]
           ELSE [d EXCEPT !.g = at]
      landed == FoldLeftDomain(Landed, [g |-> done.g, skips |-> {}], mine)
      body == Land(landed.g, landed.skips \cup (IF wild THEN {pads + count} ELSE {}))
      end == Jump(GenBody(body, arm.body), 0)
  IN [g |-> end, ends |-> done.ends \cup {Here(end) - 1}]
GenAlt(g, s) ==
  LET entries == Entries(s)
      count == Len(entries.list)
      wild == \E arm \in ToSet(s.arms) : \E i \in DOMAIN arm.guards : arm.guards[i].op = "any"
      table == g.next
      selection == table + 8 + 8 * count
      start == Temp(Block(PushLoop(g, FALSE), 8 + 8 * count), "w")
      set == FoldLeft(LAMBDA d, e: Entry(table, d, e), [g |-> start, entries |-> <<>>], entries.list)
      counts == Move(Move(set.g, "w", Imm(entries.nsend), Fp(table)), "w", Imm(count - entries.nsend), Fp(table + 4))
      alt == Emit(counts, IF wild THEN "nbalt" ELSE "alt", "w", Fp(table), Unused, Fp(selection))
      tested == FoldLeft(LAMBDA h, i: Branch(h, "beq", "w", Fp(selection), Imm(i)), alt,
                         [i \in 1 .. count + (IF wild THEN 1 ELSE 0) |-> i - 1])
      done == FoldLeftDomain(LAMBDA d, n: AltArm(Here(alt), count, set.entries, d, s.arms[n], n),
                             [g |-> Jump(tested, 0), ends |-> {Here(tested)}], s.arms)
      end == Land(done.g, done.ends)
  IN PopLoop(end, Here(end), Here(end))

\* A value is returned through the pointer at 16 of the frame.
GenReturn(g, e) ==
  LET tuple == TupleTypeOf(g, e)
      offs == Place(0, tuple.fields).offs
      Field(h, n) == Move(h, MoveOf(tuple.fields[n]), Fp(g.next + offs[n]), Through(16, offs[n]))
      k == KindOf(g, e)
  IN CASE e.op = "nothing" -> g
       [] e.op # "nothing" /\ tuple # NoType ->
            FoldLeftDomain(Field, GenTo(Block(g, SizeOf(tuple)), e, g.next), tuple.fields)
       [] OTHER -> Move(GenTo(Temp(g, k), e, g.next), MoveFor(ClassOf(g, e), k), Fp(g.next), Through(16, 0))
Stop(g, op) == Emit(g, op, "w", Unused, Unused, Unused)

GenStmt(g, s) ==
  CASE s.op \in {"nothing", "empty"} -> g
    [] s.op = "expr"     -> Discard(g, s.e)
    [] s.op = "vardecl"  -> GenVarDecl(g, s)
    [] s.op = "return"   -> Stop(GenReturn(g, s.e), "ret")
    [] s.op = "exit"     -> Stop(g, "exit")
    [] s.op = "block"    -> GenBody(g, s.body)
    [] s.op = "if"       -> GenIf(g, s)
    [] s.op = "while"    -> GenWhile(g, s)
    [] s.op = "for"      -> GenFor(g, s)
    [] s.op = "do"       -> GenDo(g, s)
    [] s.op = "case"     -> GenCase(g, s)
    [] s.op = "pick"     -> GenPick(g, s)
    [] s.op = "alt"      -> GenAlt(g, s)
    [] s.op = "label"    -> [GenStmt([g EXCEPT !.label = s.name], s.s) EXCEPT !.label = ""]
    [] s.op = "break"    -> GenBreak(g, s.label)
    [] s.op = "continue" -> GenContinue(g, s.label)
    [] s.op = "spawn"    -> GenSpawn(g, s)

-----------------------------------------------------------------------------
(* Functions, the data of the module, and the module that is written.          *)

\* A parameter, at the offset at which a caller stores the argument.
GenParam(g, off, param) ==
  LET at == AlignUp(off, AlignOf(param.type))
      named == Note(Bind(g, param.name, at, ValType(param.type), NumKind(param.type)),
                    "tuple", param.name, OnlyTuple(param.type))
  IN [g |-> NoteAll(named, param.name, Notes(param.type, [op |-> "nothing"])), off |-> at + SizeOf(param.type)]
\* Only the shapes of tuples are forgotten between functions.  init starts with the values of
\* the module's variables that are no constants.
GenFunc(g, func) ==
  LET empty == [g EXCEPT !.locals = <<>>, !.next = 40, !.frame = 80,
                         !.side = [x \in {y \in DOMAIN @ : y[1] # "tuple"} |-> @[x]]]
      params == FoldLeft(LAMBDA d, p: GenParam(d.g, d.off, p), [g |-> empty, off |-> 32], func.params)
      start == [params.g EXCEPT !.next = Max({params.off, 40})]
      set == IF func.name = "init"
             THEN FoldLeft(LAMBDA h, p: AssignVar(h, p.name, p.e, NoSlot), start, g.pending) ELSE start
      body == GenBody(set, func.body)
      done == IF body.code # <<>> /\ Last(body.code).op \in {"ret", "exit"} THEN body ELSE Stop(body, "ret")
      pointers == SelectSeq(done.locals, LAMBDA v: v.type # "Word" /\ v.k = "w")
  IN [done EXCEPT !.funcs[FuncOf(g, func.name)].pc = Here(g),
                  !.frames = Append(@, [size |-> done.frame,
                                        pointers |-> {v.slot.at : v \in ToSet(pointers)}])]

\* A variable of the module.  A constant is put into its data, another value is pending.
DeclareGlobal(g, decl, name) ==
  LET k == IF decl.type = NoType THEN KindOf(g, decl.init) ELSE NumKind(decl.type)
      class == IF decl.type = NoType THEN ClassOf(g, decl.init) ELSE DeclClass(decl.type)
      at == AllocMp(g, Bytes(k))
      declared == [g EXCEPT !.mp = at + Bytes(k),
                            !.globals = Append(@, [name |-> name, slot |-> Mp(at), type |-> class, k |-> k])]
      noted == NoteAll(declared, name, Notes(decl.type, decl.init))
  IN CASE decl.init.op = "nothing" -> noted
       [] decl.init.op = "int" -> [noted EXCEPT !.data = Append(@, [at |-> at, k |-> k, val |-> decl.init.val])]
       [] OTHER -> [noted EXCEPT !.pending = Append(@, [name |-> name, e |-> decl.init])]

DeclareGlobals(g, decl) ==
  FoldLeft(LAMBDA h, name: DeclareGlobal(h, decl, name), g, decl.names)

Funcs(file) == SelectSeq(file.decls, LAMBDA d: d.op = "func")
Globals(file) == SelectSeq(file.decls, LAMBDA d: d.op = "vardecl")
NewGenerator(funcs) ==
  [code |-> <<>>, next |-> 40, frame |-> 80, mp |-> 0, locals |-> <<>>, globals |-> <<>>, data |-> <<>>,
   pending |-> <<>>, side |-> <<>>, loops |-> <<>>, label |-> "", calls |-> {}, types |-> <<>>, frames |-> <<>>,
   funcs |-> [n \in DOMAIN funcs |-> [name |-> funcs[n].name, pc |-> -1, ret |-> funcs[n].ret]]]

\* Types 0 and 1 say that every word is a pointer.
Opaque == [size |-> 48, pointers |-> {4 * n : n \in 0 .. 11}]
\* The functions are known by name before the first is generated, and the calls of one that
\* had no code yet are filled in after the last.
Compile(file) ==
  LET globals == FoldLeft(DeclareGlobals, NewGenerator(Funcs(file)), Globals(file))
      done == InTurn(GenFunc, globals, Funcs(file))
      Called(pc) == {call[2] : call \in {c \in done.calls : c[1] = pc}}
      Fixed(pc) == IF Called(pc) = {} THEN done.code[pc + 1]
                   ELSE [done.code[pc + 1] EXCEPT !.dst = Imm(done.funcs[FuncOf(done, CHOOSE f \in Called(pc) : TRUE)].pc)]
      init == FuncOf(done, "init")
  IN [code |-> [n \in DOMAIN done.code |-> Fixed(n - 1)],
      types |-> <<Opaque, Opaque>> \o done.frames \o done.types,
      pc |-> done.funcs[init].pc, frame |-> 1 + init, data |-> done.data, size |-> done.mp]

=============================================================================
