---------------------------- MODULE LimboMeaning ----------------------------
(* What a Limbo program means, read off its syntax tree and with no code in    *)
(* between: the values that its module variables have when init returns.  A    *)
(* number knows whether it is an int ("w") or a big ("l"), a pointer ("p") is  *)
(* 0 or names an object, a tuple ("t") holds values.  It is the reference that *)
(* the compiled code is compared with; it covers the programs of one thread.   *)
EXTENDS Codegen

Num(k, v) == [k |-> k, v |-> Wrap(k, v)]
Pointer(id) == [k |-> "p", v |-> id]
Truth01(b) == Num("w", IF b THEN 1 ELSE 0)
RECURSIVE ZeroOf(_)
ZeroOf(type) == CASE type.kind \in {"int", "big"} -> Num(NumKind(type), 0)
                  [] type.kind = "tuple" -> [k |-> "t", v |-> [n \in DOMAIN type.fields |-> ZeroOf(type.fields[n])]]
                  [] OTHER -> Pointer(0)

\* s: the variables and the objects, the last value, and how control leaves a statement.
With(s, val) == [s EXCEPT !.val = val]
Object(s, object) == [s EXCEPT !.objects = Append(@, object), !.val = Pointer(Len(s.objects) + 1)]
At1(s) == s.objects[s.val.v]
Holds(s) == s.val.v # 0
SetVar(s, name, val) ==
  IF name \in DOMAIN s.locals THEN [s EXCEPT !.locals[name] = val]
  ELSE IF name \in DOMAIN s.globals THEN [s EXCEPT !.globals[name] = val]
  ELSE [s EXCEPT !.locals = (name :> val) @@ @]
Declares(s, name, val) == [s EXCEPT !.locals = (name :> val) @@ @]
Leave(s, how, label) == [s EXCEPT !.how = how, !.label = label]

RECURSIVE Eval(_, _), AssignTo(_, _, _), Run(_, _), Loop(_, _, _, _, _), Apply(_, _, _)
\* The values of several expressions, in order.
Each(s, es) ==
  FoldLeft(LAMBDA d, e: LET t == Eval(d.s, e) IN [s |-> t, vals |-> Append(d.vals, t.val)],
           [s |-> s, vals |-> <<>>], es)
Both(s, e) == Each(s, <<e.l, e.r>>)

Operate(fn, a, b) ==
  IF fn \in Comparisons THEN Truth01(Compares("b" \o fn, a.v, b.v))
  ELSE Num(a.k, Arith(fn, a.k, a.v, b.v))
Field(e) == TupleField[e.field]
Tuple(d) == With(d.s, [k |-> "t", v |-> d.vals])
Cells(d) == FoldRight(LAMBDA val, s: Object(s, [hd |-> val, tl |-> s.val]), d.vals, With(d.s, Pointer(0)))
\* An element has the value given for its index last, or else that of the wildcard.
Elems(s, e) ==
  LET Given(n) == e.elems[n].at \notin {Nothing, AnyP}
      Indices(n) == UNION {e.elems[n].at.by[i].lo.val .. (IF e.elems[n].at.by[i].hi.op = "nothing" THEN e.elems[n].at.by[i].lo.val
                                                       ELSE e.elems[n].at.by[i].hi.val) : i \in DOMAIN e.elems[n].at.by}
      lastOf[n \in 0 .. Len(e.elems)] ==
        IF n = 0 THEN -1 ELSE IF e.elems[n].at = AnyP THEN lastOf[n - 1]
        ELSE IF e.elems[n].at = Nothing THEN lastOf[n - 1] + 1 ELSE Max(Indices(n))
      At(n) == IF e.elems[n].at = Nothing THEN {lastOf[n]} ELSE IF Given(n) THEN Indices(n) ELSE {}
      all == DOMAIN e.elems
      wild == {n \in all : e.elems[n].at = AnyP}
      d == Each(s, [n \in all |-> e.elems[n].e])
      sized == IF e.size.op = "nothing" THEN With(d.s, Num("w", 1 + Max({-1} \cup UNION {At(n) : n \in all}))) ELSE Eval(d.s, e.size)
      Value(i) == LET here == {n \in all : i \in At(n)}
                  IN IF here # {} THEN d.vals[Max(here)] ELSE IF wild # {} THEN d.vals[Max(wild)] ELSE Num(d.vals[1].k, 0)
  IN Object(sized, [elems |-> [i \in 1 .. sized.val.v |-> Value(i - 1)]])
Record(s, e) ==
  LET d == Each(s, e.args)
      fields == FieldsOf(e.adt)
  IN Object(d.s, [adt |-> e.adt[1], tag |-> e.adt[2],
                  fields |-> [name \in {f[1] : f \in ToSet(fields)} |->
                                d.vals[SelectInSeq(fields, LAMBDA f: f[1] = name)]]])
Select(s, e) ==
  LET t == Eval(s, e.e)
  IN With(t, IF t.val.k = "t" THEN t.val.v[Field(e)] ELSE At1(t).fields[e.field])
\* x++ and x--
Step1(s, e) ==
  LET t == Eval(s, e.e)
  IN With(AssignTo(t, e.e, Operate(IF e.op = "inc" THEN "add" ELSE "sub", t.val, Num(t.val.k, 1))), t.val)
Unpacks(s, names, vals) ==
  FoldLeftDomain(LAMBDA t, n: IF names[n] = "nil" THEN t ELSE Declares(t, names[n], vals[n]), s, names)

Eval(s, e) ==
  LET d == Both(s, e)
      left == Eval(s, e.l)
      inner == Eval(s, e.e)
      indexed == Each(s, <<e.e, e.i>>)
      value == Eval(s, e.to)
  IN CASE e.op = "int" -> With(s, Num(IF e.val \in -WordMax - 1 .. WordMax THEN "w" ELSE "l", e.val))
       [] e.op = "nil" -> With(s, Pointer(0))
       [] e.op = "var" -> With(s, IF e.name \in DOMAIN s.locals THEN s.locals[e.name] ELSE s.globals[e.name])
       [] e.op = "bin" -> With(d.s, Operate(e.fn, d.vals[1], d.vals[2]))
       [] e.op = "and" -> IF Holds(left) THEN LET t == Eval(left, e.r) IN With(t, Truth01(Holds(t)))
                          ELSE With(left, Truth01(FALSE))
       [] e.op = "or"  -> IF Holds(left) THEN With(left, Truth01(TRUE))
                          ELSE LET t == Eval(left, e.r) IN With(t, Truth01(Holds(t)))
       [] e.op = "un"  -> With(inner, CASE e.fn = "neg" -> Num(inner.val.k, -inner.val.v)
                                        [] e.fn = "not" -> Truth01(~Holds(inner))
                                        [] e.fn = "inv" -> Num(inner.val.k, -inner.val.v - 1))
       [] e.op = "cast" -> With(inner, Num(NumKind(e.to), inner.val.v))
       [] e.op = "index" -> With(indexed.s, indexed.s.objects[indexed.vals[1].v].elems[indexed.vals[2].v + 1])
       [] e.op = "dot" -> Select(s, e)
       [] e.op = "tuple" -> Tuple(Each(s, e.elems))
       [] e.op = "hd" -> With(inner, At1(inner).hd)
       [] e.op = "tl" -> With(inner, At1(inner).tl)
       [] e.op = "cons" -> Object(d.s, [hd |-> d.vals[1], tl |-> d.vals[2]])
       [] e.op = "list" -> Cells(Each(s, e.elems))
       [] e.op = "len" -> With(inner, Num("w", Len(At1(inner).elems)))
       [] e.op = "ref" -> Record(s, e)
       [] e.op = "array" -> Elems(s, e)
       [] e.op = "arralloc" -> Object(inner, [elems |-> [n \in 1 .. inner.val.v |-> ZeroOf(e.elem)]])
       [] e.op = "tagof" -> With(inner, Num("w", SelectInSeq(Tags(At1(inner).adt), LAMBDA tag: tag = At1(inner).tag) - 1))
       [] e.op = "call" -> Apply(s, e.name, Each(s, e.args))
       [] e.op \in {"inc", "dec"} -> Step1(s, e)
       [] e.op = "set" -> AssignTo(inner, e.to, inner.val)
       [] e.op = "opset" -> LET t == Eval(value, e.e) IN AssignTo(t, e.to, Operate(e.fn, value.val, t.val))
       [] e.op = "decl" -> Declares(inner, e.name, inner.val)
       [] e.op = "tupledecl" -> Unpacks(inner, e.names, inner.val.v)

AssignTo(s, to, val) ==
  LET d == Each(s, <<to.e, to.i>>)
      owner == Eval(s, to.e)
  IN CASE to.op = "nil" -> s
       [] to.op = "var" -> SetVar(s, to.name, val)
       [] to.op = "tuple" -> FoldLeftDomain(LAMBDA t, n: AssignTo(t, to.elems[n], val.v[n]), s, to.elems)
       [] to.op = "index" -> With([d.s EXCEPT !.objects[d.vals[1].v].elems[d.vals[2].v + 1] = val], val)
       [] to.op = "dot" /\ owner.val.k = "t" ->
            AssignTo(s, to.e, [owner.val EXCEPT !.v[Field(to)] = val])
       [] to.op = "dot" /\ owner.val.k = "p" ->
            With([owner EXCEPT !.objects[owner.val.v].fields[to.field] = val], val)

\* A call runs with variables of its own; the value it leaves is what it returned.
Apply(s, name, d) ==
  LET func == s.funcs[SelectInSeq(s.funcs, LAMBDA f: f.name = name)]
      entered == [d.s EXCEPT !.locals = [p \in {q.name : q \in ToSet(func.params)} |->
                                           d.vals[SelectInSeq(func.params, LAMBDA q: q.name = p)]],
                             !.val = ZeroOf(func.ret)]
      left == FoldLeft(Run, entered, func.body)
  IN Leave([left EXCEPT !.locals = s.locals], "no", "")

\* Whether a construct that is labelled mine ends a break or continue.
Ends(s, how, mine) == s.how = how /\ s.label \in {"", mine}
Loop(s, mine, cond, post, body) ==
  LET test == Eval(s, cond)
      ran == Run(test, body)
      more == IF Ends(ran, "continue", mine) THEN Leave(ran, "no", "") ELSE ran
  IN CASE cond.op # "nothing" /\ ~Holds(test) -> test
       [] cond.op = "nothing" /\ FALSE -> s
       [] Ends(ran, "break", mine) -> Leave(ran, "no", "")
       [] more.how # "no" -> more
       [] OTHER -> Loop(Run(more, post), mine, cond, post, body)
One == [op |-> "int", val |-> 1]
Body(s, body) == FoldLeft(Run, s, body)
Matches(s, val, p) ==
  CASE p.op = "is" -> Eval(s, p.e).val.v = val
    [] p.op = "range" -> val >= Eval(s, p.lo).val.v /\ val <= Eval(s, p.hi).val.v
    [] p.op = "any" -> TRUE
Left(s, mine) == IF Ends(s, "break", mine) THEN Leave(s, "no", "") ELSE s
CaseOf(s, c, mine) ==
  LET t == Eval(s, c.e)
      n == SelectInSeq(c.arms, LAMBDA arm: \E p \in ToSet(arm.pats) : Matches(t, t.val.v, p))
  IN IF n = 0 THEN t ELSE Left(Body(t, c.arms[n].body), mine)
PickOf(s, c, mine) ==
  LET t == Eval(s, c.e)
      n == SelectInSeq(c.arms, LAMBDA arm: {At1(t).tag, "*"} \cap ToSet(arm.tags) # {})
  IN IF n = 0 THEN t ELSE Left(Body(Declares(t, c.name, t.val), c.arms[n].body), mine)
Labelled(s, c, mine) ==
  LET first == Run(s, c.body)
      again == IF Ends(first, "continue", mine) THEN Leave(first, "no", "") ELSE first
  IN CASE c.op = "while" -> Loop(s, mine, c.cond, Nothing, c.body)
       [] c.op = "for" -> Loop(Run(s, c.init), mine, IF c.cond.op = "nothing" THEN One ELSE c.cond, c.post, c.body)
       [] c.op = "do" -> IF Ends(first, "break", mine) THEN Leave(first, "no", "")
                         ELSE IF again.how # "no" THEN again ELSE Loop(again, mine, c.cond, Nothing, c.body)
       [] c.op = "case" -> CaseOf(s, c, mine)
       [] c.op = "pick" -> PickOf(s, c, mine)
       [] OTHER -> Run(s, c)
Run(s, c) ==
  LET test == Eval(s, c.cond)
      named == FoldLeft(LAMBDA t, name: Declares(t, name, ZeroOf(c.type)), s, c.names)
      init == Eval(named, c.init)
  IN CASE s.how # "no" -> s
       [] c.op \in {"nothing", "empty"} -> s
       [] c.op = "expr" -> Eval(s, c.e)
       [] c.op = "vardecl" -> IF c.init.op = "nothing" THEN named ELSE Declares(init, c.names[1], init.val)
       [] c.op = "return" -> Leave(IF c.e.op = "nothing" THEN s ELSE Eval(s, c.e), "return", "")
       [] c.op = "exit" -> Leave(s, "exit", "")
       [] c.op = "block" -> Body(s, c.body)
       [] c.op = "if" -> Run(test, IF Holds(test) THEN c.then ELSE c.else)
       [] c.op = "label" -> Labelled(s, c.s, c.name)
       [] c.op \in {"break", "continue"} -> Leave(s, c.op, c.label)
       [] OTHER -> Labelled(s, c, "-")

\* The module variables at the end.
Variables(file) == FlattenSeq([n \in DOMAIN Globals(file) |->
                      [i \in DOMAIN Globals(file)[n].names |-> <<Globals(file)[n].names[i], Globals(file)[n]>>]])
Start(file) ==
  [locals |-> <<>>, objects |-> <<>>, funcs |-> Funcs(file), val |-> Pointer(0), how |-> "no", label |-> "",
   globals |-> [name \in {v[1] : v \in ToSet(Variables(file))} |->
                  LET type == SelectSeq(Variables(file), LAMBDA v: v[1] = name)[1][2].type
                  IN IF type = NoType THEN Pointer(0) ELSE ZeroOf(type)]]
Meaning(file) ==
  LET set == FoldLeft(LAMBDA s, v: IF v[2].init.op = "nothing" THEN s
                                   ELSE LET t == Eval(s, v[2].init) IN SetVar(t, v[1], t.val),
                      Start(file), Variables(file))
  IN Apply(set, "init", [s |-> set, vals |-> <<>>]).globals

=============================================================================
