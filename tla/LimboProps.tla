----------------------------- MODULE LimboProps -----------------------------
(* Compiled Limbo programs, run: what the code generator, the descriptors it   *)
(* writes and the interpreter promise together.                                *)
EXTENDS LimboMeaning, DisMachine

CONSTANTS
  Programs,   \* the files that Images were compiled from; one of more threads says in may which
              \* values it may leave in the variables of its module
  Outcomes    \* for each, its variables and what it may leave in them

\* SubSeq makes TLC work each of them out once.
All(Op(_)) == SubSeq([n \in DOMAIN Programs |-> Op(Programs[n])], 1, Len(Programs))
Compiled == All(Compile)
Declared(file) == ToSet(FoldLeft(DeclareGlobals, NewGenerator(Funcs(file)), Globals(file)).globals)
Meant == All(LAMBDA file: [numbers |-> {v \in Declared(file) : v.type = "Word"},
                           may |-> IF "may" \in DOMAIN file THEN file.may ELSE {Meaning(file)}])
ASSUME ImagesAreCompiled == Images = Compiled
ASSUME OutcomesAreMeant == Outcomes = Meant

-----------------------------------------------------------------------------
(* What a program leaves.                                                      *)

\* The data of the main thread when init has returned.
LeftIn(v) == ReadK([t |-> threads[1], h |-> heap], v.k, [in |-> "mp", id |-> 0, at |-> v.slot.at])
\* A compiled program never fails, and when init has returned the numbers in its variables are
\* what the program means: codegen.rs keeps what it has in a slot apart from what it needs
\* there next, sends every jump to where the source says, gives caller and callee one layout
\* of the parameters, and takes the width and class of every value from the right type.
OutcomeIsMeaning ==
  (status = "fault" \/ ~threads[1].runs) =>
    /\ status # "fault"
    /\ \E globals \in Outcomes[program].may :
         \A v \in Outcomes[program].numbers : LeftIn(v) = globals[v.name].v

\* Every thread of these programs comes to its end: no loop of the source becomes endless, and
\* a thread that an alt or a full channel put to wait is taken up again (ops/concurrency.rs).
EveryProgramEnds == <>(\A p \in DOMAIN threads : ~threads[p].runs)

-----------------------------------------------------------------------------
(* What is in the frames and in the objects on the way there.                  *)

\* The frames on the stack of a thread, those that are still being filled included.  The frame
\* of init has no type in its header.
RECURSIVE FramesFrom(_, _, _)
FramesFrom(stack, base, type) ==
  LET next == base + Header + TypeAt(type).size
  IN {[base |-> base + Header, size |-> TypeAt(type).size, pointers |-> TypeAt(type).pointers]}
     \cup IF next >= 4 * Len(stack) THEN {} ELSE FramesFrom(stack, next, Get(stack, next + 8))
Frames(p) ==
  LET stack == threads[p].stack
  IN IF stack = <<>> THEN {}
     ELSE FramesFrom(stack, 0, IF p = 1 THEN Images[program].frame ELSE Get(stack, 8))
InFrame(f, at, width) == at >= f.base /\ at + width <= f.base + f.size

\* Where the instruction puts its result, and how wide that is.
WidthOf(m, i) ==
  CASE i.op \in {"ind", "lea", "new", "newa", "newc", "cons", "head", "tail", "len", "frame", "alt", "nbalt"} -> 4
    [] i.op = "cvt" -> IF i.k = "wl" THEN 8 ELSE 4
    [] i.op = "recv" -> IF IsChan(heap, Read(m, Src(m, i))) THEN heap[Read(m, Src(m, i)) - IdBase].size ELSE 0
    [] OTHER -> Bytes(i.k)
Results == {"mov", "lea", "add", "sub", "mul", "div", "mod", "shl", "shr", "and", "or", "xor", "cvt", "ind",
            "new", "newa", "newc", "cons", "head", "tail", "len", "frame", "recv", "alt", "nbalt"}
ResultOf(m, i) == IF i.op = "ind" THEN Mid(m, i) ELSE Dst(m, i)
\* What an instruction writes into the stack lies inside one frame, and inside the current one
\* where its operand is a slot: the frame the descriptor asks for (grow_frame, gen_func) has
\* room for every slot, for the parameters the caller stores before the call, and for the
\* result the callee stores through the pointer at 16 when it returns.
WritesStayInFrames ==
  \A p \in DOMAIN threads :
    Runs(p, Results) =>
      LET m == Own(p)
          i == At(p)
          a == ResultOf(m, i)
          operand == IF i.op = "ind" THEN i.mid ELSE i.dst
      IN a.in = "stack" =>
           \E f \in Frames(p) : /\ InFrame(f, a.at, WidthOf(m, i))
                                  /\ operand.mode = "fp" => f.base = m.t.base + Header

Offset(n) == 4 * (n - 1)
Marked(object, n) ==
  CASE object.kind = "record" -> Offset(n) \in object.pointers
    [] object.kind = "array"  -> Offset(n) % object.size \in object.pointers
    [] OTHER                  -> TRUE
Typed == {n \in DOMAIN heap : heap[n].kind \in {"record", "array"}}
\* An id is only ever kept where the descriptor of the object says that there is a pointer, so
\* a collector that follows the descriptors (gc.rs) misses nothing that a record or an array
\* still leads to: ADT variants, fields of two words and elements are laid out as they are marked.
DescriptorsCoverPointers ==
  \A n \in Typed : \A i \in DOMAIN heap[n].words : IsId(heap[n].words[i]) => Marked(heap[n], i)

MarkedInFrames(p) == UNION {{Get(threads[p].stack, f.base + at) : at \in f.pointers} : f \in Frames(p)}
\* What a marked slot of a frame, the tail of a list or a marked word of an object that lives
\* names is not freed while it is there: the compiler moves it with the instruction that counts
\* references wherever it stores or replaces it.
MarkedWordsAreAlive ==
  /\ \A p \in DOMAIN threads : \A w \in MarkedInFrames(p) : IsId(w) => Live(heap, w)
  /\ \A n \in DOMAIN heap : heap[n].kind = "list" /\ IsId(heap[n].tail) => Live(heap, heap[n].tail)
  /\ \A n \in Typed : \A i \in DOMAIN heap[n].words :
       Marked(heap[n], i) /\ IsId(heap[n].words[i]) => Live(heap, heap[n].words[i])
=============================================================================
