----------------------------- MODULE DisMachine -----------------------------
(* The instructions that the Limbo compiler emits, as the interpreter of       *)
(* ricevm-execute runs them: operands address the current frame, the data of   *)
(* the module, or through a word what that word names; frames are laid out one *)
(* after the other on a stack; objects carry a count of references.  Memory is *)
(* made of words and a big is two of them.  No instruction makes a string, so  *)
(* every operation on strings sees what is no string.                          *)
EXTENDS Dis

CONSTANTS
  Images,      \* the compiled modules that may be run, a sequence
  MaxThreads   \* the most threads that one of them makes

VARIABLES
  program,   \* the index of the module that runs
  threads,   \* its threads: pc, base of the current frame, stack, mp, and what it waits for
  heap,      \* the objects ever made, by the order of their ids
  status     \* "running", or "fault" once a thread has failed
vars == <<program, threads, heap, status>>

-----------------------------------------------------------------------------
(* Words: a number, an offset into the stack, the id of an object or the       *)
(* reference to an element of one; the ids and references lie above the rest.  *)

IdBase == 10000
RefBase == 1000000
IsRef(w) == w >= RefBase
IsId(w) == w \in IdBase .. RefBase - 1
RefTo(w, off) == RefBase + 1000 * (w - IdBase) + off

Get(words, at) == IF at >= 0 /\ at \div 4 < Len(words) THEN words[at \div 4 + 1] ELSE 0
Put(words, at, w) == IF at >= 0 /\ at \div 4 < Len(words) THEN [words EXCEPT ![at \div 4 + 1] = w] ELSE words
Zeros(bytes) == [n \in 1 .. bytes \div 4 |-> 0]

\* The state an instruction works on: its thread, the objects, and whether it failed.
Header == 16
Address(m, o) ==
  LET at == m.t.base + Header + o.at
      w == Get(m.t.stack, at)
  IN CASE o.mode = "fp" -> [in |-> "stack", id |-> 0, at |-> at]
       [] o.mode \in {"mp", "imm", "none"} -> [in |-> o.mode, id |-> 0, at |-> o.at]
       [] o.mode = "ind" /\ w = 0    -> [in |-> "none", id |-> 0, at |-> 0]
       [] o.mode = "ind" /\ IsRef(w) -> [in |-> "heap", id |-> (w - RefBase) \div 1000, at |-> (w % 1000) + o.off]
       [] o.mode = "ind" /\ IsId(w)  -> [in |-> "heap", id |-> w - IdBase, at |-> o.off]
       [] OTHER                      -> [in |-> "stack", id |-> 0, at |-> w + o.off]

\* What is read of an object that is gone is 0, and what is written to it is lost.
Read(m, a) ==
  CASE a.in = "stack" -> Get(m.t.stack, a.at)
    [] a.in = "mp"    -> Get(m.t.mp, a.at)
    [] a.in = "heap"  -> Get(m.h[a.id].words, a.at)
    [] a.in = "imm"   -> a.at
    [] a.in = "none"  -> 0
Write(m, a, w) ==
  CASE a.in = "stack" -> [m EXCEPT !.t.stack = Put(@, a.at, w)]
    [] a.in = "mp"    -> [m EXCEPT !.t.mp = Put(@, a.at, w)]
    [] a.in = "heap"  -> [m EXCEPT !.h[a.id].words = Put(@, a.at, w)]
    [] a.in = "none"  -> m
After(a) == [a EXCEPT !.at = @ + 4]
ReadK(m, k, a) ==
  IF k = "w" \/ a.in = "imm" THEN Read(m, a)
  ELSE Read(m, After(a)) * Span("w") + Unsigned("w", Read(m, a))
WriteK(m, k, a, v) ==
  IF k = "w" THEN Write(m, a, v)
  ELSE Write(Write(m, a, Wrap("w", v)), After(a), v \div Span("w"))
ReadWords(m, a, n) == [i \in 1 .. n |-> Read(m, [a EXCEPT !.at = @ + 4 * (i - 1)])]
WriteWords(m, a, words) ==
  FoldLeftDomain(LAMBDA n, i: Write(n, [a EXCEPT !.at = @ + 4 * (i - 1)], words[i]), m, words)

\* An object goes when its last counted reference does; of what it refers to only the tail of a
\* list is counted.
Gone == [kind |-> "gone", words |-> <<>>]
Live(h, w) == IsId(w) /\ h[w - IdBase].kind # "gone"
Retain(h, w) == IF Live(h, w) THEN [h EXCEPT ![w - IdBase].count = @ + 1] ELSE h
RECURSIVE Release(_, _)
Release(h, w) ==
  LET object == h[w - IdBase]
      freed == [h EXCEPT ![w - IdBase] = Gone]
  IN CASE ~Live(h, w) -> h
       [] Live(h, w) /\ object.count > 1 -> [h EXCEPT ![w - IdBase].count = @ - 1]
       [] Live(h, w) /\ object.count = 1 /\ object.kind = "list" -> Release(freed, object.tail)
       [] OTHER -> freed
\* A pointer is moved: the new one is counted, then the old one dropped.
MovePtr(m, a, w) ==
  [Write([m EXCEPT !.h = Retain(@, w)], a, w) EXCEPT !.h = Release(@, Read(m, a))]
\* A new object has a count of its own before its reference is moved.
Make(m, a, object) ==
  MovePtr([m EXCEPT !.h = Append(@, object @@ [count |-> 1])], a, IdBase + Len(m.h) + 1)
Fault(m) == [m EXCEPT !.fault = TRUE]

-----------------------------------------------------------------------------
(* The instructions.                                                           *)

Src(m, i) == Address(m, i.src)
Mid(m, i) == Address(m, i.mid)
Dst(m, i) == Address(m, i.dst)
MidOrDst(m, i) == IF i.mid.mode = "none" THEN Dst(m, i) ELSE Mid(m, i)

Ready(p) == status = "running" /\ threads[p].runs /\ threads[p].waits = <<>>
Runs(p, ops) ==
  /\ Ready(p)
  /\ Images[program].code[threads[p].pc + 1].op \in ops
At(p) == Images[program].code[threads[p].pc + 1]
Own(p) == [t |-> [threads[p] EXCEPT !.pc = @ + 1], h |-> heap, fault |-> FALSE]
\* An exception that nothing handles ends the program.
Becomes(p, m) ==
  /\ threads' = [threads EXCEPT ![p] = m.t]
  /\ heap' = m.h
  /\ status' = IF m.fault THEN "fault" ELSE status
  /\ UNCHANGED program

Mov(p) ==
  /\ Runs(p, {"mov"})
  /\ LET m == Own(p)
         i == At(p)
     IN Becomes(p, IF i.k = "p" THEN MovePtr(m, Dst(m, i), Read(m, Src(m, i)))
                   ELSE WriteK(m, i.k, Dst(m, i), ReadK(m, i.k, Src(m, i))))

Lea(p) ==
  /\ Runs(p, {"lea"})
  /\ Becomes(p, Write(Own(p), Dst(Own(p), At(p)), Src(Own(p), At(p)).at))

Compute(p) ==
  /\ Runs(p, {"add", "sub", "mul", "div", "mod", "shl", "shr", "and", "or", "xor"})
  /\ LET m == Own(p)
         i == At(p)
         s == ReadK(m, IF i.op \in {"shl", "shr"} THEN "w" ELSE i.k, Src(m, i))
     IN Becomes(p, CASE i.k = "c" -> MovePtr(m, Dst(m, i), 0)
                     [] i.k # "c" /\ i.op \in {"div", "mod"} /\ s = 0 -> Fault(m)
                     [] OTHER -> WriteK(m, i.k, Dst(m, i), Arith(i.op, i.k, ReadK(m, i.k, MidOrDst(m, i)), s)))

Convert(p) ==
  /\ Runs(p, {"cvt"})
  /\ LET m == Own(p)
         i == At(p)
     IN Becomes(p, IF i.k = "wl" THEN WriteK(m, "l", Dst(m, i), Read(m, Src(m, i)))
                   ELSE Write(m, Dst(m, i), Wrap("w", ReadK(m, "l", Src(m, i)))))

\* What is compared as strings and is none is equal.
Jumps(m, i) ==
  \/ i.op = "jmp"
  \/ i.k = "c" /\ i.op = "beq"
  \/ i.op # "jmp" /\ i.k # "c" /\ Compares(i.op, ReadK(m, i.k, Src(m, i)), ReadK(m, i.k, Mid(m, i)))
BranchTo(p) ==
  /\ Runs(p, {"jmp", "beq", "bne", "blt", "bgt", "ble", "bge"})
  /\ Becomes(p, IF Jumps(Own(p), At(p)) THEN [Own(p) EXCEPT !.t.pc = At(p).dst.at] ELSE Own(p))

\* The mid operand gets a reference to the element; the strings of indc and insc are none.
Index(p) ==
  /\ Runs(p, {"ind", "ins"})
  /\ LET m == Own(p)
         i == At(p)
         array == Read(m, Src(m, i))
         n == Read(m, Dst(m, i))
     IN Becomes(p, IF i.k # "c" /\ Live(m.h, array) /\ n \in 0 .. m.h[array - IdBase].length - 1
                   THEN Write(m, Mid(m, i), RefTo(array, n * m.h[array - IdBase].size))
                   ELSE Fault(m))

TypeAt(n) == Images[program].types[n + 1]
Allocate(p) ==
  /\ Runs(p, {"new", "newa", "newc"})
  /\ LET m == Own(p)
         i == At(p)
         type == TypeAt(Read(m, IF i.op = "newa" THEN Mid(m, i) ELSE Src(m, i)))
         length == Read(m, Src(m, i))
         object ==
           CASE i.op = "new"  -> [kind |-> "record", words |-> Zeros(type.size), pointers |-> type.pointers]
             [] i.op = "newa" -> [kind |-> "array", words |-> Zeros(length * type.size), length |-> length,
                                  size |-> type.size, pointers |-> type.pointers]
             [] i.op = "newc" -> [kind |-> "chan", words |-> <<>>,
                                  size |-> IF i.k = "m" THEN type.size ELSE Bytes(i.k)]
     IN Becomes(p, IF i.op = "newa" /\ length < 0 THEN Fault(m) ELSE Make(m, Dst(m, i), object))

\* The head and the tail of a list are counted; nil has neither.
Lists(p) ==
  /\ Runs(p, {"cons", "head", "tail", "len"})
  /\ LET m == Own(p)
         i == At(p)
         w == Read(m, Src(m, i))
         object == m.h[w - IdBase]
         tail == Read(m, Dst(m, i))
         list == [kind |-> "list", words |-> <<w>>, tail |-> tail, count |-> 1]
         consed == [m EXCEPT !.h = Append(Retain(Retain(@, w), tail), list)]
     IN Becomes(p, CASE i.op = "cons" ->
                           [Write(consed, Dst(m, i), IdBase + Len(m.h) + 1) EXCEPT !.h = Release(@, tail)]
                     [] i.op \in {"head", "tail"} /\ w = 0 -> MovePtr(m, Dst(m, i), 0)
                     [] i.op \in {"head", "tail"} /\ w # 0 /\ ~(Live(m.h, w) /\ object.kind = "list") -> Fault(m)
                     [] i.op = "head" /\ Live(m.h, w) -> MovePtr(m, Dst(m, i), object.words[1])
                     [] i.op = "tail" /\ Live(m.h, w) -> MovePtr(m, Dst(m, i), object.tail)
                     [] i.op = "len" -> Write(m, Dst(m, i), IF i.k = "a" /\ Live(m.h, w) /\ object.kind = "array" THEN object.length ELSE 0))

-----------------------------------------------------------------------------
(* Frames.  A frame follows what is on the stack; its header holds where its   *)
(* caller continues, the caller's base and the type of the frame.              *)

NewFrames(p) ==
  /\ Runs(p, {"frame"})
  /\ LET m == Own(p)
         i == At(p)
         top == 4 * Len(m.t.stack)
         type == Read(m, Src(m, i))
         grown == [m EXCEPT !.t.stack = Put(@ \o Zeros(Header + TypeAt(type).size), top + 8, type)]
     IN Becomes(p, Write(grown, Dst(m, i), top + Header))

Activated(t, base, pc) == [t EXCEPT !.stack = Put(Put(@, base, pc), base + 4, t.base), !.base = base]
Call(p) ==
  /\ Runs(p, {"call"})
  /\ LET m == Own(p)
         base == Read(m, Src(m, At(p))) - Header
     IN Becomes(p, [m EXCEPT !.t = [Activated(m.t, base, m.t.pc) EXCEPT !.pc = At(p).dst.at]])

\* Nothing is released with a frame.
Ret(p) ==
  /\ Runs(p, {"ret"})
  /\ LET m == Own(p)
         pc == Get(m.t.stack, m.t.base)
         popped == [m.t EXCEPT !.stack = SubSeq(@, 1, m.t.base \div 4), !.base = Get(m.t.stack, m.t.base + 4)]
     IN Becomes(p, [m EXCEPT !.t = IF pc < 0 THEN [popped EXCEPT !.runs = FALSE] ELSE [popped EXCEPT !.pc = pc]])

Exit(p) ==
  /\ Runs(p, {"exit"})
  /\ Becomes(p, [Own(p) EXCEPT !.t.runs = FALSE])

\* The thread that is made takes the frame and a copy of the data, whose ids are counted.
Spawn(p) ==
  /\ Runs(p, {"spawn"})
  /\ LET m == Own(p)
         base == Read(m, Src(m, At(p))) - Header
         activated == Activated(m.t, base, -1)
         child == [m.t EXCEPT !.stack = SubSeq(activated.stack, base \div 4 + 1, Len(@)), !.base = 0,
                              !.pc = At(p).dst.at]
     IN /\ threads' = Append([threads EXCEPT ![p] = [m.t EXCEPT !.stack = SubSeq(@, 1, base \div 4)]], child)
        /\ heap' = FoldLeft(Retain, m.h, m.t.mp)
  /\ UNCHANGED <<program, status>>

-----------------------------------------------------------------------------
(* Channels hold one message.                                                  *)

IsChan(h, w) == Live(h, w) /\ h[w - IdBase].kind = "chan"
Full(h, w) == h[w - IdBase].words # <<>>
\* A thread that waits executes its instruction again when the channel, or for an alt any
\* channel, has been used.
Waits(p, w) ==
  /\ threads' = [threads EXCEPT ![p].waits = <<w>>]
  /\ UNCHANGED <<program, heap, status>>
Used(p, w, m) ==
  /\ threads' = [q \in DOMAIN threads |->
                   IF q = p THEN m.t
                   ELSE [threads[q] EXCEPT !.waits = IF @ \in {<<w>>, <<0>>} THEN <<>> ELSE @]]
  /\ heap' = m.h
  /\ UNCHANGED <<program, status>>
Deliver(m, w, a) == [m EXCEPT !.h[w - IdBase].words = ReadWords(m, a, m.h[w - IdBase].size \div 4)]
Take(m, w, a) == WriteWords([m EXCEPT !.h[w - IdBase].words = <<>>], a, m.h[w - IdBase].words)

Send(p) ==
  /\ Runs(p, {"send"})
  /\ LET m == Own(p)
         chan == Read(m, Dst(m, At(p)))
     IN CASE ~IsChan(heap, chan) -> Becomes(p, Fault(m))
          [] IsChan(heap, chan) /\ Full(heap, chan) -> Waits(p, chan)
          [] OTHER -> Used(p, chan, Deliver(m, chan, Src(m, At(p))))
Recv(p) ==
  /\ Runs(p, {"recv"})
  /\ LET m == Own(p)
         chan == Read(m, Src(m, At(p)))
     IN CASE ~IsChan(heap, chan) -> Becomes(p, Fault(m))
          [] IsChan(heap, chan) /\ ~Full(heap, chan) -> Waits(p, chan)
          [] OTHER -> Used(p, chan, Take(m, chan, Dst(m, At(p))))

\* The first entry of the table whose channel is ready is performed.
Alt(p) ==
  /\ Runs(p, {"alt", "nbalt"})
  /\ LET m == Own(p)
         i == At(p)
         table == Src(m, i).at
         Table(off) == Get(m.t.stack, table + off)
         nsend == Table(0)
         count == nsend + Table(4)
         chan(n) == Table(8 + 8 * n)
         slot(n) == [in |-> "stack", id |-> 0, at |-> Table(12 + 8 * n)]
         ready == {n \in 0 .. count - 1 : (n < nsend) = ~Full(heap, chan(n))}
         n == Min(ready)
         done == IF n < nsend THEN Deliver(m, chan(n), slot(n)) ELSE Take(m, chan(n), slot(n))
         bad == \/ \E j \in 0 .. count - 1 : ~IsChan(heap, chan(j))
                \/ \E j \in 0 .. nsend - 1, l \in nsend .. count - 1 : chan(j) = chan(l)
     IN CASE bad -> Becomes(p, Fault(m))
          [] ~bad /\ ready # {} -> Used(p, chan(n), Write(done, Dst(m, i), n))
          [] ~bad /\ ready = {} /\ i.op = "nbalt" -> Becomes(p, Write(m, Dst(m, i), count))
          [] OTHER -> Waits(p, 0)

-----------------------------------------------------------------------------
\* The data of the module holds the constants; the first frame returns to nowhere.
Loaded(image) ==
  LET zeros == [t |-> [mp |-> Zeros(AlignUp(image.size, 4))], h |-> <<>>]
      Item(m, item) == WriteK(m, item.k, [in |-> "mp", id |-> 0, at |-> item.at], item.val)
  IN FoldLeft(Item, zeros, image.data).t.mp
Init ==
  /\ program \in DOMAIN Images
  /\ LET image == Images[program]
     IN threads = <<[pc |-> image.pc, base |-> 0, mp |-> Loaded(image), runs |-> TRUE, waits |-> <<>>,
                     stack |-> <<-1>> \o Zeros(Header - 4 + image.types[image.frame + 1].size)]>>
  /\ heap = <<>>
  /\ status = "running"

Step(p) ==
  \/ Mov(p) \/ Lea(p) \/ Compute(p) \/ Convert(p) \/ BranchTo(p) \/ Index(p) \/ Allocate(p) \/ Lists(p)
  \/ NewFrames(p) \/ Call(p) \/ Ret(p) \/ Exit(p) \/ Spawn(p)
  \/ Send(p) \/ Recv(p) \/ Alt(p)
Next == \E p \in DOMAIN threads : Step(p)
\* Weak fairness of every thread, said with Ready for the enabledness of its step: the queue of
\* the interpreter comes round to every thread that does not wait.
Fairness ==
  \A p \in 1 .. MaxThreads :
    \/ []<>~(p \in DOMAIN threads /\ Ready(p))
    \/ []<><<p \in DOMAIN threads /\ threads'[p] # threads[p]>>_vars
Spec == Init /\ [][Next]_vars /\ Fairness

=============================================================================
