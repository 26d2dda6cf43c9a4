-------------------------------- MODULE Heap --------------------------------
(***************************************************************************)
(* The guest heap: objects with reference counts (heap.rs), the opcodes    *)
(* that copy heap ids between frames, module data and objects              *)
(* (ops/pointer.rs, list.rs, string.rs, heap.rs, data_move.rs,             *)
(* concurrency.rs) and the mark-and-sweep collector (gc.rs).               *)
(*                                                                         *)
(* What the module is about is who holds an id and whether the holder was  *)
(* counted.  A holder is a word of a thread's frame or module data, or a   *)
(* word of an object: its "word" (a record field, an array element, the    *)
(* head of a list node, the payload of a channel) or its "link" (the tail  *)
(* of a list node, the parent of a slice).  One word stands for all fields *)
(* of an object.  Ids are never reused by the code; here an id may come    *)
(* back once nothing at all names it.                                      *)
(***************************************************************************)
EXTENDS Naturals, FiniteSets, Functions

CONSTANTS
  Id,         \* heap ids
  NIL,        \* heap id 0
  Thread,     \* guest threads
  Var,        \* the pointer words of a thread's frames
  Global,     \* the pointer words of a thread's module data (VmState::mp)
  Caller,     \* those of the module data on its caller_mp_stack
  Text,       \* contents of strings
  Program,    \* the opcodes the guest uses
  Made,       \* the kinds of the objects it allocates
  MaxCount,   \* bound on the sum of the reference counts
  MaxRefs     \* bound on the entries of all heap_refs

ASSUME HeapConstants ==
  /\ IsFiniteSet(Id) /\ IsFiniteSet(Thread)
  /\ IsFiniteSet(Var) /\ IsFiniteSet(Global) /\ IsFiniteSet(Caller)
  /\ NIL \notin Id
  /\ {"word", "link"} \cap Thread = {}
  /\ Text # {} /\ Made \subseteq {"record", "array", "channel", "module"}
  /\ MaxCount \in Nat \ {0} /\ MaxRefs \in Nat

VARIABLES
  heap,     \* Heap: kind, count, text of every object; ptr of every holder
  cur,      \* the thread installed in VmState
  alive,    \* the guest threads
  refs      \* VmState::heap_refs of each thread: the objects that indx and lea named

vars == <<heap, cur, alive, refs>>

Place == Thread \X (Var \cup Global \cup Caller)
Field == {"word", "link"} \X Id
Holder == Place \cup Field

Kind == {"record", "array", "string", "list", "slice", "channel", "module"}

Blank == CHOOSE t \in Text : TRUE

\* Types, and nothing is left of an object that is gone.
TypeOK ==
  /\ heap \in [kind : [Id -> Kind \cup {"none"}], count : [Id -> Nat],
               ptr : [Holder -> Id \cup {NIL}], text : [Id -> Text]]
  /\ \A id \in Id : heap.kind[id] = "none" =>
       heap.count[id] = 0 /\ heap.ptr[<<"word", id>>] = NIL /\ heap.ptr[<<"link", id>>] = NIL
  /\ cur \in alive /\ alive \subseteq Thread
  /\ refs \in [Thread -> SUBSET Id]

Init ==
  /\ heap = [kind |-> [id \in Id |-> "none"], count |-> [id \in Id |-> 0],
             ptr |-> [x \in Holder |-> NIL], text |-> [id \in Id |-> Blank]]
  /\ cur \in Thread /\ alive = {cur}
  /\ refs = [t \in Thread |-> {}]

-----------------------------------------------------------------------------
(* heap.rs, on a heap h. *)

Live(h) == {id \in Id : h.kind[id] # "none"}

\* get: what id names; nothing for nil.
KindOf(h, id) == IF id \in Id THEN h.kind[id] ELSE "nil"
WordOf(h, id) == IF id \in Id THEN h.ptr[<<"word", id>>] ELSE NIL
LinkOf(h, id) == IF id \in Id THEN h.ptr[<<"link", id>>] ELSE NIL

\* Never freed by a count or by a sweep (is_permanent).
Permanent(h, id) == h.kind[id] = "module"

\* A new id: not an object's, and in nobody's hands.
Fresh(h) == {id \in Id \ Live(h) : /\ \A x \in Holder : h.ptr[x] # id
                                   /\ \A t \in Thread : id \notin refs[t]}

\* alloc: the count of a new object is 1.
Allocated(h, id, k, word, link) ==
  [h EXCEPT !.kind[id] = k, !.count[id] = 1,
            !.ptr[<<"word", id>>] = word, !.ptr[<<"link", id>>] = link]

\* inc_ref: nothing for nil or a missing object.
Counted(h, id) == IF id \in Live(h) THEN [h EXCEPT !.count[id] = @ + 1] ELSE h

\* remove: the object and what it held are gone.
Freed(h, ids) ==
  [h EXCEPT !.kind = [id \in Id |-> IF id \in ids THEN "none" ELSE @[id]],
            !.count = [id \in Id |-> IF id \in ids THEN 0 ELSE @[id]],
            !.text = [id \in Id |-> IF id \in ids THEN Blank ELSE @[id]],
            !.ptr = [x \in Holder |-> IF x \in {"word", "link"} \X ids THEN NIL ELSE @[x]]]

\* child_refs: a dying object releases its link and nothing else.
Cascade(h, id) == {h.ptr[<<"link", id>>]} \ {NIL}

\* The objects that dec_ref(id) frees: id if its count runs out, then along the links.
Doomed(h, id) ==
  LET dying == {x \in Live(h) : h.count[x] <= 1 /\ ~Permanent(h, x)}
      closed(ids) == /\ {id} \cap dying \subseteq ids
                     /\ \A x \in ids : Cascade(h, x) \cap dying \subseteq ids
  IN  {x \in dying : \A ids \in SUBSET dying : closed(ids) => x \in ids}

\* dec_ref: saturating, and the survivor the cascade runs into loses a count too.
Released(h, id) ==
  LET gone == Doomed(h, id)
      hit == ({id} \cup UNION {Cascade(h, x) : x \in gone}) \cap (Live(h) \ gone)
  IN  Freed([h EXCEPT !.count = [x \in Id |-> IF x \in hit /\ @[x] > 0 THEN @[x] - 1
                                                                       ELSE @[x]]], gone)

\* set_dst_ptr: a store into an object that is gone is dropped (heap_write).
Written(h, dst, id) ==
  IF dst \in Field /\ dst[2] \notin Live(h) THEN h ELSE [h EXCEPT !.ptr[dst] = id]

\* Mutant: the old reference is released before the new one is taken.
MovedReleasingFirst(h, dst, id) ==
  Written(Counted(Released(h, h.ptr[dst]), id), dst, id)

\* move_ptr_to_dst: count the new id, store it, release the old one.
Moved(h, dst, id) == Released(Written(Counted(h, id), dst, id), h.ptr[dst])

\* movmp, headmp: the release precedes the store.
Replaced(h, dst, id) == Written(Released(Counted(h, id), h.ptr[dst]), dst, id)

-----------------------------------------------------------------------------
(* Operands: a word of the current thread, or the word of a record or array that a *)
(* word of the thread or heap_refs leads to; a slice stands for its parent.        *)

Own == {cur} \X (Var \cup Global \cup Caller)

Root(h, id) == IF KindOf(h, id) = "slice" THEN LinkOf(h, id) ELSE id

Held(h, kinds) == {x \in Own : KindOf(h, h.ptr[x]) \in kinds}

Target ==
  Own \cup {<<"word", Root(heap, heap.ptr[x])>> : x \in Held(heap, {"record", "array", "slice"})}
      \cup {<<"word", id>> : id \in refs[cur]}

Bounded(h) == SumFunction(h.count) <= MaxCount

\* The instruction op turns the heap into h.
Does(op, h) ==
  /\ op \in Program
  /\ Bounded(h)
  /\ heap' = h
  /\ UNCHANGED <<cur, alive, refs>>

\* new, newz, mnewz, newa, newaz, newc*, self, cvtca, cvtac: alloc, then a counted move,
\* which leaves the object with a count nobody will release.
New(dst, k) ==
  \E id \in Fresh(heap) : Does("new", Moved(Allocated(heap, id, k, NIL, NIL), dst, id))

\* cons_bytes: the old list becomes the tail of the new node.
Consed(h, id, word, dst) ==
  LET tail == h.ptr[dst]
  IN  Released(Written(Allocated(Counted(h, tail), id, "list", word, tail), dst, id), tail)

IsList(id) == KindOf(heap, id) \in {"nil", "list"}

\* consb, consw, consf, consl.
Cons(dst) ==
  /\ IsList(heap.ptr[dst])
  /\ \E id \in Fresh(heap) : Does("consw", Consed(heap, id, NIL, dst))

\* consp and consmp count the head, consm copies it as bytes.
ConsPointer(src, dst) ==
  LET head == heap.ptr[src]
  IN  /\ IsList(heap.ptr[dst])
      /\ \E id \in Fresh(heap) :
           \/ Does("consp", Consed(Counted(heap, head), id, head, dst))
           \/ Does("consm", Consed(heap, id, head, dst))

\* headp, headmp, headm; nothing is written past the empty head of nil, except by headp.
HeadOf(src, dst) ==
  LET list == heap.ptr[src]
      head == WordOf(heap, list)
  IN  /\ IsList(list)
      /\ \/ Does("headp", Moved(heap, dst, head))
         \/ list # NIL /\ dst \in Place /\ Does("headmp", Replaced(heap, dst, head))
         \/ list # NIL /\ dst \in Place /\ Does("headm", Written(heap, dst, head))

TailOf(src, dst) ==
  IsList(heap.ptr[src]) /\ Does("tail", Moved(heap, dst, LinkOf(heap, heap.ptr[src])))

\* movp; movmp counts what its type's map names; movm copies bytes.
Move(src, dst) ==
  \/ Does("movp", Moved(heap, dst, heap.ptr[src]))
  \/ Does("movmp", Replaced(heap, dst, heap.ptr[src]))
  \/ Does("movm", Written(heap, dst, heap.ptr[src]))

\* Mutant: a string is changed in place whoever else names it.
CopiedOnWriteNever(h, id, fresh) == h

\* cow_string: a string with one count is changed in place, any other is copied.
CopiedOnWrite(h, id, fresh) ==
  IF id \in Id /\ h.count[id] > 1
  THEN [Allocated(Released(h, id), fresh, "string", NIL, NIL) EXCEPT !.text[fresh] = h.text[id]]
  ELSE h

\* insc: dst[mid] = src.
InsertChar(dst, t) ==
  LET id == heap.ptr[dst]
  IN  \E fresh \in Fresh(heap) :
        LET h == IF id = NIL THEN Allocated(heap, fresh, "string", NIL, NIL)
                             ELSE CopiedOnWrite(heap, id, fresh)
            new == IF h = heap THEN id ELSE fresh
        IN  /\ KindOf(heap, id) \in {"nil", "string"}
            /\ Does("insc", Written([h EXCEPT !.text[new] = t], dst, new))

\* addc, slicec: a new string, or nil for an empty result, replaces the old pointer.
NewString(dst, t) ==
  LET old == heap.ptr[dst]
  IN  /\ KindOf(heap, old) \in {"nil", "string"}
      /\ \/ Does("addc", Released(Written(heap, dst, NIL), old))
         \/ \E id \in Fresh(heap) :
              Does("addc", Released(Written([Allocated(heap, id, "string", NIL, NIL)
                                               EXCEPT !.text[id] = t], dst, id), old))

\* Mutant: a slice of a slice keeps the slice as its parent and counts the root.
SlicedOffSlice(h, id, dst) ==
  LET array == h.ptr[dst]
  IN  Released(Written(Counted(Allocated(h, id, "slice", NIL, array), Root(h, array)),
                       dst, id), array)

\* slicea: a slice keeps the root array, not the slice it was cut from.
Sliced(h, id, dst) ==
  LET array == h.ptr[dst]
      root == Root(h, array)
  IN  Released(Written(Counted(Allocated(h, id, "slice", NIL, root), root), dst, id), array)

Slice(dst) ==
  /\ KindOf(heap, heap.ptr[dst]) \in {"array", "slice"}
  /\ \E id \in Fresh(heap) : Does("slicea", Sliced(heap, id, dst))

\* slicela: the elements of src over those of dst, in the root arrays.
AssignSlice(src, dst) ==
  LET from == <<"word", Root(heap, heap.ptr[src])>>
      to == <<"word", Root(heap, heap.ptr[dst])>>
  IN  /\ src \in Held(heap, {"array", "slice"}) /\ dst \in Held(heap, {"array", "slice"})
      /\ Does("slicela", Released(Counted(Written(heap, to, heap.ptr[from]), heap.ptr[from]),
                                  heap.ptr[to]))

\* indx, indw, indf, indb, indl, lea: the reference names the root.
Index(src) ==
  /\ "indx" \in Program
  /\ src \in Held(heap, {"array", "slice"})
  /\ refs' = [refs EXCEPT ![cur] = @ \cup {Root(heap, heap.ptr[src])}]
  /\ Cardinality(UNION {{t} \X refs'[t] : t \in Thread}) <= MaxRefs
  /\ UNCHANGED <<heap, cur, alive>>

\* op_send, op_recv on a channel of pointers: the payload is copied as bytes.
Send(src, chan) ==
  LET slot == <<"word", heap.ptr[chan]>>
  IN  /\ chan \in Held(heap, {"channel"})
      /\ heap.ptr[slot] = NIL
      /\ Does("send", Written(heap, slot, heap.ptr[src]))

Recv(chan, dst) ==
  LET slot == <<"word", heap.ptr[chan]>>
  IN  /\ chan \in Held(heap, {"channel"})
      /\ heap.ptr[slot] # NIL
      /\ Does("recv", Written(Written(heap, slot, NIL), dst, heap.ptr[slot]))

-----------------------------------------------------------------------------
(* Threads and the collector. *)

\* Words that disappear: ret and the end of a thread release nothing.
Dropped(h, words) == [h EXCEPT !.ptr = [x \in Holder |-> IF x \in words THEN NIL ELSE @[x]]]

\* op_ret: the frame's words are gone.
Ret == Does("ret", Dropped(heap, {cur} \X Var))

\* Mutant: the copy of the module data is not counted.
InheritedUncounted(h, t) == h

\* The copy of the module data counts every id in it, word by word.
Inherited(h, t) ==
  [h EXCEPT !.count = [id \in Id |->
     @[id] + IF h.kind[id] = "none" THEN 0
             ELSE Cardinality({v \in Global : h.ptr[<<t, v>>] = id})]]

\* op_spawn, op_mspawn: the pending frame (some of the frame's words) moves to the child,
\* which gets copies of the module data and of the caller stack.
Spawn(child, args) ==
  /\ "spawn" \in Program /\ child \notin alive
  /\ LET h == Inherited(heap, cur)
         copy(x) == IF x[1] = child
                    THEN IF x[2] \in Var \ args THEN NIL ELSE h.ptr[<<cur, x[2]>>]
                    ELSE IF x \in {cur} \X args THEN NIL ELSE h.ptr[x]
     IN  /\ heap' = [h EXCEPT !.ptr = [x \in Holder |-> copy(x)]]
         /\ Bounded(h)
  /\ alive' = alive \cup {child}
  /\ UNCHANGED <<cur, refs>>

\* A thread ends and the next one is installed.
Exit(next) ==
  /\ "exit" \in Program
  /\ next \in alive \ {cur}
  /\ heap' = Dropped(heap, {cur} \X (Var \cup Global \cup Caller))
  /\ alive' = alive \ {cur} /\ cur' = next
  /\ refs' = [refs EXCEPT ![cur] = {}]

\* Rotation of the run loop.
Switch(next) ==
  /\ next \in alive \ {cur}
  /\ cur' = next
  /\ UNCHANGED <<heap, alive, refs>>

\* collect: frames, module data, caller stacks and heap_refs of every thread.
Roots(h) ==
  ({h.ptr[<<t, v>>] : t \in alive, v \in Var \cup Global \cup Caller}
     \cup UNION {refs[t] : t \in alive}) \ {NIL}

Edges(h, id) == {h.ptr[<<"word", id>>], h.ptr[<<"link", id>>]} \ {NIL}

\* mark_all: what can be reached from the roots.
Marked(h) ==
  LET closed(ids) == /\ Roots(h) \cap Live(h) \subseteq ids
                     /\ \A id \in ids : Edges(h, id) \cap Live(h) \subseteq ids
  IN  {id \in Live(h) : \A ids \in SUBSET Live(h) : closed(ids) => id \in ids}

\* sweep.
Collect ==
  /\ heap' = Freed(heap, {id \in Live(heap) \ Marked(heap) : ~Permanent(heap, id)})
  /\ UNCHANGED <<cur, alive, refs>>

Instruction ==
  \/ \E dst \in Target :
       \/ \E k \in Made : New(dst, k)
       \/ Cons(dst) \/ Slice(dst)
       \/ \E t \in Text : InsertChar(dst, t) \/ NewString(dst, t)
  \/ \E src, dst \in Target :
       \/ ConsPointer(src, dst) \/ HeadOf(src, dst) \/ TailOf(src, dst) \/ Move(src, dst)
       \/ AssignSlice(src, dst) \/ Send(src, dst) \/ Recv(src, dst)
  \/ \E src \in Target : Index(src)
  \/ Ret

Next ==
  \/ Instruction
  \/ \E child \in Thread, args \in SUBSET Var : Spawn(child, args)
  \/ \E next \in Thread : Exit(next) \/ Switch(next)
  \/ Collect

Spec == Init /\ [][Next]_vars

-----------------------------------------------------------------------------
(* What must be true of it.                                                    *)

\* The holders of an id.
HoldersOf(h, id) == {x \in Holder : h.ptr[x] = id}

\* No word of a thread or of an object names an object that dec_ref or the sweep freed.
NoDangling == \A x \in Holder : heap.ptr[x] \in Live(heap) \cup {NIL}

\* Every holder of an id was counted: the counts never run out before the holders do.
CountsCover ==
  \A id \in Live(heap) : Cardinality(HoldersOf(heap, id)) <= heap.count[id]

\* A slice reads and writes the array itself: its parent exists and is no slice.
SlicesShareTheirRoot ==
  \A id \in Id : heap.kind[id] = "slice" =>
    LET parent == heap.ptr[<<"link", id>>]
    IN  parent \in Id /\ heap.kind[parent] = "array"

-----------------------------------------------------------------------------
(* The inductive invariant. *)

\* The guest copies no id as plain bytes, and the caller stack that a spawned thread
\* copies holds no id: what is left are the opcodes that count what they copy.
CountsItsCopies ==
  /\ Program \cap {"consm", "headm", "movm", "send", "recv"} = {}
  /\ "spawn" \in Program => Caller = {}

\* A module object holds nothing: it outlives the sweep, what it named would not.
ModulesHoldNothing ==
  \A id \in Id : heap.kind[id] = "module" =>
    heap.ptr[<<"word", id>>] = NIL /\ heap.ptr[<<"link", id>>] = NIL

\* An element reference names an array, or what an array was before it was freed.
RefsNameArrays == \A t \in Thread : \A id \in refs[t] : heap.kind[id] \in {"array", "none"}

\* The roots of the collector are the words of the living: the others have none.
DeadHoldNothing == \A x \in Place : x[1] \notin alive => heap.ptr[x] = NIL

\* TypeOK, NoDangling, CountsCover and SlicesShareTheirRoot rest on each other and on these.
IInv ==
  /\ TypeOK /\ NoDangling /\ CountsCover /\ SlicesShareTheirRoot
  /\ ModulesHoldNothing /\ RefsNameArrays /\ DeadHoldNothing

-----------------------------------------------------------------------------

\* What the guest sees in a word: a string is its contents, anything else its identity.
Seen(h, x) ==
  LET id == h.ptr[x]
  IN  IF id \in Live(h) /\ h.kind[id] = "string" THEN <<"string", h.text[id]>> ELSE <<"id", id>>

\* The words of the threads and of the objects that exist.
Visible(h) == (alive \X (Var \cup Global \cup Caller)) \cup ({"word", "link"} \X Live(h))

\* The words that the guest has before and after a step, and in which it sees a difference.
ChangedWords ==
  {x \in Visible(heap) \cap Visible(heap)' :
     /\ x[1] \in Thread => x[1] \in alive \cap alive'
     /\ Seen(heap, x) # Seen(heap, x)'}

OneWordChanges == Cardinality(ChangedWords) <= 1 \/ ChangedWords \subseteq {cur} \X Var

\* Memory is made of separate words: an instruction changes at most one of those that
\* exist before and after it, whatever is shared and whatever was freed or collected;
\* only ret, exit and spawn drop words of the current thread's frame.
SeparateWords == [][OneWordChanges]_vars

=============================================================================
