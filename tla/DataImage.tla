------------------------------- MODULE DataImage -------------------------------
(* What the interpreter makes of the data of a module when it is loaded        *)
(* (ricevm-execute, data.rs, memory.rs), and how it reads the tables of case   *)
(* and goto in it (ops/control.rs).                                            *)
EXTENDS Format

Searching == INSTANCE CaseSearch

CONSTANT MaxArrayBytes   \* the most that an array may have, 64 MiB in the code

-----------------------------------------------------------------------------
(* Memory.  A byte is <<kind, value, n>>, the n-th of those of a value that    *)
(* was written, as a "b", "w", "l" or "f".  An object of the heap is [is: str  *)
(* (val), array (elem, size, len, bytes)], its id its place in the heap.  The  *)
(* state is                                                                    *)
(*   mp       the bytes of the data, from 0                                    *)
(*   heap     the objects                                                      *)
(*   arrays   the ids of the arrays that are being filled, the innermost last  *)

Zero == <<"0", 0, 0>>
Zeroes(n) == [byte \in 0 .. n - 1 |-> Zero]
WidthOf(k) == CASE k = "b" -> 1 [] k = "w" -> 4 [] k \in {"l", "f"} -> 8
Holds(bytes, at, n) == at >= 0 /\ at + n <= Cardinality(DOMAIN bytes)
\* Outside, and where nothing was written yet, there are zeroes; half a value is none.
Garbage == -1
ReadValue(bytes, at, k, zero) ==
  CASE ~Holds(bytes, at, WidthOf(k)) -> zero
    [] OTHER ->
         LET first == bytes[at]
         IN IF \A n \in 1 .. WidthOf(k) : bytes[at + n - 1] = <<k, first[2], n>> THEN first[2]
            ELSE IF \A n \in 1 .. WidthOf(k) : bytes[at + n - 1] = Zero THEN zero ELSE Garbage
WordAt(bytes, at) == ReadValue(bytes, at, "w", 0)
BigAt(bytes, at) == ReadValue(bytes, at, "l", <<0, 0>>)
\* Values one after the other, as many as there is room for.
WithValues(bytes, at, k, vals) ==
  LET room == (Cardinality(DOMAIN bytes) - at) \div WidthOf(k)
      written == WidthOf(k) * Max({0, Min({room, Len(vals)})})
  IN [byte \in DOMAIN bytes |->
        IF byte \in at .. at + written - 1 THEN <<k, vals[1 + (byte - at) \div WidthOf(k)], 1 + ((byte - at) % WidthOf(k))>>
        ELSE bytes[byte]]

-----------------------------------------------------------------------------
(* The items of the data.                                                      *)

IsArray(m, id) == id \in DOMAIN m.heap /\ m.heap[id].is = "array"
\* Where is written: into the innermost array that is being filled, if it is one.
Target(m) == IF m.arrays # <<>> /\ IsArray(m, Last(m.arrays)) THEN Last(m.arrays) ELSE 0
Active(m) == IF Target(m) > 0 THEN m.heap[Target(m)].bytes ELSE m.mp
PutAll(m, at, k, vals) ==
  IF Target(m) > 0 THEN [m EXCEPT !.heap[Target(m)].bytes = WithValues(@, at, k, vals)]
  ELSE [m EXCEPT !.mp = WithValues(@, at, k, vals)]
\* An object is made only if there is room for its id.
PutNew(m, at, object) == PutAll([m EXCEPT !.heap = Append(@, object)], at, "w", <<Len(m.heap) + 1>>)

\* An element has the size of its type, or of a word, but not less than one byte.
ElemSize(types, type) == IF type + 1 \in DOMAIN types THEN types[type + 1].size ELSE 4
ArrayObject(type, size, len) == [is |-> "array", elem |-> type, size |-> size, len |-> len, bytes |-> Zeroes(len * size)]
NewArray(m, types, at, type, len) ==
  LET size == IF ElemSize(types, type) = 0 THEN 1 ELSE ElemSize(types, type)
      fits == len >= 0 /\ (len = 0 \/ (size > 0 /\ len <= MaxArrayBytes \div size))
  IN IF fits THEN PutNew(m, at, ArrayObject(type, size, len)) ELSE m

\* The array is the one that the data, or the array around it, has there.
Around(m) == IF m.arrays = <<>> THEN m.mp ELSE IF Target(m) > 0 THEN m.heap[Target(m)].bytes ELSE <<>>
Enter(m, at, index) ==
  LET id == WordAt(Around(m), at) IN IF id = 0 \/ index < 0 THEN m ELSE [m EXCEPT !.arrays = Append(@, id)]
Leave(m) == IF m.arrays = <<>> THEN m ELSE [m EXCEPT !.arrays = Front(@)]

WithItem(types, m, d) ==
  CASE d.kind = "bytes"    -> PutAll(m, d.at, "b", d.vals)
    [] d.kind = "words"    -> PutAll(m, d.at, "w", d.vals)
    [] d.kind = "bigs"     -> PutAll(m, d.at, "l", d.vals)
    [] d.kind = "reals"    -> PutAll(m, d.at, "f", d.vals)
    [] d.kind = "string"   -> IF Holds(Active(m), d.at, 4) THEN PutNew(m, d.at, [is |-> "str", val |-> d.vals]) ELSE m
    [] d.kind = "array"    -> IF Holds(Active(m), d.at, 4) THEN NewArray(m, types, d.at, d.vals[1], d.vals[2]) ELSE m
    [] d.kind = "setarray" -> Enter(m, d.at, d.vals[1])
    [] d.kind = "restore"  -> Leave(m)
InitMp(module) ==
  FoldLeft(LAMBDA m, d: IF d.at < 0 THEN m ELSE WithItem(module.types, m, d),
           [mp |-> Zeroes(module.header.data), heap |-> <<>>, arrays |-> <<>>], module.data)

-----------------------------------------------------------------------------
(* Tables: a count, entries [lo, hi, pc], and the pc of all else.  A big has   *)
(* two words, and a table of bigs gaps that keep it aligned.                   *)

EntryBytes(op) == IF op = "casel" THEN 24 ELSE 12
FirstEntry(op) == IF op = "casel" THEN 8 ELSE 4
PcIn(op) == IF op = "casel" THEN 16 ELSE 8

TextBefore(a, b) ==
  LET differ == {n \in DOMAIN a \cap DOMAIN b : a[n] # b[n]}
  IN IF differ = {} THEN Len(a) < Len(b) ELSE a[Min(differ)] < b[Min(differ)]
TextOf(m, id) == IF id \in DOMAIN m.heap /\ m.heap[id].is = "str" THEN m.heap[id].val ELSE <<>>

\* Where a value lies of the entry at a place.
SideUpToHi(m, entry, v) == Searching!SideOfWords(WordAt(m.mp, entry), WordAt(m.mp, entry + 4) + 1, v)   \* hi is in the range
SideOfWord(m, entry, v) == Searching!SideOfWords(WordAt(m.mp, entry), WordAt(m.mp, entry + 4), v)
SideOfBig(m, entry, v) == Searching!SideOfBigs(BigAt(m.mp, entry), BigAt(m.mp, entry + 8), v)
\* Up to hi, which is not there if lo stands alone.
SideOfText(m, entry, v) ==
  LET lo == TextOf(m, WordAt(m.mp, entry))
      hi == WordAt(m.mp, entry + 4)
  IN Searching!Side(TextBefore(v, lo), v # lo /\ (hi = 0 \/ TextBefore(TextOf(m, hi), v)))
SideOf(op, m, entry, v) ==
  CASE op = "casew" -> SideOfWord(m, entry, v) [] op = "casel" -> SideOfBig(m, entry, v) [] op = "casec" -> SideOfText(m, entry, v)

\* What is not found goes to the place behind the entries.
Case(op, m, table, v) ==
  LET n == WordAt(m.mp, table)
      entry(i) == table + FirstEntry(op) + i * EntryBytes(op)
      found == Searching!Found([i \in 0 .. n - 1 |-> SideOf(op, m, entry(i), v)], n)
  IN WordAt(m.mp, entry(found) + IF found < n THEN PcIn(op) ELSE 0)
Goto(m, table, index) == WordAt(m.mp, table + 4 * index)
Jump(op, m, table, v) == IF op = "goto" THEN Goto(m, table, v) ELSE Case(op, m, table, v)
=============================================================================
