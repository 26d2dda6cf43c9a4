----------------------------- MODULE HeapProofs -----------------------------
(***************************************************************************)
(* What Heap says of guests that count their copies is proved here for any *)
(* number of objects, threads and words.                                   *)
(*                                                                         *)
(* An opcode is a sequence of small operations between which an id is in   *)
(* nobody's word but still counted: it is in hand.  Covers(h, e) says that *)
(* every count of h covers the holders of an object and what the function  *)
(* e has of it in hand.  A lemma for each operation says how e changes; an *)
(* opcode is sound if its operations lead from nothing in hand to nothing  *)
(* in hand.                                                                *)
(***************************************************************************)
EXTENDS Heap, FiniteSetTheorems, TLAPS

Heaps ==
  [kind : [Id -> Kind \cup {"none"}], count : [Id -> Nat],
   ptr : [Holder -> Id \cup {NIL}], text : [Id -> Text]]

\* How often every id is in hand.
Hands == [Id -> Nat]

Empty == [id \in Id |-> 0]
Takes(e, id) == [x \in Id |-> IF x = id THEN e[x] + 1 ELSE e[x]]
Gives(e, id) == [x \in Id |-> IF x = id THEN e[x] - 1 ELSE e[x]]

Owned(h, e, id) == Cardinality(HoldersOf(h, id)) + e[id] <= h.count[id]

\* Nothing is left of the objects that are gone, and the counts cover what is named.
Covers(h, e) ==
  /\ h \in Heaps /\ e \in Hands
  /\ \A id \in Id : h.kind[id] = "none" =>
       h.count[id] = 0 /\ h.ptr[<<"word", id>>] = NIL /\ h.ptr[<<"link", id>>] = NIL
  /\ \A x \in Holder : h.ptr[x] \in Live(h) \cup {NIL}
  /\ \A id \in Id : e[id] > 0 => id \in Live(h)
  /\ \A id \in Live(h) : Owned(h, e, id)

\* The word x of h is set.
Put(h, x, id) == [h EXCEPT !.ptr[x] = id]

\* An object with nothing in it.
Blanked(h, id, k) == [h EXCEPT !.kind[id] = k, !.count[id] = 1]

-----------------------------------------------------------------------------
(* Finite sets. *)

\* The words of a guest are finite in number, and words and fields are apart.
LEMMA HoldersFinite ==
  /\ IsFiniteSet(Holder)
  /\ Place \cap Field = {}
  /\ NIL \notin Id
  <1>1. IsFiniteSet(Var \cup Global \cup Caller)
    BY FS_Union, HeapConstants
  <1>2. IsFiniteSet(Place)
    BY <1>1, FS_Product, HeapConstants DEF Place
  <1>3. IsFiniteSet({"word", "link"})
    <2>1. IsFiniteSet({"word"})
      BY FS_Singleton
    <2>2. IsFiniteSet({"word"} \cup {"link"})
      BY <2>1, FS_AddElement
    <2> QED
      BY <2>2
  <1>4. IsFiniteSet(Field)
    BY <1>3, FS_Product, HeapConstants DEF Field
  <1> QED
    BY <1>2, <1>4, FS_Union, HeapConstants DEF Holder, Place, Field

\* The holders of an id are finite in number.
LEMMA HoldersCount ==
  ASSUME NEW h, NEW id
  PROVE  IsFiniteSet(HoldersOf(h, id)) /\ Cardinality(HoldersOf(h, id)) \in Nat
  BY HoldersFinite, FS_Subset, FS_CardinalityType DEF HoldersOf

\* Fewer holders are not more in number.
LEMMA FewerHolders ==
  ASSUME NEW S, NEW T, IsFiniteSet(T), S \subseteq T
  PROVE  IsFiniteSet(S) /\ Cardinality(S) <= Cardinality(T)
         /\ Cardinality(S) \in Nat /\ Cardinality(T) \in Nat
  BY FS_Subset, FS_CardinalityType

\* A set without one of its elements is smaller by one.
LEMMA OneLess ==
  ASSUME NEW S, NEW T, IsFiniteSet(T), NEW x \in T, S \subseteq T, x \notin S
  PROVE  Cardinality(S) + 1 <= Cardinality(T)
  <1>1. Cardinality(T \ {x}) = Cardinality(T) - 1 /\ IsFiniteSet(T \ {x})
    BY FS_RemoveElement
  <1>2. Cardinality(S) <= Cardinality(T \ {x}) /\ Cardinality(S) \in Nat
    BY <1>1, FewerHolders
  <1> QED
    BY <1>1, <1>2, FS_CardinalityType

\* What is in hand remains a number, and giving back what was taken changes nothing.
LEMMA HandsKept ==
  ASSUME NEW e \in Hands, NEW id
  PROVE  /\ Takes(e, id) \in Hands
         /\ (id \in Id => e[id] > 0) => Gives(e, id) \in Hands
         /\ Gives(Takes(e, id), id) = e
         /\ (id \in Id => e[id] > 0) => Takes(Gives(e, id), id) = e
         /\ id \notin Id => Takes(e, id) = e /\ Gives(e, id) = e
  BY DEF Hands, Takes, Gives

LEMMA EmptyHands ==
  Empty \in Hands
  BY DEF Empty, Hands

\* Less in hand is covered as well.
LEMMA CoversLess ==
  ASSUME NEW h, NEW e, Covers(h, e), NEW f \in Hands, \A id \in Id : f[id] <= e[id]
  PROVE  Covers(h, f)
  <1>1. ASSUME NEW id \in Live(h) PROVE Owned(h, f, id)
    <2>1. id \in Id /\ f[id] \in Nat /\ e[id] \in Nat /\ h.count[id] \in Nat
      BY <1>1 DEF Covers, Hands, Live, Heaps
    <2> QED
      BY <1>1, <2>1, HoldersCount DEF Covers, Owned
  <1> QED
    BY <1>1 DEF Covers, Hands

-----------------------------------------------------------------------------
(* The operations of heap.rs. *)

\* inc_ref takes a reference in hand.
LEMMA CountedCovers ==
  ASSUME NEW h, NEW e, Covers(h, e), NEW id \in Live(h) \cup {NIL}
  PROVE  /\ Covers(Counted(h, id), Takes(e, id))
         /\ Counted(h, id).kind = h.kind /\ Counted(h, id).ptr = h.ptr
         /\ Counted(h, id).text = h.text
         /\ Live(Counted(h, id)) = Live(h)
         /\ Counted(h, id) \in Heaps
  <1>1. CASE id = NIL
    <2>1. Counted(h, id) = h /\ Takes(e, id) = e
      BY <1>1, HoldersFinite, HandsKept DEF Counted, Live, Covers
    <2> QED
      BY <2>1 DEF Covers
  <1>2. CASE id \in Live(h)
    <2> DEFINE g == Counted(h, id)
    <2>1. /\ g = [h EXCEPT !.count[id] = @ + 1]
          /\ id \in Id /\ h \in Heaps /\ e \in Hands
      BY <1>2 DEF Counted, Live, Covers
    <2>2. /\ g.kind = h.kind /\ g.ptr = h.ptr /\ g.text = h.text /\ g \in Heaps
          /\ g.count = [h.count EXCEPT ![id] = @ + 1]
      BY <2>1 DEF Heaps
    <2>3. Live(g) = Live(h) /\ \A x : HoldersOf(g, x) = HoldersOf(h, x)
      BY <2>2 DEF Live, HoldersOf
    <2>4. Takes(e, id) \in Hands /\ h.kind[id] # "none"
      BY <2>1, <1>2, HandsKept DEF Live
    <2>5. ASSUME NEW x \in Live(g) PROVE Owned(g, Takes(e, id), x)
      <3>1. x \in Id /\ e[x] \in Nat /\ h.count[x] \in Nat /\ Owned(h, e, x)
        BY <2>5, <2>3, <2>1 DEF Covers, Hands, Heaps, Live
      <3> QED
        BY <3>1, <2>2, <2>3, <2>1, HoldersCount DEF Owned, Takes, Heaps
    <2>6. \A x \in Id : Takes(e, id)[x] > 0 => x \in Live(g)
      BY <2>1, <2>3, <1>2 DEF Takes, Covers
    <2>7. \A x \in Id : g.kind[x] = "none" =>
            g.count[x] = 0 /\ g.ptr[<<"word", x>>] = NIL /\ g.ptr[<<"link", x>>] = NIL
      BY <2>1, <2>2, <2>4 DEF Covers, Heaps
    <2> QED
      BY <2>2, <2>3, <2>4, <2>5, <2>6, <2>7 DEF Covers
  <1> QED
    BY <1>1, <1>2

\* A word of an object that exists, or of a thread, takes what is in hand and leaves
\* there what it named.
LEMMA PutCovers ==
  ASSUME NEW h, NEW e, Covers(h, e), NEW x \in Holder, x \in Field => x[2] \in Live(h),
         NEW id \in Live(h) \cup {NIL}, id \in Id => e[id] > 0
  PROVE  /\ Covers(Put(h, x, id), Takes(Gives(e, id), h.ptr[x]))
         /\ Put(h, x, id).kind = h.kind /\ Put(h, x, id).count = h.count
         /\ Put(h, x, id).text = h.text /\ Put(h, x, id).ptr = [h.ptr EXCEPT ![x] = id]
         /\ Live(Put(h, x, id)) = Live(h)
  <1> DEFINE g == Put(h, x, id)
             old == h.ptr[x]
             f == Takes(Gives(e, id), old)
  <1>1. /\ h \in Heaps /\ e \in Hands /\ id \in Id \cup {NIL} /\ NIL \notin Id
        /\ old \in Live(h) \cup {NIL}
    BY HoldersFinite DEF Covers, Live
  <1>2. /\ g.kind = h.kind /\ g.count = h.count /\ g.text = h.text /\ g \in Heaps
        /\ g.ptr = [h.ptr EXCEPT ![x] = id]
    BY <1>1 DEF Heaps, Put
  <1>3. Live(g) = Live(h)
    BY <1>2 DEF Live
  <1>4. Gives(e, id) \in Hands /\ f \in Hands
    BY <1>1, HandsKept
  <1>5. \A y \in Id : f[y] > 0 => y \in Live(g)
    BY <1>1, <1>3, <1>4 DEF Takes, Gives, Hands, Covers
  <1>6. ASSUME NEW y \in Live(g) PROVE Owned(g, f, y)
    <2>1. y \in Id /\ Owned(h, e, y) /\ e[y] \in Nat /\ h.count[y] \in Nat
      BY <1>6, <1>3, <1>1 DEF Covers, Hands, Heaps, Live
    <2>2. f[y] = (IF y = id THEN e[y] - 1 ELSE e[y]) + (IF y = old THEN 1 ELSE 0)
      BY <2>1 DEF Takes, Gives
    <2>3. CASE id = old
      <3>1. g.ptr = h.ptr
        BY <2>3, <1>2, <1>1 DEF Heaps
      <3> QED
        BY <3>1, <2>1, <2>2, <2>3, <1>2, HoldersCount DEF Owned, HoldersOf
    <2>4. CASE id # old /\ y = id
      <3>1. HoldersOf(g, y) = HoldersOf(h, y) \cup {x} /\ x \notin HoldersOf(h, y)
        BY <2>4, <1>2, <1>1 DEF HoldersOf, Heaps
      <3>2. Cardinality(HoldersOf(g, y)) = Cardinality(HoldersOf(h, y)) + 1
        BY <3>1, HoldersCount, FS_AddElement
      <3> QED
        BY <3>2, <2>1, <2>2, <2>4, <1>2, HoldersCount DEF Owned
    <2>5. CASE id # old /\ y = old
      <3>1. HoldersOf(g, y) = HoldersOf(h, y) \ {x} /\ x \in HoldersOf(h, y)
        BY <2>5, <1>2, <1>1 DEF HoldersOf, Heaps
      <3>2. Cardinality(HoldersOf(g, y)) = Cardinality(HoldersOf(h, y)) - 1
        BY <3>1, HoldersCount, FS_RemoveElement
      <3> QED
        BY <3>2, <2>1, <2>2, <2>5, <1>2, HoldersCount DEF Owned
    <2>6. CASE id # old /\ y # id /\ y # old
      <3>1. HoldersOf(g, y) = HoldersOf(h, y)
        BY <2>6, <1>2, <1>1 DEF HoldersOf, Heaps
      <3> QED
        BY <3>1, <2>1, <2>2, <2>6, <1>2, HoldersCount DEF Owned
    <2> QED
      BY <2>3, <2>4, <2>5, <2>6
  <1>7. \A y \in Id : g.kind[y] = "none" =>
          g.count[y] = 0 /\ g.ptr[<<"word", y>>] = NIL /\ g.ptr[<<"link", y>>] = NIL
    <2> SUFFICES ASSUME NEW y \in Id, h.kind[y] = "none", NEW w \in {"word", "link"}
                 PROVE  h.count[y] = 0 /\ g.ptr[<<w, y>>] = NIL
      BY <1>2
    <2>1. h.count[y] = 0 /\ h.ptr[<<w, y>>] = NIL /\ <<w, y>> \in Holder /\ <<w, y>> \in Field
      BY DEF Covers, Holder, Field
    <2>2. <<w, y>> # x
      BY <2>1 DEF Live
    <2> QED
      BY <2>1, <2>2, <1>2, <1>1 DEF Heaps
  <1>8. \A y \in Holder : g.ptr[y] \in Live(g) \cup {NIL}
    BY <1>1, <1>2, <1>3 DEF Covers, Heaps
  <1> QED
    BY <1>2, <1>3, <1>4, <1>5, <1>6, <1>7, <1>8 DEF Covers

\* Nobody has an id that no object has.
LEMMA NobodyHolds ==
  ASSUME NEW h, NEW e, Covers(h, e), NEW id \in Id, h.kind[id] = "none"
  PROVE  HoldersOf(h, id) = {} /\ e[id] = 0
  BY HoldersFinite DEF Covers, HoldersOf, Live, Hands

\* alloc: the new object is in hand.
LEMMA BlankCovers ==
  ASSUME NEW h, NEW e, Covers(h, e), NEW id \in Id, h.kind[id] = "none", NEW k \in Kind
  PROVE  /\ Covers(Blanked(h, id, k), Takes(e, id))
         /\ Blanked(h, id, k).kind = [h.kind EXCEPT ![id] = k]
         /\ Blanked(h, id, k).count = [h.count EXCEPT ![id] = 1]
         /\ Blanked(h, id, k).ptr = h.ptr /\ Blanked(h, id, k).text = h.text
         /\ Live(Blanked(h, id, k)) = Live(h) \cup {id}
  <1> DEFINE g == Blanked(h, id, k)
             f == Takes(e, id)
  <1>1. h \in Heaps /\ e \in Hands /\ k # "none"
    BY DEF Covers, Kind
  <1>2. /\ g.kind = [h.kind EXCEPT ![id] = k] /\ g.count = [h.count EXCEPT ![id] = 1]
        /\ g.ptr = h.ptr /\ g.text = h.text /\ g \in Heaps
    BY <1>1 DEF Heaps, Blanked
  <1>3. Live(g) = Live(h) \cup {id}
    BY <1>1, <1>2 DEF Live, Heaps
  <1>4. f \in Hands
    BY <1>1, HandsKept
  <1>5. \A y : HoldersOf(g, y) = HoldersOf(h, y)
    BY <1>2 DEF HoldersOf
  <1>6. ASSUME NEW y \in Live(g) PROVE Owned(g, f, y)
    <2>1. CASE y = id
      <3>1. HoldersOf(g, y) = {} /\ e[y] = 0
        BY <2>1, <1>5, NobodyHolds
      <3> QED
        BY <3>1, <2>1, <1>2, <1>1, FS_EmptySet DEF Owned, Takes, Heaps
    <2>2. CASE y # id
      <3>1. y \in Live(h) /\ y \in Id /\ Owned(h, e, y)
        BY <2>2, <1>6, <1>3 DEF Covers, Live
      <3> QED
        BY <3>1, <2>2, <1>2, <1>5, <1>1 DEF Owned, Takes, Heaps
    <2> QED
      BY <2>1, <2>2
  <1>7. \A y \in Id : f[y] > 0 => y \in Live(g)
    BY <1>1, <1>3 DEF Takes, Covers
  <1>8. \A y \in Id : g.kind[y] = "none" =>
          g.count[y] = 0 /\ g.ptr[<<"word", y>>] = NIL /\ g.ptr[<<"link", y>>] = NIL
    BY <1>1, <1>2 DEF Covers, Heaps
  <1>9. \A y \in Holder : g.ptr[y] \in Live(g) \cup {NIL}
    BY <1>2, <1>3 DEF Covers
  <1> QED
    BY <1>2, <1>3, <1>4, <1>6, <1>7, <1>8, <1>9 DEF Covers

\* The new object may take what is in hand.
LEMMA AllocatedCovers ==
  ASSUME NEW h, NEW e, Covers(h, e), NEW id \in Id, h.kind[id] = "none", NEW k \in Kind,
         NEW word \in Live(h) \cup {NIL}, NEW link \in Live(h) \cup {NIL},
         word \in Id => e[word] > 0, link \in Id => Gives(e, word)[link] > 0
  PROVE  /\ Covers(Allocated(h, id, k, word, link), Takes(Gives(Gives(e, word), link), id))
         /\ Allocated(h, id, k, word, link).kind = [h.kind EXCEPT ![id] = k]
         /\ \A x \in Holder : Allocated(h, id, k, word, link).ptr[x] =
              IF x = <<"word", id>> THEN word ELSE IF x = <<"link", id>> THEN link ELSE h.ptr[x]
         /\ Allocated(h, id, k, word, link).text = h.text
         /\ Live(Allocated(h, id, k, word, link)) = Live(h) \cup {id}
  <1> DEFINE a == Blanked(h, id, k)
             b == Put(a, <<"word", id>>, word)
             c == Put(b, <<"link", id>>, link)
             d == Takes(e, id)
             f == Takes(Gives(Gives(e, word), link), id)
  <1>1. /\ h \in Heaps /\ e \in Hands /\ NIL \notin Id /\ id \notin Live(h)
        /\ h.ptr[<<"word", id>>] = NIL /\ h.ptr[<<"link", id>>] = NIL
        /\ <<"word", id>> \in Holder /\ <<"link", id>> \in Holder
        /\ <<"word", id>> # <<"link", id>>
        /\ <<"word", id>>[2] = id /\ <<"link", id>>[2] = id
    BY HoldersFinite DEF Covers, Holder, Field, Live
  <1>2. /\ Covers(a, d) /\ a.kind = [h.kind EXCEPT ![id] = k]
        /\ a.count = [h.count EXCEPT ![id] = 1] /\ a.ptr = h.ptr /\ a.text = h.text
        /\ Live(a) = Live(h) \cup {id}
    BY BlankCovers
  <1> HIDE DEF a, b, c, d
  <1>3. word \in Id => d[word] > 0
    BY <1>1 DEF Takes, Hands, d
  <1>4. /\ Covers(b, Takes(Gives(d, word), a.ptr[<<"word", id>>]))
        /\ b.kind = a.kind /\ b.count = a.count /\ b.text = a.text
        /\ b.ptr = [a.ptr EXCEPT ![<<"word", id>>] = word] /\ Live(b) = Live(a)
    BY <1>1, <1>2, <1>3, PutCovers DEF b
  <1>5. Gives(d, word) \in Hands /\ d \in Hands
    BY <1>1, <1>3, HandsKept DEF d
  <1>6. Covers(b, Gives(d, word))
    <2>1. Takes(Gives(d, word), a.ptr[<<"word", id>>]) = Gives(d, word)
      BY <1>1, <1>2, <1>5, HandsKept
    <2> QED
      BY <2>1, <1>4
  <1>7. link \in Id => Gives(d, word)[link] > 0
    BY <1>1 DEF Takes, Gives, Hands, d
  <1>8. b.ptr[<<"link", id>>] = NIL
    BY <1>1, <1>2, <1>4 DEF Heaps
  <1>9. /\ Covers(c, Takes(Gives(Gives(d, word), link), NIL))
        /\ c.kind = b.kind /\ c.count = b.count /\ c.text = b.text
        /\ c.ptr = [b.ptr EXCEPT ![<<"link", id>>] = link] /\ Live(c) = Live(b)
    <2>1. <<"link", id>>[2] \in Live(b) /\ link \in Live(b) \cup {NIL}
      BY <1>1, <1>2, <1>4
    <2> QED
      BY <2>1, <1>1, <1>6, <1>7, <1>8, PutCovers DEF c
  <1>10. Gives(Gives(d, word), link) \in Hands
    BY <1>5, <1>7, HandsKept
  <1>11. Takes(Gives(Gives(d, word), link), NIL) = Gives(Gives(d, word), link)
    BY <1>1, <1>10, HandsKept
  <1>12. Gives(Gives(d, word), link) = f
    BY <1>1 DEF Takes, Gives, Hands, Live, d
  <1>13. c = Allocated(h, id, k, word, link)
    BY <1>1 DEF Put, Allocated, Blanked, Heaps, a, b, c
  <1>14. \A x \in Holder : c.ptr[x] =
           IF x = <<"word", id>> THEN word ELSE IF x = <<"link", id>> THEN link ELSE h.ptr[x]
    BY <1>1, <1>2, <1>4, <1>9 DEF Heaps
  <1> QED
    BY <1>2, <1>4, <1>9, <1>11, <1>12, <1>13, <1>14

-----------------------------------------------------------------------------
(* dec_ref. *)

\* What dec_ref(id) frees has run out of references; it is closed under the links, and
\* everything in it is id itself or linked from another object in it.
LEMMA DoomedFacts ==
  ASSUME NEW h, NEW id
  PROVE  LET gone == Doomed(h, id)
             dying == {x \in Live(h) : h.count[x] <= 1 /\ ~Permanent(h, x)}
         IN  /\ gone \subseteq dying
             /\ {id} \cap dying \subseteq gone
             /\ \A x \in gone : Cascade(h, x) \cap dying \subseteq gone
             /\ \A x \in gone : x = id \/ \E y \in gone \ {x} : x \in Cascade(h, y)
             /\ id \notin dying => gone = {}
  <1> DEFINE gone == Doomed(h, id)
             dying == {x \in Live(h) : h.count[x] <= 1 /\ ~Permanent(h, x)}
             closed(ids) == /\ {id} \cap dying \subseteq ids
                            /\ \A x \in ids : Cascade(h, x) \cap dying \subseteq ids
  <1> HIDE DEF dying
  <1>1. gone = {x \in dying : \A ids \in SUBSET dying : closed(ids) => x \in ids}
    BY DEF Doomed, dying
  <1> HIDE DEF gone
  <1>2. gone \subseteq dying /\ {id} \cap dying \subseteq gone
    BY <1>1
  <1>3. ASSUME NEW x \in gone PROVE Cascade(h, x) \cap dying \subseteq gone
    BY <1>1
  <1>4. ASSUME NEW x \in gone, x # id, ~ \E y \in gone \ {x} : x \in Cascade(h, y)
        PROVE  FALSE
    <2>1. gone \ {x} \in SUBSET dying /\ closed(gone \ {x})
      BY <1>2, <1>3, <1>4
    <2> QED
      BY <2>1, <1>1
  <1>5. ASSUME id \notin dying PROVE gone = {}
    <2>1. closed({})
      BY <1>5
    <2> QED
      BY <2>1, <1>1
  <1> QED
    BY <1>2, <1>3, <1>4, <1>5 DEF gone, dying

\* remove: the fields of an object, word for word.
LEMMA FreedIs ==
  ASSUME NEW h \in Heaps, NEW ids
  PROVE  LET g == Freed(h, ids)
         IN  /\ g \in Heaps
             /\ \A id \in Id : /\ g.kind[id] = IF id \in ids THEN "none" ELSE h.kind[id]
                               /\ g.count[id] = IF id \in ids THEN 0 ELSE h.count[id]
                               /\ g.text[id] = IF id \in ids THEN Blank ELSE h.text[id]
             /\ \A x \in Holder :
                  g.ptr[x] = IF x \in {"word", "link"} \X ids THEN NIL ELSE h.ptr[x]
             /\ Live(g) = Live(h) \ ids
  <1> DEFINE g == Freed(h, ids)
  <1>1. Blank \in Text
    BY HeapConstants DEF Blank
  <1>2. /\ g.kind = [id \in Id |-> IF id \in ids THEN "none" ELSE h.kind[id]]
        /\ g.count = [id \in Id |-> IF id \in ids THEN 0 ELSE h.count[id]]
        /\ g.text = [id \in Id |-> IF id \in ids THEN Blank ELSE h.text[id]]
        /\ g.ptr = [x \in Holder |-> IF x \in {"word", "link"} \X ids THEN NIL ELSE h.ptr[x]]
    BY DEF Freed, Heaps
  <1>3. /\ g.kind \in [Id -> Kind \cup {"none"}] /\ g.count \in [Id -> Nat]
        /\ g.text \in [Id -> Text] /\ g.ptr \in [Holder -> Id \cup {NIL}]
    BY <1>1, <1>2 DEF Heaps
  <1>4. g \in Heaps
    BY <1>1, <1>2, <1>3 DEF Heaps, Freed
  <1>5. Live(g) = Live(h) \ ids
    BY <1>2 DEF Live
  <1> QED
    BY <1>2, <1>4, <1>5

\* dec_ref, field by field: what is doomed is freed, the survivors it hits lose a count.
LEMMA ReleasedIs ==
  ASSUME NEW h \in Heaps, NEW id
  PROVE  LET gone == Doomed(h, id)
             hit == ({id} \cup UNION {Cascade(h, x) : x \in gone}) \cap (Live(h) \ gone)
             g == Released(h, id)
         IN  /\ g \in Heaps
             /\ \A x \in Id : /\ g.kind[x] = IF x \in gone THEN "none" ELSE h.kind[x]
                              /\ g.count[x] = IF x \in gone THEN 0
                                              ELSE IF x \in hit /\ h.count[x] > 0
                                                   THEN h.count[x] - 1 ELSE h.count[x]
                              /\ g.text[x] = IF x \in gone THEN Blank ELSE h.text[x]
             /\ \A x \in Holder :
                  g.ptr[x] = IF x \in {"word", "link"} \X gone THEN NIL ELSE h.ptr[x]
             /\ Live(g) = Live(h) \ gone
  <1> DEFINE gone == Doomed(h, id)
             hit == ({id} \cup UNION {Cascade(h, x) : x \in gone}) \cap (Live(h) \ gone)
             g == Released(h, id)
             less == [h EXCEPT !.count = [x \in Id |-> IF x \in hit /\ @[x] > 0 THEN @[x] - 1
                                                                               ELSE @[x]]]
  <1>1. g = Freed(less, gone)
    BY DEF Released
  <1> HIDE DEF gone, hit
  <1>2. /\ less.kind = h.kind /\ less.ptr = h.ptr /\ less.text = h.text
        /\ less.count = [x \in Id |-> IF x \in hit /\ h.count[x] > 0 THEN h.count[x] - 1
                                                                     ELSE h.count[x]]
    BY DEF Heaps
  <1>3. less.count \in [Id -> Nat]
    BY <1>2 DEF Heaps
  <1>4. less \in Heaps
    BY <1>3 DEF Heaps
  <1>5. Live(less) = Live(h)
    BY <1>2 DEF Live
  <1> HIDE DEF less, g
  <1>6. /\ g \in Heaps
        /\ \A x \in Id : /\ g.kind[x] = IF x \in gone THEN "none" ELSE less.kind[x]
                         /\ g.count[x] = IF x \in gone THEN 0 ELSE less.count[x]
                         /\ g.text[x] = IF x \in gone THEN Blank ELSE less.text[x]
        /\ \A x \in Holder :
             g.ptr[x] = IF x \in {"word", "link"} \X gone THEN NIL ELSE less.ptr[x]
        /\ Live(g) = Live(less) \ gone
    BY <1>1, <1>4, FreedIs
  <1>7. /\ g \in Heaps
        /\ \A x \in Id : /\ g.kind[x] = IF x \in gone THEN "none" ELSE h.kind[x]
                         /\ g.count[x] = IF x \in gone THEN 0
                                         ELSE IF x \in hit /\ h.count[x] > 0
                                              THEN h.count[x] - 1 ELSE h.count[x]
                         /\ g.text[x] = IF x \in gone THEN Blank ELSE h.text[x]
        /\ \A x \in Holder :
             g.ptr[x] = IF x \in {"word", "link"} \X gone THEN NIL ELSE h.ptr[x]
        /\ Live(g) = Live(h) \ gone
    BY <1>2, <1>5, <1>6
  <1> QED
    BY <1>7 DEF gone, hit, g

\* What is freed was named by nothing but the links of what is freed with it: the cascade
\* never runs into an object that anybody else names or has in hand.
LEMMA DoomedIsUnnamed ==
  ASSUME NEW h, NEW e, Covers(h, e), NEW id, id \in Id => e[id] > 0,
         NEW x \in Doomed(h, id)
  PROVE  /\ x \in Live(h)
         /\ IF x = id THEN e[x] = 1 ELSE e[x] = 0
         /\ \A z \in HoldersOf(h, x) : z \in {"word", "link"} \X Doomed(h, id)
  <1> DEFINE gone == Doomed(h, id)
  <1>1. /\ x \in Live(h) /\ x \in Id /\ h.count[x] <= 1
        /\ x = id \/ \E y \in gone \ {x} : x \in Cascade(h, y)
        /\ gone \subseteq Live(h)
    BY DoomedFacts DEF Live
  <1>2. /\ Owned(h, e, x) /\ e[x] \in Nat /\ h.count[x] \in Nat
        /\ Cardinality(HoldersOf(h, x)) \in Nat /\ IsFiniteSet(HoldersOf(h, x))
    BY <1>1, HoldersCount DEF Covers, Hands, Heaps
  <1>3. CASE x = id
    <2>1. Cardinality(HoldersOf(h, x)) = 0 /\ e[x] = 1
      BY <1>1, <1>2, <1>3 DEF Owned
    <2>2. HoldersOf(h, x) = {}
      BY <2>1, <1>2, FS_EmptySet
    <2> QED
      BY <2>1, <2>2, <1>1, <1>3
  <1>4. CASE x # id
    <2>1. PICK y \in gone : x \in Cascade(h, y)
      BY <1>1, <1>4
    <2>2. <<"link", y>> \in HoldersOf(h, x)
      BY <2>1, <1>1 DEF Cascade, HoldersOf, Holder, Field, Live
    <2>3. Cardinality(HoldersOf(h, x)) # 0
      BY <2>2, <1>2, FS_EmptySet
    <2>4. Cardinality(HoldersOf(h, x)) = 1 /\ e[x] = 0
      BY <2>3, <1>1, <1>2 DEF Owned
    <2>5. \E z : HoldersOf(h, x) = {z}
      BY <2>4, <1>2, FS_Singleton
    <2> QED
      BY <2>1, <2>2, <2>4, <2>5, <1>1, <1>4
  <1> QED
    BY <1>3, <1>4

\* dec_ref of what is in hand: what somebody else names survives, with a count that covers it.
LEMMA ReleasedCovers ==
  ASSUME NEW h, NEW e, Covers(h, e), NEW id, id \in Id => e[id] > 0
  PROVE  Covers(Released(h, id), Gives(e, id))
  <1> DEFINE gone == Doomed(h, id)
             hit == ({id} \cup UNION {Cascade(h, x) : x \in gone}) \cap (Live(h) \ gone)
             g == Released(h, id)
             f == Gives(e, id)
  <1>1. /\ h \in Heaps /\ e \in Hands /\ NIL \notin Id
        /\ id \in Id => id \in Live(h)
    BY HoldersFinite DEF Covers
  <1>2. /\ gone \subseteq Live(h)
        /\ {id} \cap {x \in Live(h) : h.count[x] <= 1 /\ ~Permanent(h, x)} \subseteq gone
        /\ id \notin {x \in Live(h) : h.count[x] <= 1 /\ ~Permanent(h, x)} => gone = {}
    BY DoomedFacts
  <1>3. \A x \in gone : /\ IF x = id THEN e[x] = 1 ELSE e[x] = 0
                        /\ \A z \in HoldersOf(h, x) : z \in {"word", "link"} \X gone
    BY DoomedIsUnnamed
  <1>4. /\ g \in Heaps
        /\ \A x \in Id : /\ g.kind[x] = IF x \in gone THEN "none" ELSE h.kind[x]
                         /\ g.count[x] = IF x \in gone THEN 0
                                         ELSE IF x \in hit /\ h.count[x] > 0
                                              THEN h.count[x] - 1 ELSE h.count[x]
        /\ \A x \in Holder :
             g.ptr[x] = IF x \in {"word", "link"} \X gone THEN NIL ELSE h.ptr[x]
        /\ Live(g) = Live(h) \ gone
    BY <1>1, ReleasedIs
  <1>5. \A x \in gone \ {id} : id \in gone
    BY <1>2
  <1>6. \A x \in hit : x = id \/ \E y \in gone : <<"link", y>> \in HoldersOf(h, x)
    BY <1>2 DEF Cascade, HoldersOf, Holder, Field, Live
  <1>7. id \in hit => gone = {}
    BY <1>2
  <1> HIDE DEF gone, hit, g
  <1>8. f \in Hands
    BY <1>1, HandsKept
  <1>9. \A x \in Id : f[x] > 0 => x \in Live(g)
    BY <1>1, <1>3, <1>4 DEF Gives, Covers, Hands
  <1>10. \A z \in Holder : g.ptr[z] \in Live(g) \cup {NIL}
    <2> SUFFICES ASSUME NEW z \in Holder, h.ptr[z] \in gone PROVE g.ptr[z] = NIL
      BY <1>1, <1>4 DEF Covers
    <2>1. z \in HoldersOf(h, h.ptr[z])
      BY DEF HoldersOf
    <2> QED
      BY <2>1, <1>3, <1>4
  <1>11. \A x \in Id : g.kind[x] = "none" =>
           g.count[x] = 0 /\ g.ptr[<<"word", x>>] = NIL /\ g.ptr[<<"link", x>>] = NIL
    <2> SUFFICES ASSUME NEW x \in Id, g.kind[x] = "none", NEW w \in {"word", "link"}
                 PROVE  g.count[x] = 0 /\ g.ptr[<<w, x>>] = NIL
      OBVIOUS
    <2>1. <<w, x>> \in Holder
      BY DEF Holder, Field
    <2>2. CASE x \in gone
      BY <2>1, <2>2, <1>4
    <2>3. CASE x \notin gone
      <3>1. h.kind[x] = "none"
        BY <2>3, <1>4
      <3>2. h.count[x] = 0 /\ h.ptr[<<w, x>>] = NIL
        BY <3>1 DEF Covers
      <3> QED
        BY <3>2, <2>1, <2>3, <1>4
    <2> QED
      BY <2>2, <2>3
  <1>12. ASSUME NEW x \in Live(g) PROVE Owned(g, f, x)
    <2>1. /\ x \in Id /\ x \in Live(h) /\ x \notin gone /\ Owned(h, e, x)
          /\ e[x] \in Nat /\ h.count[x] \in Nat
          /\ IsFiniteSet(HoldersOf(h, x))
      BY <1>4, <1>12, <1>1, HoldersCount DEF Covers, Live, Hands, Heaps
    <2>2. HoldersOf(g, x) \subseteq HoldersOf(h, x)
      BY <1>1, <1>4, <2>1 DEF HoldersOf
    <2>3. /\ Cardinality(HoldersOf(g, x)) <= Cardinality(HoldersOf(h, x))
          /\ Cardinality(HoldersOf(g, x)) \in Nat /\ Cardinality(HoldersOf(h, x)) \in Nat
      BY <2>1, <2>2, FewerHolders
    <2>4. CASE x \notin hit
      <3>1. g.count[x] = h.count[x] /\ f[x] <= e[x] /\ f[x] \in Int
        BY <2>1, <2>4, <1>4 DEF Gives
      <3> QED
        BY <3>1, <2>1, <2>3 DEF Owned
    <2>5. CASE x = id
      <3>1. f[x] = e[x] - 1 /\ e[x] > 0
        BY <2>1, <2>5 DEF Gives
      <3>2. g.count[x] >= h.count[x] - 1 /\ g.count[x] \in Nat
        BY <2>1, <1>4
      <3> QED
        BY <3>1, <3>2, <2>1, <2>3 DEF Owned
    <2>6. CASE x \in hit /\ x # id
      <3>1. PICK y \in gone : <<"link", y>> \in HoldersOf(h, x)
        BY <2>6, <1>6
      <3>2. <<"link", y>> \notin HoldersOf(g, x)
        BY <1>1, <1>4, <2>1 DEF HoldersOf
      <3>3. Cardinality(HoldersOf(g, x)) + 1 <= Cardinality(HoldersOf(h, x))
        BY <3>1, <3>2, <2>1, <2>2, OneLess
      <3>4. f[x] = e[x] /\ g.count[x] >= h.count[x] - 1 /\ g.count[x] \in Nat
        BY <2>1, <2>6, <1>4 DEF Gives
      <3> QED
        BY <3>3, <3>4, <2>1, <2>3 DEF Owned
    <2> QED
      BY <2>4, <2>5, <2>6
  <1>13. Covers(g, f)
    BY <1>4, <1>8, <1>9, <1>10, <1>11, <1>12 DEF Covers
  <1> QED
    BY <1>13 DEF g

-----------------------------------------------------------------------------
(* The shape of objects, and what an operation leaves alone. *)

\* The parent of a slice is an array, and module objects hold nothing.
Shaped(h) ==
  \A id \in Live(h) :
    /\ h.kind[id] = "slice" => /\ h.ptr[<<"link", id>>] \in Id
                               /\ h.kind[h.ptr[<<"link", id>>]] = "array"
    /\ h.kind[id] = "module" => h.ptr[<<"word", id>>] = NIL /\ h.ptr[<<"link", id>>] = NIL

Sound(h, e) == Covers(h, e) /\ Shaped(h)

\* What an instruction may name: a word of a thread, or the word of what is no module object.
Writable(h, dst) ==
  dst \in Place \/ (dst \in {"word"} \X Id /\ h.kind[dst[2]] # "module")

\* From h to g nothing changes but the word dst and the objects of new: objects may
\* be freed, counts change.
Touches(h, g, dst, new) ==
  /\ \A x \in Place \ {dst} : g.ptr[x] = h.ptr[x]
  /\ \A x \in Field \ {dst} : x[2] \in Live(g) \ new => g.ptr[x] = h.ptr[x]
  /\ \A id \in Id \ new : g.kind[id] \in {h.kind[id], "none"}
  /\ \A id \in Live(g) \ new : g.text[id] = h.text[id]

LEMMA TouchesNothing ==
  ASSUME NEW h, NEW g, NEW dst, NEW new,
         g.kind = h.kind, g.ptr = h.ptr, g.text = h.text
  PROVE  Touches(h, g, dst, new)
  BY DEF Touches

LEMMA TouchesBoth ==
  ASSUME NEW h, NEW m, NEW g, NEW dst, NEW new,
         Touches(h, m, dst, new), Touches(m, g, dst, new)
  PROVE  Touches(h, g, dst, new)
  BY DEF Touches, Live

LEMMA TouchesMore ==
  ASSUME NEW h, NEW g, NEW dst, NEW new, Touches(h, g, dst, {})
  PROVE  Touches(h, g, dst, new)
  BY DEF Touches

\* A word that may be written stays one.
LEMMA WritableKept ==
  ASSUME NEW h, NEW g, NEW dst, NEW new, Touches(h, g, dst, new), Writable(h, dst),
         dst \in Place \/ dst[2] \notin new
  PROVE  Writable(g, dst)
  <1>1. CASE dst \in Place
    BY <1>1 DEF Writable
  <1>2. CASE dst \in {"word"} \X Id /\ h.kind[dst[2]] # "module" /\ dst[2] \notin new
    <2>1. dst[2] \in Id \ new
      BY <1>2
    <2>2. g.kind[dst[2]] \in {h.kind[dst[2]], "none"}
      BY <2>1 DEF Touches
    <2> QED
      BY <1>2, <2>2 DEF Writable
  <1> QED
    BY <1>1, <1>2 DEF Writable, Place, Field

\* Objects keep their shape when nothing but a word changes.
LEMMA ShapeKept ==
  ASSUME NEW h, NEW g, NEW f, NEW dst, Touches(h, g, dst, {}), Shaped(h), Covers(g, f),
         dst \in Field => Writable(h, dst)
  PROVE  Shaped(g)
  <1> SUFFICES ASSUME NEW id \in Live(g)
               PROVE  /\ g.kind[id] = "slice" => /\ g.ptr[<<"link", id>>] \in Id
                                                 /\ g.kind[g.ptr[<<"link", id>>]] = "array"
                      /\ g.kind[id] = "module" =>
                           g.ptr[<<"word", id>>] = NIL /\ g.ptr[<<"link", id>>] = NIL
    BY DEF Shaped
  <1>1. id \in Id /\ g.kind[id] = h.kind[id] /\ id \in Live(h)
    BY DEF Touches, Live
  <1>2. /\ <<"word", id>> \in Field /\ <<"link", id>> \in Field
        /\ <<"link", id>> \in Holder
        /\ <<"word", id>>[2] = id /\ <<"link", id>>[2] = id
    BY <1>1 DEF Field, Holder
  <1>3. <<"link", id>> # dst
    BY <1>2, HoldersFinite DEF Writable
  <1>4. g.ptr[<<"link", id>>] = h.ptr[<<"link", id>>]
    BY <1>2, <1>3 DEF Touches
  <1>5. CASE g.kind[id] = "slice"
    <2>1. h.ptr[<<"link", id>>] \in Id /\ h.kind[h.ptr[<<"link", id>>]] = "array"
      BY <1>1, <1>5 DEF Shaped
    <2>2. g.ptr[<<"link", id>>] \in Live(g)
      BY <2>1, <1>2, <1>4, HoldersFinite DEF Covers
    <2>3. g.kind[h.ptr[<<"link", id>>]] \in {"array", "none"}
      BY <2>1 DEF Touches
    <2> QED
      BY <2>1, <2>2, <2>3, <1>4, <1>5 DEF Live
  <1>6. CASE g.kind[id] = "module"
    <2>1. <<"word", id>> # dst
      BY <1>1, <1>2, <1>6, HoldersFinite DEF Writable
    <2>2. g.ptr[<<"word", id>>] = h.ptr[<<"word", id>>]
      BY <2>1, <1>2 DEF Touches
    <2> QED
      BY <2>2, <1>1, <1>4, <1>6 DEF Shaped
  <1> QED
    BY <1>5, <1>6

-----------------------------------------------------------------------------
(* The operations, each with all it keeps. *)

LEMMA CountedSound ==
  ASSUME NEW h, NEW e, Sound(h, e), NEW dst, Writable(h, dst), NEW id \in Live(h) \cup {NIL}
  PROVE  LET g == Counted(h, id)
         IN  /\ Sound(g, Takes(e, id))
             /\ Touches(h, g, dst, {})
             /\ Writable(g, dst)
             /\ g.ptr = h.ptr /\ Live(g) = Live(h)
  <1>1. /\ Covers(Counted(h, id), Takes(e, id))
        /\ Counted(h, id).kind = h.kind /\ Counted(h, id).ptr = h.ptr
        /\ Counted(h, id).text = h.text
        /\ Live(Counted(h, id)) = Live(h)
    BY CountedCovers DEF Sound
  <1>2. Touches(h, Counted(h, id), dst, {})
    BY <1>1, TouchesNothing
  <1>3. Shaped(Counted(h, id))
    BY <1>1, <1>2, ShapeKept DEF Sound
  <1> QED
    BY <1>1, <1>2, <1>3 DEF Sound, Writable

\* A store leaves the old id in hand; a store to what is gone gives up the new one.
LEMMA WrittenSound ==
  ASSUME NEW h, NEW e, Sound(h, e), NEW dst, Writable(h, dst),
         NEW id \in Id \cup {NIL}, id \in Id => e[id] > 0
  PROVE  LET g == Written(h, dst, id)
         IN  /\ Sound(g, Takes(Gives(e, id), h.ptr[dst]))
             /\ Touches(h, g, dst, {})
             /\ Writable(g, dst)
             /\ g.kind = h.kind /\ g.count = h.count /\ Live(g) = Live(h)
  <1> DEFINE g == Written(h, dst, id)
             f == Takes(Gives(e, id), h.ptr[dst])
  <1>1. /\ h \in Heaps /\ e \in Hands /\ NIL \notin Id
        /\ dst \in Holder /\ id \in Live(h) \cup {NIL}
    BY HoldersFinite DEF Sound, Covers, Writable, Holder, Field
  <1>2. CASE dst \in Field /\ dst[2] \notin Live(h)
    <2>1. g = h
      BY <1>2 DEF Written
    <2>2. h.ptr[dst] = NIL
      <3>1. dst[2] \in Id /\ h.kind[dst[2]] = "none" /\ dst = <<"word", dst[2]>>
        BY <1>2, HoldersFinite DEF Writable, Live, Field
      <3> QED
        BY <3>1 DEF Sound, Covers
    <2>3. Gives(e, id) \in Hands
      BY <1>1, HandsKept
    <2>4. f = Gives(e, id)
      BY <1>1, <2>2, <2>3, HandsKept
    <2>5. \A x \in Id : Gives(e, id)[x] <= e[x]
      BY <1>1 DEF Gives, Hands
    <2>6. Covers(h, f)
      BY <2>3, <2>4, <2>5, CoversLess DEF Sound
    <2> QED
      BY <2>1, <2>6, TouchesNothing DEF Sound
  <1>3. CASE ~(dst \in Field /\ dst[2] \notin Live(h))
    <2>1. g = Put(h, dst, id)
      BY <1>3 DEF Written, Put
    <2>2. /\ Covers(g, f)
          /\ g.kind = h.kind /\ g.count = h.count /\ g.text = h.text
          /\ g.ptr = [h.ptr EXCEPT ![dst] = id] /\ Live(g) = Live(h)
      BY <2>1, <1>1, <1>3, PutCovers DEF Sound
    <2>3. Touches(h, g, dst, {})
      BY <2>2, <1>1 DEF Touches, Heaps, Holder
    <2>4. Shaped(g)
      BY <2>2, <2>3, ShapeKept DEF Sound
    <2> QED
      BY <2>2, <2>3, <2>4 DEF Sound, Writable
  <1> QED
    BY <1>2, <1>3

LEMMA ReleasedSound ==
  ASSUME NEW h, NEW e, Sound(h, e), NEW dst, Writable(h, dst), NEW id, id \in Id => e[id] > 0
  PROVE  LET g == Released(h, id)
         IN  /\ Sound(g, Gives(e, id))
             /\ Touches(h, g, dst, {})
             /\ Writable(g, dst)
  <1> DEFINE g == Released(h, id)
             gone == Doomed(h, id)
  <1>1. Covers(g, Gives(e, id))
    BY ReleasedCovers DEF Sound
  <1>2. /\ \A x \in Id : /\ g.kind[x] = IF x \in gone THEN "none" ELSE h.kind[x]
                         /\ x \notin gone => g.text[x] = h.text[x]
        /\ \A x \in Holder :
             g.ptr[x] = IF x \in {"word", "link"} \X gone THEN NIL ELSE h.ptr[x]
        /\ Live(g) = Live(h) \ gone
    BY ReleasedIs DEF Sound, Covers
  <1>3. Touches(h, g, dst, {})
    <2>1. \A x \in Place : x \notin {"word", "link"} \X gone
      BY HeapConstants DEF Place
    <2>2. \A x \in Field : x[2] \in Live(g) => x \notin {"word", "link"} \X gone
      BY <1>2
    <2> QED
      BY <1>2, <2>1, <2>2 DEF Touches, Holder, Live
  <1>4. Shaped(g)
    BY <1>1, <1>3, ShapeKept DEF Sound
  <1> QED
    BY <1>1, <1>3, <1>4, WritableKept DEF Sound

\* The word dst did not change.
SameAt(h, g, dst) == g.ptr[dst] = h.ptr[dst]

\* A new object of a shape that its kind allows.
LEMMA AllocatedSound ==
  ASSUME NEW h, NEW e, Sound(h, e), NEW dst, Writable(h, dst),
         NEW id \in Id, h.kind[id] = "none", dst \in Place \/ dst[2] # id, NEW k \in Kind,
         NEW word \in Id \cup {NIL}, NEW link \in Id \cup {NIL},
         word \in Id => e[word] > 0, link \in Id => Gives(e, word)[link] > 0,
         k = "slice" => link \in Id /\ h.kind[link] = "array",
         k = "module" => word = NIL /\ link = NIL
  PROVE  /\ Sound(Allocated(h, id, k, word, link), Takes(Gives(Gives(e, word), link), id))
         /\ Touches(h, Allocated(h, id, k, word, link), dst, {id})
         /\ Writable(Allocated(h, id, k, word, link), dst)
         /\ SameAt(h, Allocated(h, id, k, word, link), dst)
  <1> DEFINE g == Allocated(h, id, k, word, link)
  <1>1. /\ h \in Heaps /\ e \in Hands /\ NIL \notin Id /\ Place \cap Field = {}
        /\ dst \in Holder /\ id \notin Live(h)
        /\ word \in Live(h) \cup {NIL}
    BY HoldersFinite DEF Sound, Covers, Writable, Holder, Field, Live
  <1>2. link \in Live(h) \cup {NIL}
    <2>1. link \in Id => e[link] > 0
      BY <1>1 DEF Gives, Hands
    <2> QED
      BY <2>1 DEF Sound, Covers
  <1> HIDE DEF g
  <1>3. /\ Covers(g, Takes(Gives(Gives(e, word), link), id))
        /\ g.kind = [h.kind EXCEPT ![id] = k]
        /\ \A x \in Holder : g.ptr[x] =
             IF x = <<"word", id>> THEN word ELSE IF x = <<"link", id>> THEN link ELSE h.ptr[x]
        /\ g.text = h.text
        /\ Live(g) = Live(h) \cup {id}
    BY <1>1, <1>2, AllocatedCovers DEF g, Sound
  <1>4. /\ \A x \in Holder : x # <<"word", id>> /\ x # <<"link", id>> => g.ptr[x] = h.ptr[x]
        /\ \A x \in Id : x # id => g.kind[x] = h.kind[x]
        /\ g.kind[id] = k
        /\ g.ptr[<<"word", id>>] = word /\ g.ptr[<<"link", id>>] = link
    <2>1. <<"word", id>> \in Holder /\ <<"link", id>> \in Holder
      BY DEF Holder, Field
    <2> QED
      BY <2>1, <1>1, <1>3 DEF Heaps
  <1>5. dst # <<"word", id>> /\ dst # <<"link", id>>
    <2>1. <<"word", id>> \in Field /\ <<"link", id>> \in Field
      BY DEF Field
    <2> QED
      BY <2>1, <1>1
  <1>6. Touches(h, g, dst, {id})
    <2>1. \A x \in Place : x # <<"word", id>> /\ x # <<"link", id>>
      BY <1>1 DEF Field
    <2>2. \A x \in Field : x[2] # id => x # <<"word", id>> /\ x # <<"link", id>>
      OBVIOUS
    <2> QED
      BY <2>1, <2>2, <1>3, <1>4 DEF Touches, Holder
  <1>7. Shaped(g)
    <2> SUFFICES ASSUME NEW x \in Live(g)
                 PROVE  /\ g.kind[x] = "slice" => /\ g.ptr[<<"link", x>>] \in Id
                                                  /\ g.kind[g.ptr[<<"link", x>>]] = "array"
                        /\ g.kind[x] = "module" =>
                             g.ptr[<<"word", x>>] = NIL /\ g.ptr[<<"link", x>>] = NIL
      BY DEF Shaped
    <2>1. CASE x = id
      BY <2>1, <1>1, <1>4 DEF Live
    <2>2. CASE x # id
      <3>1. x \in Live(h) /\ x \in Id /\ g.kind[x] = h.kind[x]
        BY <2>2, <1>3, <1>4 DEF Live
      <3>2. /\ <<"word", x>> \in Holder /\ <<"link", x>> \in Holder
            /\ g.ptr[<<"word", x>>] = h.ptr[<<"word", x>>]
            /\ g.ptr[<<"link", x>>] = h.ptr[<<"link", x>>]
        BY <3>1, <2>2, <1>4 DEF Holder, Field
      <3>3. h.kind[x] = "slice" => h.ptr[<<"link", x>>] \in Id /\ h.ptr[<<"link", x>>] # id
                                   /\ h.kind[h.ptr[<<"link", x>>]] = "array"
        BY <3>1 DEF Sound, Shaped
      <3> QED
        BY <3>1, <3>2, <3>3, <1>4 DEF Sound, Shaped
    <2> QED
      BY <2>1, <2>2
  <1>8. Writable(g, dst)
    BY <1>6, WritableKept
  <1>9. Sound(g, Takes(Gives(Gives(e, word), link), id)) /\ g.ptr[dst] = h.ptr[dst]
    BY <1>1, <1>3, <1>4, <1>5, <1>7 DEF Sound
  <1> QED
    BY <1>3, <1>6, <1>8, <1>9 DEF g, SameAt

\* Contents of a string are nobody's reference.
LEMMA TextSound ==
  ASSUME NEW h, NEW e, Sound(h, e), NEW dst, NEW id \in Id, NEW t \in Text
  PROVE  LET g == [h EXCEPT !.text[id] = t]
         IN  /\ Sound(g, e)
             /\ Touches(h, g, dst, {id})
             /\ g.kind = h.kind /\ g.ptr = h.ptr /\ g.count = h.count
  <1> DEFINE g == [h EXCEPT !.text[id] = t]
  <1>1. h \in Heaps
    BY DEF Sound, Covers
  <1>2. /\ g.kind = h.kind /\ g.ptr = h.ptr /\ g.count = h.count /\ g \in Heaps
        /\ g.text = [h.text EXCEPT ![id] = t]
    BY <1>1 DEF Heaps
  <1> HIDE DEF g
  <1>3. Live(g) = Live(h) /\ \A x : HoldersOf(g, x) = HoldersOf(h, x)
    BY <1>2 DEF Live, HoldersOf
  <1>4. Covers(g, e) /\ Shaped(g)
    BY <1>2, <1>3 DEF Sound, Covers, Shaped, Owned
  <1>5. Touches(h, g, dst, {id})
    BY <1>1, <1>2 DEF Touches, Heaps, Live
  <1>6. Sound(g, e)
    BY <1>4 DEF Sound
  <1> QED
    BY <1>2, <1>5, <1>6 DEF g

-----------------------------------------------------------------------------
(* Stores that release first: the word that is about to be overwritten still names *)
(* what may be freed. They end where the orderly sequence ends.                    *)

SameBut(h, g, dst) ==
  /\ h \in Heaps /\ g \in Heaps
  /\ h.kind = g.kind /\ h.count = g.count /\ h.text = g.text
  /\ \A x \in Holder \ {dst} : h.ptr[x] = g.ptr[x]

\* dec_ref looks at no word but the links.
LEMMA DoomedSame ==
  ASSUME NEW h, NEW g, NEW dst, SameBut(h, g, dst), dst \notin {"link"} \X Id, NEW id
  PROVE  Doomed(h, id) = Doomed(g, id) /\ \A x \in Id : Cascade(h, x) = Cascade(g, x)
  <1>1. \A x \in Id : <<"link", x>> \in Holder \ {dst}
    BY DEF Holder, Field
  <1>2. \A x \in Id : Cascade(h, x) = Cascade(g, x)
    BY <1>1 DEF Cascade, SameBut
  <1>3. Live(h) = Live(g) /\ Live(h) \subseteq Id
    BY DEF Live, SameBut
  <1>4. \A x : Permanent(h, x) <=> Permanent(g, x)
    BY DEF Permanent, SameBut
  <1> DEFINE dying == {x \in Live(h) : h.count[x] <= 1 /\ ~Permanent(h, x)}
             other == {x \in Live(g) : g.count[x] <= 1 /\ ~Permanent(g, x)}
             closed(ids) == /\ {id} \cap dying \subseteq ids
                            /\ \A x \in ids : Cascade(h, x) \cap dying \subseteq ids
             shut(ids) == /\ {id} \cap dying \subseteq ids
                          /\ \A x \in ids : Cascade(g, x) \cap dying \subseteq ids
  <1>5. dying = other /\ dying \subseteq Id
    BY <1>3, <1>4 DEF SameBut
  <1>6. Doomed(h, id) = {x \in dying : \A ids \in SUBSET dying : closed(ids) => x \in ids}
    BY DEF Doomed
  <1>7. Doomed(g, id) = {x \in dying : \A ids \in SUBSET dying : shut(ids) => x \in ids}
    BY <1>5 DEF Doomed
  <1> HIDE DEF dying
  <1>8. \A ids \in SUBSET dying : closed(ids) <=> shut(ids)
    BY <1>2, <1>5
  <1> HIDE DEF closed, shut
  <1> QED
    BY <1>2, <1>6, <1>7, <1>8

LEMMA ReleasedSame ==
  ASSUME NEW h, NEW g, NEW dst, SameBut(h, g, dst), dst \notin {"link"} \X Id, NEW id
  PROVE  /\ SameBut(Released(h, id), Released(g, id), dst)
         /\ \A x \in Id : x \in Live(h) /\ x \notin Live(Released(h, id)) =>
              \A w \in {"word", "link"} :
                Released(h, id).ptr[<<w, x>>] = NIL /\ Released(g, id).ptr[<<w, x>>] = NIL
  <1> DEFINE gone == Doomed(h, id)
             hit == ({id} \cup UNION {Cascade(h, x) : x \in gone}) \cap (Live(h) \ gone)
             hit2 == ({id} \cup UNION {Cascade(g, x) : x \in Doomed(g, id)})
                       \cap (Live(g) \ Doomed(g, id))
             r == Released(h, id)
             s == Released(g, id)
  <1>1. h \in Heaps /\ g \in Heaps
    BY DEF SameBut
  <1>2. Doomed(g, id) = gone /\ gone \subseteq Id
    BY DoomedSame, DoomedFacts DEF Live
  <1>3. hit2 = hit
    BY <1>2, DoomedSame DEF SameBut, Live
  <1>4. /\ r \in Heaps
        /\ \A x \in Id : /\ r.kind[x] = IF x \in gone THEN "none" ELSE h.kind[x]
                         /\ r.count[x] = IF x \in gone THEN 0
                                         ELSE IF x \in hit /\ h.count[x] > 0
                                              THEN h.count[x] - 1 ELSE h.count[x]
                         /\ r.text[x] = IF x \in gone THEN Blank ELSE h.text[x]
        /\ \A x \in Holder :
             r.ptr[x] = IF x \in {"word", "link"} \X gone THEN NIL ELSE h.ptr[x]
        /\ Live(r) = Live(h) \ gone
    BY <1>1, ReleasedIs
  <1>5. /\ s \in Heaps
        /\ \A x \in Id : /\ s.kind[x] = IF x \in Doomed(g, id) THEN "none" ELSE g.kind[x]
                         /\ s.count[x] = IF x \in Doomed(g, id) THEN 0
                                         ELSE IF x \in hit2 /\ g.count[x] > 0
                                              THEN g.count[x] - 1 ELSE g.count[x]
                         /\ s.text[x] = IF x \in Doomed(g, id) THEN Blank ELSE g.text[x]
        /\ \A x \in Holder :
             s.ptr[x] = IF x \in {"word", "link"} \X Doomed(g, id) THEN NIL ELSE g.ptr[x]
    BY <1>1, ReleasedIs
  <1> HIDE DEF gone, hit, hit2, r, s
  <1>6. r.kind = s.kind /\ r.count = s.count /\ r.text = s.text
    BY <1>2, <1>3, <1>4, <1>5 DEF SameBut, Heaps
  <1>7. \A x \in Holder \ {dst} : r.ptr[x] = s.ptr[x]
    BY <1>2, <1>4, <1>5 DEF SameBut
  <1>8. SameBut(r, s, dst)
    BY <1>4, <1>5, <1>6, <1>7 DEF SameBut
  <1>9. ASSUME NEW x \in Id, x \in Live(h), x \notin Live(r), NEW w \in {"word", "link"}
        PROVE  r.ptr[<<w, x>>] = NIL /\ s.ptr[<<w, x>>] = NIL
    BY <1>2, <1>4, <1>5, <1>9 DEF Holder, Field
  <1> QED
    BY <1>8, <1>9 DEF r, s

\* A store to dst makes them the same.
LEMMA WrittenSame ==
  ASSUME NEW h, NEW g, NEW dst \in Holder, SameBut(h, g, dst), NEW id,
         dst \in Field /\ dst[2] \notin Live(h) => h.ptr[dst] = g.ptr[dst]
  PROVE  Written(h, dst, id) = Written(g, dst, id)
  <1>1. Live(h) = Live(g)
    BY DEF SameBut, Live
  <1>2. CASE dst \in Field /\ dst[2] \notin Live(h)
    <2>1. h.ptr = g.ptr
      BY <1>2 DEF SameBut, Heaps
    <2>2. h = g
      BY <2>1 DEF SameBut, Heaps
    <2> QED
      BY <2>2
  <1>3. CASE ~(dst \in Field /\ dst[2] \notin Live(h))
    <2>1. [h.ptr EXCEPT ![dst] = id] = [g.ptr EXCEPT ![dst] = id]
      BY DEF SameBut, Heaps
    <2>2. [h EXCEPT !.ptr[dst] = id] = [g EXCEPT !.ptr[dst] = id]
      BY <2>1 DEF SameBut, Heaps
    <2> QED
      BY <2>2, <1>1, <1>3 DEF Written
  <1> QED
    BY <1>2, <1>3

-----------------------------------------------------------------------------
(* The opcodes: from what is in hand before to what is in hand after. *)

\* move_ptr_to_dst.
LEMMA MovedSound ==
  ASSUME NEW h, NEW e, Sound(h, e), NEW dst, Writable(h, dst), NEW id \in Live(h) \cup {NIL}
  PROVE  Sound(Moved(h, dst, id), e) /\ Touches(h, Moved(h, dst, id), dst, {})
  <1> DEFINE a == Counted(h, id)
             b == Written(a, dst, id)
             c == Released(b, h.ptr[dst])
             old == h.ptr[dst]
  <1>1. e \in Hands /\ NIL \notin Id /\ id \in Id \cup {NIL}
    BY HoldersFinite DEF Sound, Covers, Live
  <1>2. /\ Sound(a, Takes(e, id)) /\ Touches(h, a, dst, {}) /\ Writable(a, dst)
        /\ a.ptr = h.ptr
    BY CountedSound
  <1>3. id \in Id => Takes(e, id)[id] > 0
    BY <1>1 DEF Takes, Hands
  <1>4. /\ Sound(b, Takes(Gives(Takes(e, id), id), a.ptr[dst]))
        /\ Touches(a, b, dst, {}) /\ Writable(b, dst)
    BY <1>1, <1>2, <1>3, WrittenSound
  <1>5. Sound(b, Takes(e, old))
    BY <1>1, <1>2, <1>4, HandsKept
  <1>6. old \in Id => Takes(e, old)[old] > 0
    BY <1>1 DEF Takes, Hands
  <1>7. Sound(c, Gives(Takes(e, old), old)) /\ Touches(b, c, dst, {})
    BY <1>4, <1>5, <1>6, ReleasedSound
  <1>8. Sound(c, e)
    BY <1>1, <1>7, HandsKept
  <1>9. Touches(h, c, dst, {})
    <2>1. Touches(h, b, dst, {})
      BY <1>2, <1>4, TouchesBoth
    <2> QED
      BY <2>1, <1>7, TouchesBoth
  <1> QED
    BY <1>8, <1>9 DEF Moved

\* Where dst was emptied first, the store takes what is in hand and leaves nothing.
LEMMA RefilledSound ==
  ASSUME NEW h, NEW e, Sound(h, e), NEW dst, Writable(h, dst), h.ptr[dst] = NIL,
         NEW id \in Id \cup {NIL}, id \in Id => e[id] > 0
  PROVE  /\ Sound(Written(h, dst, id), Gives(e, id))
         /\ Touches(h, Written(h, dst, id), dst, {})
  <1>1. e \in Hands /\ NIL \notin Id
    BY HoldersFinite DEF Sound, Covers
  <1>2. /\ Sound(Written(h, dst, id), Takes(Gives(e, id), h.ptr[dst]))
        /\ Touches(h, Written(h, dst, id), dst, {})
    BY WrittenSound
  <1>3. Takes(Gives(e, id), NIL) = Gives(e, id)
    BY <1>1, HandsKept
  <1> QED
    BY <1>2, <1>3

\* dst is emptied, and what it named released: the same heap but for dst as when it is
\* released while dst still names it.
LEMMA EmptiedSound ==
  ASSUME NEW h, NEW e, Sound(h, e), NEW dst, Writable(h, dst)
  PROVE  LET g == Released(Written(h, dst, NIL), h.ptr[dst])
         IN  /\ Sound(g, e) /\ Touches(h, g, dst, {}) /\ Writable(g, dst)
             /\ g.ptr[dst] = NIL
             /\ SameBut(Released(h, h.ptr[dst]), g, dst)
             /\ LET r == Released(h, h.ptr[dst])
                IN  dst \in Field /\ dst[2] \notin Live(r) => r.ptr[dst] = g.ptr[dst]
  <1> DEFINE a == Written(h, dst, NIL)
             old == h.ptr[dst]
             g == Released(a, old)
             r == Released(h, old)
  <1>1. /\ e \in Hands /\ NIL \notin Id /\ h \in Heaps /\ dst \in Holder
        /\ Place \cap Field = {}
    BY HoldersFinite DEF Sound, Covers, Writable, Holder, Field
  <1>2. /\ Sound(a, Takes(Gives(e, NIL), old)) /\ Touches(h, a, dst, {}) /\ Writable(a, dst)
        /\ a.kind = h.kind /\ a.count = h.count /\ Live(a) = Live(h)
    BY <1>1, WrittenSound
  <1>3. Sound(a, Takes(e, old))
    BY <1>1, <1>2, HandsKept
  <1>4. old \in Id => Takes(e, old)[old] > 0
    BY <1>1 DEF Takes, Hands
  <1>5. Sound(g, Gives(Takes(e, old), old)) /\ Touches(a, g, dst, {}) /\ Writable(g, dst)
    BY <1>2, <1>3, <1>4, ReleasedSound
  <1>6. Sound(g, e) /\ Touches(h, g, dst, {})
    BY <1>1, <1>2, <1>5, HandsKept, TouchesBoth
  <1>7. dst \in Field => dst = <<"word", dst[2]>> /\ dst[2] \in Id
    BY <1>1 DEF Writable, Field
  <1>8. a.ptr[dst] = NIL
    <2>1. CASE dst \in Field /\ dst[2] \notin Live(h)
      <3>1. h.kind[dst[2]] = "none" /\ dst[2] \in Id
        BY <2>1, <1>7 DEF Live
      <3>2. h.ptr[<<"word", dst[2]>>] = NIL
        BY <3>1 DEF Sound, Covers
      <3> QED
        BY <3>2, <2>1, <1>7 DEF Written
    <2>2. CASE ~(dst \in Field /\ dst[2] \notin Live(h))
      BY <2>2, <1>1 DEF Written, Heaps
    <2> QED
      BY <2>1, <2>2
  <1>9. SameBut(h, a, dst)
    <2>1. a \in Heaps
      BY <1>2 DEF Sound, Covers
    <2>2. a.text = h.text /\ \A x \in Holder \ {dst} : h.ptr[x] = a.ptr[x]
      BY <1>1 DEF Written, Heaps
    <2> QED
      BY <2>1, <2>2, <1>1, <1>2 DEF SameBut
  <1>10. dst \notin {"link"} \X Id
    BY <1>1, HeapConstants DEF Writable, Place
  <1>11. /\ SameBut(r, g, dst)
         /\ \A x \in Id : x \in Live(h) /\ x \notin Live(r) =>
              \A w \in {"word", "link"} : r.ptr[<<w, x>>] = NIL /\ g.ptr[<<w, x>>] = NIL
    BY <1>9, <1>10, ReleasedSame
  <1>12. /\ \A x \in Holder :
              g.ptr[x] = IF x \in {"word", "link"} \X Doomed(a, old) THEN NIL ELSE a.ptr[x]
         /\ \A x \in Holder :
              r.ptr[x] = IF x \in {"word", "link"} \X Doomed(h, old) THEN NIL ELSE h.ptr[x]
    BY <1>1, <1>9, ReleasedIs DEF SameBut
  <1>13. g.ptr[dst] = NIL
    BY <1>1, <1>8, <1>12
  <1>14. ASSUME dst \in Field, dst[2] \notin Live(r) PROVE r.ptr[dst] = NIL
    <2>1. CASE dst[2] \in Live(h)
      BY <2>1, <1>7, <1>11, <1>14
    <2>2. CASE dst[2] \notin Live(h)
      <3>1. h.ptr[<<"word", dst[2]>>] = NIL
        BY <2>2, <1>7, <1>14 DEF Sound, Covers, Live
      <3> QED
        BY <3>1, <1>1, <1>7, <1>12, <1>14
    <2> QED
      BY <2>1, <2>2
  <1> QED
    BY <1>5, <1>6, <1>11, <1>13, <1>14

\* movmp, headmp.
LEMMA ReplacedSound ==
  ASSUME NEW h, NEW e, Sound(h, e), NEW dst, Writable(h, dst), NEW id \in Live(h) \cup {NIL}
  PROVE  Sound(Replaced(h, dst, id), e) /\ Touches(h, Replaced(h, dst, id), dst, {})
  <1> DEFINE a == Counted(h, id)
             old == h.ptr[dst]
             g == Released(Written(a, dst, NIL), old)
             r == Released(a, old)
  <1>1. e \in Hands /\ NIL \notin Id /\ id \in Id \cup {NIL} /\ dst \in Holder
    BY HoldersFinite DEF Sound, Covers, Live, Writable, Holder, Field
  <1>2. /\ Sound(a, Takes(e, id)) /\ Touches(h, a, dst, {}) /\ Writable(a, dst)
        /\ a.ptr = h.ptr
    BY CountedSound
  <1>3. /\ Sound(g, Takes(e, id)) /\ Touches(a, g, dst, {}) /\ Writable(g, dst)
        /\ g.ptr[dst] = NIL
        /\ SameBut(r, g, dst)
        /\ dst \in Field /\ dst[2] \notin Live(r) => r.ptr[dst] = g.ptr[dst]
    BY <1>2, EmptiedSound
  <1>4. id \in Id => Takes(e, id)[id] > 0
    BY <1>1 DEF Takes, Hands
  <1> HIDE DEF g, r
  <1>5. /\ Sound(Written(g, dst, id), Gives(Takes(e, id), id))
        /\ Touches(g, Written(g, dst, id), dst, {})
    BY <1>1, <1>3, <1>4, RefilledSound
  <1>6. Written(g, dst, id) = Replaced(h, dst, id)
    <2>1. Written(r, dst, id) = Written(g, dst, id)
      BY <1>1, <1>3, WrittenSame
    <2> QED
      BY <2>1 DEF Replaced, r
  <1>7. Gives(Takes(e, id), id) = e
    BY <1>1, HandsKept
  <1>8. Touches(h, Written(g, dst, id), dst, {})
    <2>1. Touches(h, g, dst, {})
      BY <1>2, <1>3, TouchesBoth
    <2> QED
      BY <2>1, <1>5, TouchesBoth
  <1> QED
    BY <1>5, <1>6, <1>7, <1>8

\* An id is written into dst in place of what was there, which is released: the second half
\* of every opcode that makes an object.
LEMMA InstalledSound ==
  ASSUME NEW h, NEW e, Sound(h, e), NEW dst, Writable(h, dst),
         NEW id \in Id \cup {NIL}, id \in Id => e[id] > 0
  PROVE  LET g == Released(Written(h, dst, id), h.ptr[dst])
         IN  Sound(g, Gives(e, id)) /\ Touches(h, g, dst, {})
  <1> DEFINE a == Written(h, dst, id)
             old == h.ptr[dst]
             g == Released(a, old)
  <1>1. e \in Hands /\ Gives(e, id) \in Hands
    BY HandsKept DEF Sound, Covers
  <1>2. /\ Sound(a, Takes(Gives(e, id), old)) /\ Touches(h, a, dst, {}) /\ Writable(a, dst)
    BY WrittenSound
  <1>3. old \in Id => Takes(Gives(e, id), old)[old] > 0
    BY <1>1 DEF Takes, Hands
  <1>4. Sound(g, Gives(Takes(Gives(e, id), old), old)) /\ Touches(a, g, dst, {})
    BY <1>2, <1>3, ReleasedSound
  <1>5. Gives(Takes(Gives(e, id), old), old) = Gives(e, id)
    BY <1>1, HandsKept
  <1> QED
    BY <1>2, <1>4, <1>5, TouchesBoth

\* new: the move counts the object a second time, and the first count stays in hand.
LEMMA NewSound ==
  ASSUME NEW h, NEW e, Sound(h, e), NEW dst, Writable(h, dst),
         NEW id \in Id, h.kind[id] = "none", dst \in Place \/ dst[2] # id,
         NEW k \in Kind, k # "slice"
  PROVE  LET g == Moved(Allocated(h, id, k, NIL, NIL), dst, id)
         IN  Sound(g, e) /\ Touches(h, g, dst, {id})
  <1> DEFINE a == Allocated(h, id, k, NIL, NIL)
             g == Moved(a, dst, id)
  <1>1. e \in Hands /\ NIL \notin Id
    BY HoldersFinite DEF Sound, Covers
  <1>2. Gives(Gives(e, NIL), NIL) = e
    BY <1>1, HandsKept
  <1>3. /\ Sound(a, Takes(Gives(Gives(e, NIL), NIL), id))
        /\ Touches(h, a, dst, {id}) /\ Writable(a, dst)
    BY <1>1, AllocatedSound
  <1>4. Sound(a, Takes(e, id))
    BY <1>2, <1>3
  <1>5. id \in Live(a)
    <2>1. Takes(e, id)[id] > 0
      BY <1>1 DEF Takes, Hands
    <2> QED
      BY <2>1, <1>4 DEF Sound, Covers
  <1>6. Sound(g, Takes(e, id)) /\ Touches(a, g, dst, {})
    BY <1>3, <1>4, <1>5, MovedSound
  <1>7. Sound(g, e)
    <2>1. \A x \in Id : e[x] <= Takes(e, id)[x]
      BY <1>1 DEF Takes, Hands
    <2> QED
      BY <2>1, <1>1, <1>6, CoversLess DEF Sound
  <1>8. Touches(h, g, dst, {id})
    <2>1. Touches(a, g, dst, {id})
      BY <1>6, TouchesMore
    <2> QED
      BY <2>1, <1>3, TouchesBoth
  <1> QED
    BY <1>7, <1>8

\* cons_bytes: the head, already in hand, goes into the node.
LEMMA ConsedSound ==
  ASSUME NEW h, NEW e, Sound(h, e), NEW dst, Writable(h, dst),
         NEW id \in Id, h.kind[id] = "none", dst \in Place \/ dst[2] # id,
         NEW word \in Id \cup {NIL}, word \in Id => e[word] > 0
  PROVE  Sound(Consed(h, id, word, dst), Gives(e, word))
         /\ Touches(h, Consed(h, id, word, dst), dst, {id})
  <1> DEFINE tail == h.ptr[dst]
             a == Counted(h, tail)
             c == Takes(e, tail)
             b == Allocated(a, id, "list", word, tail)
             g == Released(Written(b, dst, id), b.ptr[dst])
             f == Takes(Gives(Gives(c, word), tail), id)
  <1>1. /\ e \in Hands /\ NIL \notin Id /\ tail \in Live(h) \cup {NIL}
        /\ tail \in Id \cup {NIL} /\ dst \in Holder
    BY HoldersFinite DEF Sound, Covers, Writable, Holder, Field, Live
  <1>2. /\ Sound(a, c) /\ Touches(h, a, dst, {}) /\ Writable(a, dst)
        /\ a.ptr = h.ptr /\ Live(a) = Live(h)
    BY <1>1, CountedSound
  <1>3. a.kind[id] = "none"
    BY <1>2 DEF Live
  <1>4. /\ word \in Id => c[word] > 0
        /\ tail \in Id => Gives(c, word)[tail] > 0
    BY <1>1 DEF Takes, Gives, Hands
  <1>5. "list" \in Kind /\ "list" # "slice" /\ "list" # "module"
    BY DEF Kind
  <1> HIDE DEF a, tail, b, c, f
  <1>6. /\ Sound(b, f) /\ Touches(a, b, dst, {id}) /\ Writable(b, dst)
        /\ b.ptr[dst] = a.ptr[dst]
    <2>1. Sound(a, c) /\ Writable(a, dst) /\ a.kind[id] = "none"
      BY <1>2, <1>3
    <2> DEFINE k == "list"
    <2>2. k \in Kind /\ k # "slice" /\ k # "module"
      BY <1>5
    <2>3. b = Allocated(a, id, k, word, tail)
      BY DEF b
    <2> HIDE DEF k
    <2>4. tail \in Id \cup {NIL}
      BY <1>1
    <2>5. /\ Sound(Allocated(a, id, k, word, tail), Takes(Gives(Gives(c, word), tail), id))
          /\ Touches(a, Allocated(a, id, k, word, tail), dst, {id})
          /\ Writable(Allocated(a, id, k, word, tail), dst)
          /\ SameAt(a, Allocated(a, id, k, word, tail), dst)
      BY <2>1, <2>2, <2>4, <1>4, AllocatedSound
    <2> QED
      BY <2>3, <2>5 DEF f, SameAt
  <1>7. f[id] > 0
    <2>1. c \in Hands /\ Gives(c, word) \in Hands /\ Gives(Gives(c, word), tail) \in Hands
      BY <1>1, <1>4, HandsKept DEF c
    <2> QED
      BY <2>1 DEF Takes, Hands, f
  <1>8. Sound(g, Gives(f, id)) /\ Touches(b, g, dst, {})
    BY <1>6, <1>7, InstalledSound
  <1>9. Gives(f, id) = Gives(e, word)
    BY <1>1 DEF Takes, Gives, Hands, f, c
  <1>10. g = Consed(h, id, word, dst)
    BY <1>2, <1>6 DEF Consed, a, b, tail
  <1>11. Touches(h, g, dst, {id})
    <2>1. Touches(h, a, dst, {id}) /\ Touches(b, g, dst, {id})
      BY <1>2, <1>8, TouchesMore
    <2>2. Touches(h, b, dst, {id})
      BY <2>1, <1>6, TouchesBoth
    <2> QED
      BY <2>1, <2>2, TouchesBoth
  <1> QED
    BY <1>8, <1>9, <1>10, <1>11

\* To count a reference that a new object got is to count it before.
LEMMA CountedLater ==
  ASSUME NEW h \in Heaps, NEW id \in Id, h.kind[id] = "none", NEW k \in Kind,
         NEW link \in Live(h)
  PROVE  Counted(Allocated(h, id, k, NIL, link), link)
           = Allocated(Counted(h, link), id, k, NIL, link)
  <1> DEFINE a == Allocated(h, id, k, NIL, link)
             b == Counted(h, link)
  <1>1. link \in Id /\ link # id /\ k # "none"
    BY DEF Live, Kind
  <1>2. a.kind = [h.kind EXCEPT ![id] = k] /\ a.count = [h.count EXCEPT ![id] = 1]
    BY DEF Allocated, Heaps
  <1>3. link \in Live(a)
    BY <1>1, <1>2 DEF Live, Heaps
  <1>4. Counted(a, link) = [a EXCEPT !.count[link] = @ + 1]
    BY <1>3 DEF Counted
  <1>5. b = [h EXCEPT !.count[link] = @ + 1]
    BY DEF Counted
  <1>6. [[h.count EXCEPT ![id] = 1] EXCEPT ![link] = @ + 1]
          = [[h.count EXCEPT ![link] = @ + 1] EXCEPT ![id] = 1]
    BY <1>1 DEF Heaps
  <1>7. [a EXCEPT !.count[link] = @ + 1] = Allocated(b, id, k, NIL, link)
    BY <1>1, <1>5, <1>6 DEF Allocated, Heaps
  <1> QED
    BY <1>4, <1>7

\* slicea: the slice takes a reference to the root array.
LEMMA SlicedSound ==
  ASSUME NEW h, NEW e, Sound(h, e), NEW dst, Writable(h, dst),
         NEW id \in Id, h.kind[id] = "none", dst \in Place \/ dst[2] # id,
         Root(h, h.ptr[dst]) \in Id, h.kind[Root(h, h.ptr[dst])] = "array"
  PROVE  Sound(Sliced(h, id, dst), e) /\ Touches(h, Sliced(h, id, dst), dst, {id})
  <1> DEFINE root == Root(h, h.ptr[dst])
             a == Counted(h, root)
             b == Allocated(a, id, "slice", NIL, root)
             g == Released(Written(b, dst, id), b.ptr[dst])
             f == Takes(Gives(Gives(Takes(e, root), NIL), root), id)
  <1>1. /\ e \in Hands /\ NIL \notin Id /\ h \in Heaps
        /\ root \in Live(h) /\ root \in Id
    BY HoldersFinite DEF Sound, Covers, Live
  <1>2. /\ Sound(a, Takes(e, root)) /\ Touches(h, a, dst, {}) /\ Writable(a, dst)
        /\ a.ptr = h.ptr /\ Live(a) = Live(h)
    BY <1>1, CountedSound
  <1>3. a.kind[id] = "none" /\ a.kind[root] = "array"
    <2>1. a.kind = h.kind
      BY <1>1, CountedCovers DEF Sound
    <2> QED
      BY <2>1
  <1>4. Gives(Takes(e, root), NIL) = Takes(e, root)
    BY <1>1, HandsKept
  <1>5. Gives(Takes(e, root), NIL)[root] > 0
    BY <1>1, <1>4 DEF Takes, Hands
  <1>6. "slice" \in Kind /\ "slice" # "module"
    BY DEF Kind
  <1> HIDE DEF a, root, b, f
  <1>7. /\ Sound(b, f) /\ Touches(a, b, dst, {id}) /\ Writable(b, dst)
        /\ b.ptr[dst] = a.ptr[dst]
    BY <1>1, <1>2, <1>3, <1>5, <1>6, AllocatedSound DEF b, f, SameAt
  <1>8. f = Takes(e, id)
    BY <1>1, <1>4, HandsKept DEF f
  <1>9. f[id] > 0
    BY <1>1, <1>8 DEF Takes, Hands
  <1>10. b = Counted(Allocated(h, id, "slice", NIL, root), root)
    BY <1>1, <1>6, CountedLater DEF a, b
  <1>11. Sound(g, Gives(f, id)) /\ Touches(b, g, dst, {})
    BY <1>7, <1>9, InstalledSound
  <1>12. Gives(f, id) = e
    BY <1>1, <1>8, HandsKept
  <1>13. g = Sliced(h, id, dst)
    BY <1>2, <1>7, <1>10 DEF Sliced, root
  <1>14. Touches(h, g, dst, {id})
    <2>1. Touches(h, a, dst, {id}) /\ Touches(b, g, dst, {id})
      BY <1>2, <1>11, TouchesMore
    <2>2. Touches(h, b, dst, {id})
      BY <2>1, <1>7, TouchesBoth
    <2> QED
      BY <2>1, <2>2, TouchesBoth
  <1> QED
    BY <1>11, <1>12, <1>13, <1>14

\* A new string in hand, before dst has it.
Stringed(h, id, t) == [Allocated(h, id, "string", NIL, NIL) EXCEPT !.text[id] = t]

LEMMA StringedSound ==
  ASSUME NEW h, NEW e, Sound(h, e), NEW dst, Writable(h, dst),
         NEW id \in Id, h.kind[id] = "none", dst \in Place \/ dst[2] # id, NEW t \in Text
  PROVE  /\ Sound(Stringed(h, id, t), Takes(e, id))
         /\ Touches(h, Stringed(h, id, t), dst, {id})
         /\ Writable(Stringed(h, id, t), dst)
         /\ SameAt(h, Stringed(h, id, t), dst)
  <1> DEFINE a == Allocated(h, id, "string", NIL, NIL)
             g == Stringed(h, id, t)
  <1>1. e \in Hands /\ NIL \notin Id
    BY HoldersFinite DEF Sound, Covers
  <1>2. Gives(Gives(e, NIL), NIL) = e
    BY <1>1, HandsKept
  <1>3. "string" \in Kind /\ "string" # "slice" /\ "string" # "module"
    BY DEF Kind
  <1> HIDE DEF a, g
  <1>4. /\ Sound(a, Takes(Gives(Gives(e, NIL), NIL), id))
        /\ Touches(h, a, dst, {id}) /\ Writable(a, dst) /\ SameAt(h, a, dst)
    BY <1>1, <1>3, AllocatedSound DEF a
  <1>5. Sound(a, Takes(e, id))
    BY <1>2, <1>4
  <1>6. /\ Sound(g, Takes(e, id)) /\ Touches(a, g, dst, {id})
        /\ g.kind = a.kind /\ g.ptr = a.ptr
    BY <1>5, TextSound DEF g, a, Stringed
  <1>7. Touches(h, g, dst, {id})
    BY <1>4, <1>6, TouchesBoth
  <1> QED
    BY <1>4, <1>6, <1>7 DEF g, SameAt, Writable

\* addc, slicec.
LEMMA NewStringSound ==
  ASSUME NEW h, NEW e, Sound(h, e), NEW dst, Writable(h, dst),
         NEW id \in Id, h.kind[id] = "none", dst \in Place \/ dst[2] # id, NEW t \in Text
  PROVE  LET g == Released(Written(Stringed(h, id, t), dst, id), h.ptr[dst])
         IN  Sound(g, e) /\ Touches(h, g, dst, {id})
  <1> DEFINE a == Stringed(h, id, t)
             g == Released(Written(a, dst, id), a.ptr[dst])
  <1>1. e \in Hands
    BY DEF Sound, Covers
  <1>2. /\ Sound(a, Takes(e, id)) /\ Touches(h, a, dst, {id}) /\ Writable(a, dst)
        /\ a.ptr[dst] = h.ptr[dst]
    BY StringedSound DEF SameAt
  <1>3. Takes(e, id)[id] > 0
    BY <1>1 DEF Takes, Hands
  <1> HIDE DEF a
  <1>4. Sound(g, Gives(Takes(e, id), id)) /\ Touches(a, g, dst, {})
    BY <1>2, <1>3, InstalledSound
  <1>5. Sound(g, e)
    BY <1>1, <1>4, HandsKept
  <1>6. Touches(h, g, dst, {id})
    <2>1. Touches(a, g, dst, {id})
      BY <1>4, TouchesMore
    <2> QED
      BY <2>1, <1>2, TouchesBoth
  <1> QED
    BY <1>2, <1>5, <1>6 DEF a

LEMMA StringedSame ==
  ASSUME NEW h, NEW g, NEW dst, SameBut(h, g, dst), NEW id \in Id, NEW t \in Text
  PROVE  SameBut(Stringed(h, id, t), Stringed(g, id, t), dst)
  <1> DEFINE r == Stringed(h, id, t)
             s == Stringed(g, id, t)
  <1>1. h \in Heaps /\ g \in Heaps /\ "string" \in Kind
    BY DEF SameBut, Kind
  <1>2. /\ r.kind = [h.kind EXCEPT ![id] = "string"] /\ r.count = [h.count EXCEPT ![id] = 1]
        /\ r.text = [h.text EXCEPT ![id] = t]
        /\ r.ptr = [h.ptr EXCEPT ![<<"word", id>>] = NIL, ![<<"link", id>>] = NIL]
        /\ r \in Heaps
    BY <1>1 DEF Stringed, Allocated, Heaps
  <1>3. /\ s.kind = [g.kind EXCEPT ![id] = "string"] /\ s.count = [g.count EXCEPT ![id] = 1]
        /\ s.text = [g.text EXCEPT ![id] = t]
        /\ s.ptr = [g.ptr EXCEPT ![<<"word", id>>] = NIL, ![<<"link", id>>] = NIL]
        /\ s \in Heaps
    BY <1>1 DEF Stringed, Allocated, Heaps
  <1> HIDE DEF r, s
  <1>4. r.kind = s.kind /\ r.count = s.count /\ r.text = s.text
    BY <1>2, <1>3 DEF SameBut
  <1>5. ASSUME NEW x \in Holder \ {dst} PROVE r.ptr[x] = s.ptr[x]
    <2>1. h.ptr[x] = g.ptr[x] /\ x \in DOMAIN h.ptr /\ x \in DOMAIN g.ptr
      BY <1>1 DEF SameBut, Heaps
    <2> QED
      BY <2>1, <1>1, <1>2, <1>3 DEF Heaps
  <1>6. SameBut(r, s, dst)
    BY <1>2, <1>3, <1>4, <1>5 DEF SameBut
  <1> QED
    BY <1>6 DEF r, s

\* insc: a string that others name is copied; one that nobody else names is written in place.
LEMMA InsertedSound ==
  ASSUME NEW h, NEW e, Sound(h, e), NEW dst, Writable(h, dst),
         NEW fresh \in Id, h.kind[fresh] = "none", dst \in Place \/ dst[2] # fresh,
         NEW t \in Text
  PROVE  LET id == h.ptr[dst]
             c == IF id = NIL THEN Allocated(h, fresh, "string", NIL, NIL)
                              ELSE CopiedOnWrite(h, id, fresh)
             new == IF c = h THEN id ELSE fresh
             g == Written([c EXCEPT !.text[new] = t], dst, new)
         IN  /\ Sound(g, e)
             /\ \/ Touches(h, g, dst, {fresh})
                \/ id \in Id /\ h.count[id] <= 1 /\ g = [h EXCEPT !.text[id] = t]
  <1> DEFINE id == h.ptr[dst]
             copied == [Allocated(Released(h, id), fresh, "string", NIL, NIL)
                          EXCEPT !.text[fresh] = h.text[id]]
             c == IF id = NIL THEN Allocated(h, fresh, "string", NIL, NIL)
                              ELSE CopiedOnWrite(h, id, fresh)
             new == IF c = h THEN id ELSE fresh
             g == Written([c EXCEPT !.text[new] = t], dst, new)
  <1>1. /\ e \in Hands /\ NIL \notin Id /\ h \in Heaps /\ dst \in Holder
        /\ id \in Live(h) \cup {NIL}
    BY HoldersFinite DEF Sound, Covers, Writable, Holder, Field
  <1>2. \A x \in Heaps : Allocated(x, fresh, "string", NIL, NIL).kind[fresh] = "string"
    BY DEF Allocated, Heaps
  <1>3. Takes(e, fresh)[fresh] > 0 /\ Gives(Takes(e, fresh), fresh) = e
    BY <1>1, HandsKept DEF Takes, Hands
  <1>4. CASE id = NIL
    <2>1. c = Allocated(h, fresh, "string", NIL, NIL) /\ c # h
      BY <1>1, <1>2, <1>4
    <2>2. g = Written(Stringed(h, fresh, t), dst, fresh)
      BY <2>1 DEF Stringed
    <2>3. /\ Sound(Stringed(h, fresh, t), Takes(e, fresh))
          /\ Touches(h, Stringed(h, fresh, t), dst, {fresh})
          /\ Writable(Stringed(h, fresh, t), dst)
          /\ Stringed(h, fresh, t).ptr[dst] = NIL
      BY <1>4, StringedSound DEF SameAt
    <2> HIDE DEF c, g
    <2>4. /\ Sound(Written(Stringed(h, fresh, t), dst, fresh), Gives(Takes(e, fresh), fresh))
          /\ Touches(Stringed(h, fresh, t), Written(Stringed(h, fresh, t), dst, fresh), dst, {})
      BY <1>3, <2>3, RefilledSound
    <2>5. Touches(h, g, dst, {fresh})
      BY <2>2, <2>3, <2>4, TouchesMore, TouchesBoth
    <2> QED
      BY <1>3, <2>2, <2>4, <2>5 DEF c, g
  <1>5. CASE id # NIL /\ h.count[id] > 1
    <2> DEFINE r == Released(h, id)
               m == Released(Written(h, dst, NIL), id)
    <2>1. /\ Sound(m, e) /\ Touches(h, m, dst, {}) /\ Writable(m, dst)
          /\ m.ptr[dst] = NIL
          /\ SameBut(r, m, dst)
          /\ dst \in Field /\ dst[2] \notin Live(r) => r.ptr[dst] = m.ptr[dst]
      BY EmptiedSound
    <2> HIDE DEF m, r
    <2>2. r \in Heaps /\ m.kind[fresh] = "none"
      <3>1. m.kind[fresh] \in {h.kind[fresh], "none"}
        BY <2>1 DEF Touches
      <3> QED
        BY <2>1, <3>1 DEF SameBut
    <2>3. copied.kind[fresh] = "string" /\ copied # h
      <3>1. copied.kind = Allocated(r, fresh, "string", NIL, NIL).kind
        BY DEF r, Allocated
      <3> QED
        BY <3>1, <2>2, <1>2
    <2>4. c = copied
      BY <1>1, <1>5 DEF CopiedOnWrite, Live
    <2>5. [copied EXCEPT !.text[fresh] = t] = Stringed(r, fresh, t)
      BY <2>2 DEF Stringed, Allocated, r, Heaps
    <2>6. g = Written(Stringed(r, fresh, t), dst, fresh)
      BY <2>3, <2>4, <2>5
    <2> HIDE DEF c, g, copied, new
    <2>7. SameBut(Stringed(r, fresh, t), Stringed(m, fresh, t), dst)
      BY <2>1, StringedSame
    <2>8. /\ Sound(Stringed(m, fresh, t), Takes(e, fresh))
          /\ Touches(m, Stringed(m, fresh, t), dst, {fresh})
          /\ Writable(Stringed(m, fresh, t), dst)
          /\ Stringed(m, fresh, t).ptr[dst] = NIL
      BY <2>1, <2>2, StringedSound DEF SameAt
    <2>9. ASSUME dst \in Field, dst[2] \notin Live(Stringed(r, fresh, t))
          PROVE  Stringed(r, fresh, t).ptr[dst] = Stringed(m, fresh, t).ptr[dst]
      <3>1. dst[2] \in Id /\ dst[2] # fresh
        BY <2>9, HoldersFinite DEF Field
      <3>2. \A x \in Heaps : /\ Stringed(x, fresh, t).kind[dst[2]] = x.kind[dst[2]]
                             /\ Stringed(x, fresh, t).ptr[dst] = x.ptr[dst]
        <4>1. dst # <<"word", fresh>> /\ dst # <<"link", fresh>>
          BY <3>1
        <4> QED
          BY <3>1, <4>1, <1>1 DEF Stringed, Allocated, Heaps
      <3>3. dst[2] \notin Live(r)
        BY <3>1, <3>2, <2>2, <2>9 DEF Live
      <3> QED
        BY <3>2, <3>3, <2>1, <2>9 DEF SameBut
    <2>10. Written(Stringed(r, fresh, t), dst, fresh) = Written(Stringed(m, fresh, t), dst, fresh)
      BY <1>1, <2>7, <2>9, WrittenSame
    <2>11. /\ Sound(Written(Stringed(m, fresh, t), dst, fresh), Gives(Takes(e, fresh), fresh))
           /\ Touches(Stringed(m, fresh, t), Written(Stringed(m, fresh, t), dst, fresh), dst, {})
      BY <1>3, <2>8, RefilledSound
    <2>12. Touches(h, g, dst, {fresh})
      <3>1. Touches(h, m, dst, {fresh})
        BY <2>1, TouchesMore
      <3>2. Touches(h, Stringed(m, fresh, t), dst, {fresh})
        BY <3>1, <2>8, TouchesBoth
      <3>3. Touches(Stringed(m, fresh, t), g, dst, {fresh})
        BY <2>6, <2>10, <2>11, TouchesMore
      <3> QED
        BY <3>2, <3>3, TouchesBoth
    <2> QED
      BY <1>3, <2>6, <2>10, <2>11, <2>12 DEF c, g, new
  <1>6. CASE id # NIL /\ ~(h.count[id] > 1)
    <2>1. c = h /\ new = id
      BY <1>6 DEF CopiedOnWrite
    <2>2. id \in Id /\ h.count[id] <= 1
      BY <1>1, <1>6 DEF Live, Heaps
    <2>3. g = Written([h EXCEPT !.text[id] = t], dst, id)
      BY <2>1
    <2> HIDE DEF c, g, new
    <2>4. Sound([h EXCEPT !.text[id] = t], e)
      BY <2>2, TextSound
    <2>5. Written([h EXCEPT !.text[id] = t], dst, id) = [h EXCEPT !.text[id] = t]
      <3>1. [h.ptr EXCEPT ![dst] = id] = h.ptr
        BY <1>1 DEF Heaps
      <3>2. [[h EXCEPT !.text[id] = t] EXCEPT !.ptr[dst] = id] = [h EXCEPT !.text[id] = t]
        BY <3>1, <1>1 DEF Heaps
      <3> QED
        BY <3>2 DEF Written
    <2> QED
      BY <2>2, <2>3, <2>4, <2>5 DEF c, g, new
  <1> QED
    BY <1>4, <1>5, <1>6

-----------------------------------------------------------------------------
(* The instructions of the guest. *)

\* Between instructions nothing is in hand.
LEMMA InvIsSound ==
  ASSUME IInv
  PROVE  /\ Sound(heap, Empty)
         /\ \A x \in Holder : heap.ptr[x] \in Live(heap) \cup {NIL}
  <1>1. heap \in Heaps
    BY DEF IInv, TypeOK, Heaps
  <1>2. \A id \in Id : Empty[id] = 0
    BY DEF Empty
  <1>3. ASSUME NEW id \in Live(heap) PROVE Owned(heap, Empty, id)
    <2>1. Cardinality(HoldersOf(heap, id)) <= heap.count[id] /\ id \in Id
      BY DEF IInv, CountsCover, Live
    <2> QED
      BY <2>1, <1>2, HoldersCount DEF Owned
  <1>4. Covers(heap, Empty)
    BY <1>1, <1>2, <1>3, EmptyHands DEF Covers, IInv, TypeOK, NoDangling
  <1>5. Shaped(heap)
    BY DEF Shaped, IInv, SlicesShareTheirRoot, ModulesHoldNothing, Live
  <1> QED
    BY <1>4, <1>5 DEF Sound, IInv, NoDangling

\* What a thread holds of these kinds leads to the word of a record or of an array.
LEMMA HeldFacts ==
  ASSUME IInv, NEW x \in Held(heap, {"record", "array", "slice"})
  PROVE  /\ Root(heap, heap.ptr[x]) \in Live(heap)
         /\ heap.kind[Root(heap, heap.ptr[x])] \in {"record", "array"}
         /\ x \in Held(heap, {"array", "slice"}) =>
              heap.kind[Root(heap, heap.ptr[x])] = "array"
  <1>1. /\ heap.ptr[x] \in Id
        /\ heap.kind[heap.ptr[x]] \in {"record", "array", "slice"}
        /\ x \in Held(heap, {"array", "slice"}) => heap.kind[heap.ptr[x]] \in {"array", "slice"}
    BY DEF Held, KindOf
  <1>2. CASE heap.kind[heap.ptr[x]] = "slice"
    <2>1. Root(heap, heap.ptr[x]) = heap.ptr[<<"link", heap.ptr[x]>>]
      BY <1>1, <1>2 DEF Root, KindOf, LinkOf
    <2> QED
      BY <2>1, <1>1, <1>2 DEF IInv, SlicesShareTheirRoot, Live
  <1>3. CASE heap.kind[heap.ptr[x]] # "slice"
    <2>1. Root(heap, heap.ptr[x]) = heap.ptr[x]
      BY <1>1, <1>3 DEF Root, KindOf
    <2> QED
      BY <2>1, <1>1, <1>3 DEF Live
  <1> QED
    BY <1>2, <1>3

\* The operands of an instruction: words that may be written, never those of a new object.
LEMMA TargetFacts ==
  ASSUME IInv, NEW dst \in Target
  PROVE  /\ Writable(heap, dst) /\ dst \in Holder
         /\ heap.ptr[dst] \in Live(heap) \cup {NIL}
         /\ dst[1] = cur \/ dst \in {"word"} \X Id
         /\ \A id \in Fresh(heap) : id \in Id /\ heap.kind[id] = "none"
                                    /\ (dst \in Place \/ dst[2] # id)
  <1>1. cur \in Thread /\ refs \in [Thread -> SUBSET Id]
    BY DEF IInv, TypeOK
  <1>2. \A id \in Fresh(heap) : id \in Id /\ heap.kind[id] = "none" /\ id \notin refs[cur]
    BY <1>1 DEF Fresh, Live
  <1>3. CASE dst \in Own
    <2>1. dst \in Place /\ dst \in Holder /\ dst[1] = cur
      BY <1>1, <1>3 DEF Own, Place, Holder
    <2> QED
      BY <2>1, <1>2, <1>3, InvIsSound DEF Writable
  <1>4. ASSUME NEW id \in Id, dst = <<"word", id>>, heap.kind[id] # "module",
               id \in Live(heap) \/ id \in refs[cur]
        PROVE  /\ Writable(heap, dst) /\ dst \in Holder /\ dst \in {"word"} \X Id
               /\ \A f \in Fresh(heap) : dst[2] # f
    BY <1>2, <1>4 DEF Writable, Holder, Field, Live
  <1>5. CASE dst \in {<<"word", Root(heap, heap.ptr[x])>> : x \in Held(heap, {"record", "array", "slice"})}
    <2>1. PICK x \in Held(heap, {"record", "array", "slice"}) :
            dst = <<"word", Root(heap, heap.ptr[x])>>
      BY <1>5
    <2>2. /\ Root(heap, heap.ptr[x]) \in Live(heap) /\ Root(heap, heap.ptr[x]) \in Id
          /\ heap.kind[Root(heap, heap.ptr[x])] # "module"
      BY <2>1, HeldFacts DEF Live
    <2> QED
      BY <2>1, <2>2, <1>2, <1>4, InvIsSound
  <1>6. CASE dst \in {<<"word", id>> : id \in refs[cur]}
    <2>1. PICK id \in refs[cur] : dst = <<"word", id>>
      BY <1>6
    <2>2. id \in Id /\ heap.kind[id] # "module"
      BY <1>1 DEF IInv, RefsNameArrays
    <2> QED
      BY <2>1, <2>2, <1>2, <1>4, InvIsSound
  <1> QED
    BY <1>3, <1>5, <1>6 DEF Target

\* An instruction changed the word dst, and made the objects of new.
Changed(dst, new) ==
  /\ Sound(heap', Empty)
  /\ Touches(heap, heap', dst, new)
  /\ dst[1] = cur \/ dst \in {"word"} \X Id
  /\ new \subseteq Fresh(heap)
  /\ UNCHANGED <<cur, alive, refs>>

\* An instruction wrote a string in place.
Edited(dst) ==
  /\ Sound(heap', Empty)
  /\ dst \in Holder /\ heap.ptr[dst] \in Id /\ heap.count[heap.ptr[dst]] <= 1
  /\ \E t \in Text : heap' = [heap EXCEPT !.text[heap.ptr[dst]] = t]
  /\ UNCHANGED <<cur, alive, refs>>

Did == \E dst \in Target : (\E new \in SUBSET Fresh(heap) : Changed(dst, new)) \/ Edited(dst)

LEMMA DoesMove ==
  ASSUME IInv, NEW dst \in Target, NEW id \in Live(heap) \cup {NIL},
         \/ heap' = Moved(heap, dst, id)
         \/ heap' = Replaced(heap, dst, id),
         UNCHANGED <<cur, alive, refs>>
  PROVE  Did
  <1>1. Sound(heap, Empty) /\ Writable(heap, dst) /\ (dst[1] = cur \/ dst \in {"word"} \X Id)
    BY InvIsSound, TargetFacts
  <1>2. Sound(heap', Empty) /\ Touches(heap, heap', dst, {})
    BY <1>1, MovedSound, ReplacedSound
  <1>3. Changed(dst, {})
    BY <1>1, <1>2 DEF Changed
  <1> QED
    BY <1>3 DEF Did

LEMMA DoesMake ==
  ASSUME IInv, NEW dst \in Target, NEW id \in Fresh(heap),
         Sound(heap', Empty), Touches(heap, heap', dst, {id}), UNCHANGED <<cur, alive, refs>>
  PROVE  Did
  <1>1. dst[1] = cur \/ dst \in {"word"} \X Id
    BY TargetFacts
  <1>2. Changed(dst, {id})
    BY <1>1 DEF Changed
  <1> QED
    BY <1>2 DEF Did

\* The contents of an object exist, or are nil.
LEMMA ContentsExist ==
  ASSUME IInv, NEW id \in Live(heap) \cup {NIL}
  PROVE  /\ WordOf(heap, id) \in Live(heap) \cup {NIL}
         /\ LinkOf(heap, id) \in Live(heap) \cup {NIL}
  <1>1. id \in Id => <<"word", id>> \in Holder /\ <<"link", id>> \in Holder
    BY DEF Holder, Field
  <1> QED
    BY <1>1, InvIsSound DEF WordOf, LinkOf

LEMMA DoesNew ==
  ASSUME IInv, NEW dst \in Target, NEW k \in Made, New(dst, k)
  PROVE  Did
  <1>1. PICK id \in Fresh(heap) : /\ heap' = Moved(Allocated(heap, id, k, NIL, NIL), dst, id)
                                  /\ UNCHANGED <<cur, alive, refs>>
    BY DEF New, Does
  <1>2. k \in Kind /\ k # "slice"
    BY HeapConstants DEF Kind
  <1>3. Sound(heap, Empty) /\ Writable(heap, dst) /\ id \in Id /\ heap.kind[id] = "none"
        /\ (dst \in Place \/ dst[2] # id)
    BY InvIsSound, TargetFacts
  <1>4. Sound(heap', Empty) /\ Touches(heap, heap', dst, {id})
    BY <1>1, <1>2, <1>3, NewSound
  <1> QED
    BY <1>1, <1>4, DoesMake

LEMMA DoesCons ==
  ASSUME IInv, NEW dst \in Target, Cons(dst)
  PROVE  Did
  <1>1. PICK id \in Fresh(heap) : /\ heap' = Consed(heap, id, NIL, dst)
                                  /\ UNCHANGED <<cur, alive, refs>>
    BY DEF Cons, Does
  <1>2. Sound(heap, Empty) /\ Writable(heap, dst) /\ id \in Id /\ heap.kind[id] = "none"
        /\ (dst \in Place \/ dst[2] # id) /\ NIL \notin Id
    BY InvIsSound, TargetFacts, HoldersFinite
  <1>3. Sound(heap', Gives(Empty, NIL)) /\ Touches(heap, heap', dst, {id})
    BY <1>1, <1>2, ConsedSound
  <1>4. Gives(Empty, NIL) = Empty
    BY <1>2, EmptyHands, HandsKept
  <1> QED
    BY <1>1, <1>3, <1>4, DoesMake

LEMMA DoesConsPointer ==
  ASSUME IInv, CountsItsCopies, NEW src \in Target, NEW dst \in Target, ConsPointer(src, dst)
  PROVE  Did
  <1> DEFINE head == heap.ptr[src]
             a == Counted(heap, head)
             e == Takes(Empty, head)
  <1>1. PICK id \in Fresh(heap) : /\ heap' = Consed(a, id, head, dst)
                                  /\ UNCHANGED <<cur, alive, refs>>
    BY DEF ConsPointer, Does, CountsItsCopies
  <1>2. /\ Sound(heap, Empty) /\ Writable(heap, dst) /\ id \in Id /\ heap.kind[id] = "none"
        /\ (dst \in Place \/ dst[2] # id) /\ NIL \notin Id
        /\ head \in Live(heap) \cup {NIL}
    BY InvIsSound, TargetFacts, HoldersFinite
  <1>3. head \in Id \cup {NIL} /\ (head \in Id => e[head] > 0)
    BY <1>2 DEF Live, Takes, Empty
  <1> HIDE DEF head
  <1>4. /\ Sound(a, e) /\ Touches(heap, a, dst, {}) /\ Writable(a, dst)
    BY <1>2, CountedSound
  <1>5. a.kind[id] = "none"
    BY <1>2, <1>4 DEF Touches
  <1> HIDE DEF a, e
  <1>6. Sound(heap', Gives(e, head)) /\ Touches(a, heap', dst, {id})
    <2>1. /\ Sound(Consed(a, id, head, dst), Gives(e, head))
          /\ Touches(a, Consed(a, id, head, dst), dst, {id})
      BY <1>2, <1>3, <1>4, <1>5, ConsedSound
    <2> QED
      BY <2>1, <1>1
  <1>7. Gives(e, head) = Empty
    BY EmptyHands, HandsKept DEF e
  <1>8. Touches(heap, heap', dst, {id})
    <2>1. Touches(heap, a, dst, {id})
      BY <1>4, TouchesMore
    <2> QED
      BY <2>1, <1>6, TouchesBoth
  <1> QED
    BY <1>1, <1>6, <1>7, <1>8, DoesMake

LEMMA DoesHeadOrTail ==
  ASSUME IInv, CountsItsCopies, NEW src \in Target, NEW dst \in Target,
         HeadOf(src, dst) \/ TailOf(src, dst)
  PROVE  Did
  <1>1. heap.ptr[src] \in Live(heap) \cup {NIL}
    BY TargetFacts
  <1>2. /\ WordOf(heap, heap.ptr[src]) \in Live(heap) \cup {NIL}
        /\ LinkOf(heap, heap.ptr[src]) \in Live(heap) \cup {NIL}
    BY <1>1, ContentsExist
  <1>3. CASE HeadOf(src, dst)
    <2>1. /\ \/ heap' = Moved(heap, dst, WordOf(heap, heap.ptr[src]))
             \/ heap' = Replaced(heap, dst, WordOf(heap, heap.ptr[src]))
          /\ UNCHANGED <<cur, alive, refs>>
      BY <1>3 DEF HeadOf, Does, CountsItsCopies
    <2> QED
      BY <2>1, <1>2, DoesMove
  <1>4. CASE TailOf(src, dst)
    <2>1. heap' = Moved(heap, dst, LinkOf(heap, heap.ptr[src])) /\ UNCHANGED <<cur, alive, refs>>
      BY <1>4 DEF TailOf, Does
    <2> QED
      BY <2>1, <1>2, DoesMove
  <1> QED
    BY <1>3, <1>4

LEMMA DoesMoves ==
  ASSUME IInv, CountsItsCopies, NEW src \in Target, NEW dst \in Target, Move(src, dst)
  PROVE  Did
  <1>1. /\ \/ heap' = Moved(heap, dst, heap.ptr[src])
           \/ heap' = Replaced(heap, dst, heap.ptr[src])
        /\ UNCHANGED <<cur, alive, refs>>
    BY DEF Move, Does, CountsItsCopies
  <1>2. heap.ptr[src] \in Live(heap) \cup {NIL}
    BY TargetFacts
  <1> QED
    BY <1>1, <1>2, DoesMove

LEMMA DoesInsertChar ==
  ASSUME IInv, NEW dst \in Target, NEW t \in Text, InsertChar(dst, t)
  PROVE  Did
  <1> DEFINE id == heap.ptr[dst]
             c(fresh) == IF id = NIL THEN Allocated(heap, fresh, "string", NIL, NIL)
                                     ELSE CopiedOnWrite(heap, id, fresh)
             new(fresh) == IF c(fresh) = heap THEN id ELSE fresh
  <1>1. PICK fresh \in Fresh(heap) :
          /\ heap' = Written([c(fresh) EXCEPT !.text[new(fresh)] = t], dst, new(fresh))
          /\ UNCHANGED <<cur, alive, refs>>
    BY DEF InsertChar, Does
  <1>2. Sound(heap, Empty) /\ Writable(heap, dst) /\ fresh \in Id /\ heap.kind[fresh] = "none"
        /\ (dst \in Place \/ dst[2] # fresh) /\ dst \in Holder
    BY InvIsSound, TargetFacts
  <1>3. /\ Sound(heap', Empty)
        /\ \/ Touches(heap, heap', dst, {fresh})
           \/ id \in Id /\ heap.count[id] <= 1 /\ heap' = [heap EXCEPT !.text[id] = t]
    BY <1>1, <1>2, InsertedSound
  <1>4. CASE Touches(heap, heap', dst, {fresh})
    BY <1>1, <1>3, <1>4, DoesMake
  <1>5. CASE id \in Id /\ heap.count[id] <= 1 /\ heap' = [heap EXCEPT !.text[id] = t]
    BY <1>1, <1>2, <1>3, <1>5 DEF Did, Edited
  <1> QED
    BY <1>3, <1>4, <1>5

LEMMA DoesNewString ==
  ASSUME IInv, NEW dst \in Target, NEW t \in Text, NewString(dst, t)
  PROVE  Did
  <1>1. /\ \/ heap' = Released(Written(heap, dst, NIL), heap.ptr[dst])
           \/ \E id \in Fresh(heap) :
                heap' = Released(Written(Stringed(heap, id, t), dst, id), heap.ptr[dst])
        /\ UNCHANGED <<cur, alive, refs>>
    BY DEF NewString, Does, Stringed
  <1>2. Sound(heap, Empty) /\ Writable(heap, dst) /\ NIL \notin Id
        /\ (dst[1] = cur \/ dst \in {"word"} \X Id)
    BY InvIsSound, TargetFacts, HoldersFinite
  <1>3. CASE heap' = Released(Written(heap, dst, NIL), heap.ptr[dst])
    <2>1. Sound(heap', Gives(Empty, NIL)) /\ Touches(heap, heap', dst, {})
      BY <1>2, <1>3, InstalledSound
    <2>2. Gives(Empty, NIL) = Empty
      BY <1>2, EmptyHands, HandsKept
    <2>3. Changed(dst, {})
      BY <1>1, <1>2, <2>1, <2>2 DEF Changed
    <2> QED
      BY <2>3 DEF Did
  <1>4. ASSUME NEW id \in Fresh(heap),
               heap' = Released(Written(Stringed(heap, id, t), dst, id), heap.ptr[dst])
        PROVE  Did
    <2>1. id \in Id /\ heap.kind[id] = "none" /\ (dst \in Place \/ dst[2] # id)
      BY TargetFacts
    <2>2. Sound(heap', Empty) /\ Touches(heap, heap', dst, {id})
      BY <2>1, <1>2, <1>4, NewStringSound
    <2> QED
      BY <2>2, <1>1, DoesMake
  <1> QED
    BY <1>1, <1>3, <1>4

LEMMA DoesSlice ==
  ASSUME IInv, NEW dst \in Target, Slice(dst)
  PROVE  Did
  <1>1. PICK id \in Fresh(heap) : heap' = Sliced(heap, id, dst) /\ UNCHANGED <<cur, alive, refs>>
    BY DEF Slice, Does
  <1>2. Sound(heap, Empty) /\ Writable(heap, dst) /\ id \in Id /\ heap.kind[id] = "none"
        /\ (dst \in Place \/ dst[2] # id)
    BY InvIsSound, TargetFacts
  <1>3. Root(heap, heap.ptr[dst]) \in Id /\ heap.kind[Root(heap, heap.ptr[dst])] = "array"
    <2>1. heap.ptr[dst] \in Id /\ heap.kind[heap.ptr[dst]] \in {"array", "slice"}
      BY DEF Slice, KindOf
    <2> QED
      BY <2>1 DEF Root, KindOf, LinkOf, IInv, SlicesShareTheirRoot
  <1>4. Sound(heap', Empty) /\ Touches(heap, heap', dst, {id})
    BY <1>1, <1>2, <1>3, SlicedSound
  <1> QED
    BY <1>1, <1>4, DoesMake

\* Copying an element between arrays is a counted move: it is counted after the store,
\* but before anything is released.
LEMMA DoesAssignSlice ==
  ASSUME IInv, NEW src \in Target, NEW dst \in Target, AssignSlice(src, dst)
  PROVE  Did
  <1> DEFINE from == <<"word", Root(heap, heap.ptr[src])>>
             to == <<"word", Root(heap, heap.ptr[dst])>>
             id == heap.ptr[from]
  <1>1. /\ heap' = Released(Counted(Written(heap, to, id), id), heap.ptr[to])
        /\ UNCHANGED <<cur, alive, refs>>
        /\ src \in Held(heap, {"array", "slice"}) /\ dst \in Held(heap, {"array", "slice"})
    BY DEF AssignSlice, Does
  <1>2. /\ src \in Held(heap, {"record", "array", "slice"})
        /\ dst \in Held(heap, {"record", "array", "slice"})
    BY <1>1 DEF Held
  <1>3. from \in Target /\ to \in Target
    BY <1>2 DEF Target
  <1> HIDE DEF from, to
  <1>4. id \in Live(heap) \cup {NIL} /\ to \in Holder
    BY <1>3, TargetFacts
  <1>5. Counted(Written(heap, to, id), id) = Written(Counted(heap, id), to, id)
    <2>1. heap \in Heaps
      BY InvIsSound DEF Sound, Covers
    <2> HIDE DEF id
    <2>2. \A x \in Id : Live([heap EXCEPT !.count[x] = @ + 1]) = Live(heap)
                        /\ Live([heap EXCEPT !.ptr[to] = id]) = Live(heap)
      BY <2>1 DEF Live, Heaps
    <2>3. Live([heap EXCEPT !.ptr[to] = id]) = Live(heap)
      BY <2>1 DEF Live, Heaps
    <2>4. [[heap EXCEPT !.ptr[to] = id] EXCEPT !.count[id] = @ + 1]
            = [[heap EXCEPT !.count[id] = @ + 1] EXCEPT !.ptr[to] = id]
      BY <2>1 DEF Heaps
    <2>5. CASE id \in Live(heap)
      <3>1. id \in Id
        BY <2>5 DEF Live
      <3> QED
        BY <2>2, <2>3, <2>4, <2>5, <3>1 DEF Counted, Written
    <2>6. CASE id \notin Live(heap)
      BY <2>3, <2>6 DEF Counted, Written
    <2> QED
      BY <2>5, <2>6
  <1>6. heap' = Moved(heap, to, id)
    BY <1>1, <1>5 DEF Moved
  <1> HIDE DEF id
  <1> QED
    BY <1>1, <1>3, <1>4, <1>6, DoesMove

-----------------------------------------------------------------------------
(* The other steps. *)

\* Words of threads that disappear leave counts that cover more than is named.
LEMMA DroppedSound ==
  ASSUME NEW h, NEW e, Sound(h, e), NEW words, words \cap Field = {}
  PROVE  LET g == Dropped(h, words)
         IN  /\ Sound(g, e) /\ g.kind = h.kind /\ g.text = h.text
             /\ \A x \in Holder : g.ptr[x] = IF x \in words THEN NIL ELSE h.ptr[x]
  <1> DEFINE g == Dropped(h, words)
  <1>1. h \in Heaps
    BY DEF Sound, Covers
  <1>2. /\ g.kind = h.kind /\ g.text = h.text /\ g.count = h.count
        /\ g.ptr = [x \in Holder |-> IF x \in words THEN NIL ELSE h.ptr[x]]
        /\ g \in Heaps
    BY <1>1 DEF Dropped, Heaps
  <1> HIDE DEF g
  <1>3. Live(g) = Live(h)
    BY <1>2 DEF Live
  <1>4. ASSUME NEW id \in Live(g) PROVE Owned(g, e, id)
    <2>1. id \in Id /\ Owned(h, e, id) /\ e[id] \in Nat /\ h.count[id] \in Nat
      BY <1>1, <1>3, <1>4 DEF Sound, Covers, Live, Hands, Heaps
    <2>2. HoldersOf(g, id) \subseteq HoldersOf(h, id)
      BY <1>2, <2>1, HoldersFinite DEF HoldersOf
    <2>3. /\ Cardinality(HoldersOf(g, id)) <= Cardinality(HoldersOf(h, id))
          /\ Cardinality(HoldersOf(g, id)) \in Nat /\ Cardinality(HoldersOf(h, id)) \in Nat
      BY <2>2, HoldersCount, FewerHolders
    <2> QED
      BY <2>1, <2>3, <1>2 DEF Owned
  <1>5. \A id \in Id, w \in {"word", "link"} :
          <<w, id>> \in Holder /\ g.ptr[<<w, id>>] = h.ptr[<<w, id>>]
    <2> SUFFICES ASSUME NEW id \in Id, NEW w \in {"word", "link"}
                 PROVE  <<w, id>> \in Holder /\ g.ptr[<<w, id>>] = h.ptr[<<w, id>>]
      OBVIOUS
    <2>1. <<w, id>> \in Field /\ <<w, id>> \in Holder
      BY DEF Field, Holder
    <2> QED
      BY <2>1, <1>2
  <1>6. Covers(g, e)
    <2>1. \A id \in Id : g.kind[id] = "none" =>
            g.count[id] = 0 /\ g.ptr[<<"word", id>>] = NIL /\ g.ptr[<<"link", id>>] = NIL
      BY <1>2, <1>5 DEF Sound, Covers
    <2>2. \A x \in Holder : g.ptr[x] \in Live(g) \cup {NIL}
      BY <1>2, <1>3 DEF Sound, Covers
    <2> QED
      BY <2>1, <2>2, <1>2, <1>3, <1>4 DEF Sound, Covers
  <1>7. Shaped(g)
    BY <1>2, <1>3, <1>5 DEF Sound, Shaped, Live
  <1>8. Sound(g, e) /\ \A x \in Holder : g.ptr[x] = IF x \in words THEN NIL ELSE h.ptr[x]
    BY <1>2, <1>6, <1>7 DEF Sound
  <1> QED
    BY <1>2, <1>8 DEF g

\* Marking reaches the objects that the roots name, and what they name.
LEMMA MarkedFacts ==
  ASSUME NEW h
  PROVE  /\ Marked(h) \subseteq Live(h)
         /\ Roots(h) \cap Live(h) \subseteq Marked(h)
         /\ \A id \in Marked(h) : Edges(h, id) \cap Live(h) \subseteq Marked(h)
  <1> DEFINE closed(ids) == /\ Roots(h) \cap Live(h) \subseteq ids
                            /\ \A id \in ids : Edges(h, id) \cap Live(h) \subseteq ids
  <1>1. Marked(h) = {id \in Live(h) : \A ids \in SUBSET Live(h) : closed(ids) => id \in ids}
    BY DEF Marked
  <1>2. Marked(h) \subseteq Live(h) /\ Roots(h) \cap Live(h) \subseteq Marked(h)
    BY <1>1
  <1>3. ASSUME NEW id \in Marked(h) PROVE Edges(h, id) \cap Live(h) \subseteq Marked(h)
    BY <1>1, <1>3
  <1> QED
    BY <1>2, <1>3

\* Freeing what only freed objects name.
LEMMA FreedSound ==
  ASSUME NEW h, NEW e, Sound(h, e), NEW ids \in SUBSET Live(h), NEW dst,
         dst \in Field => Writable(h, dst),
         \A id \in ids : e[id] = 0,
         \A x \in Holder : h.ptr[x] \in ids => x \in {"word", "link"} \X ids
  PROVE  Sound(Freed(h, ids), e) /\ Touches(h, Freed(h, ids), dst, {})
  <1> DEFINE g == Freed(h, ids)
  <1>1. h \in Heaps /\ e \in Hands /\ NIL \notin Id
    BY HoldersFinite DEF Sound, Covers
  <1>2. /\ g \in Heaps
        /\ \A id \in Id : /\ g.kind[id] = IF id \in ids THEN "none" ELSE h.kind[id]
                          /\ g.count[id] = IF id \in ids THEN 0 ELSE h.count[id]
                          /\ g.text[id] = IF id \in ids THEN Blank ELSE h.text[id]
        /\ \A x \in Holder :
             g.ptr[x] = IF x \in {"word", "link"} \X ids THEN NIL ELSE h.ptr[x]
        /\ Live(g) = Live(h) \ ids
    BY <1>1, FreedIs
  <1> HIDE DEF g
  <1>3. \A x \in Holder : g.ptr[x] \in Live(g) \cup {NIL}
    BY <1>2 DEF Sound, Covers
  <1>4. \A id \in Id : g.kind[id] = "none" =>
          g.count[id] = 0 /\ g.ptr[<<"word", id>>] = NIL /\ g.ptr[<<"link", id>>] = NIL
    <2> SUFFICES ASSUME NEW id \in Id, g.kind[id] = "none", NEW w \in {"word", "link"}
                 PROVE  g.count[id] = 0 /\ g.ptr[<<w, id>>] = NIL
      OBVIOUS
    <2>1. <<w, id>> \in Holder
      BY DEF Holder, Field
    <2>2. id \notin ids => h.kind[id] = "none"
      BY <1>2
    <2>3. id \notin ids => h.count[id] = 0 /\ h.ptr[<<w, id>>] = NIL
      BY <2>2 DEF Sound, Covers
    <2> QED
      BY <2>1, <2>3, <1>2
  <1>5. ASSUME NEW id \in Live(g) PROVE Owned(g, e, id)
    <2>1. /\ id \in Id /\ id \notin ids /\ Owned(h, e, id) /\ e[id] \in Nat
          /\ h.count[id] \in Nat
      BY <1>1, <1>2, <1>5 DEF Sound, Covers, Live, Hands, Heaps
    <2>2. HoldersOf(g, id) \subseteq HoldersOf(h, id)
      BY <1>1, <1>2, <2>1 DEF HoldersOf
    <2>3. /\ Cardinality(HoldersOf(g, id)) <= Cardinality(HoldersOf(h, id))
          /\ Cardinality(HoldersOf(g, id)) \in Nat /\ Cardinality(HoldersOf(h, id)) \in Nat
      BY <2>2, HoldersCount, FewerHolders
    <2> QED
      BY <2>1, <2>3, <1>2 DEF Owned
  <1>6. Covers(g, e)
    <2>1. \A id \in Id : e[id] > 0 => id \in Live(g)
      BY <1>2 DEF Sound, Covers
    <2> QED
      BY <2>1, <1>1, <1>2, <1>3, <1>4, <1>5 DEF Covers
  <1>7. Touches(h, g, dst, {})
    <2>1. \A x \in Place : x \notin {"word", "link"} \X ids
      BY HeapConstants DEF Place
    <2>2. \A x \in Field : x[2] \in Live(g) => x \notin {"word", "link"} \X ids
      BY <1>2
    <2> QED
      BY <1>2, <2>1, <2>2 DEF Touches, Holder, Live
  <1>8. Shaped(g)
    BY <1>6, <1>7, ShapeKept DEF Sound
  <1> QED
    BY <1>6, <1>7, <1>8 DEF g, Sound

\* What the collector frees is named by nothing that stays.
LEMMA CollectSound ==
  ASSUME IInv, Collect, NEW dst, dst \notin Field
  PROVE  Sound(heap', Empty) /\ Touches(heap, heap', dst, {})
  <1> DEFINE swept == {id \in Live(heap) \ Marked(heap) : ~Permanent(heap, id)}
  <1>1. Sound(heap, Empty) /\ \A x \in Holder : heap.ptr[x] \in Live(heap) \cup {NIL}
    BY InvIsSound
  <1>2. ASSUME NEW x \in Holder, heap.ptr[x] \in swept
        PROVE  x \in {"word", "link"} \X swept
    <2>1. heap.ptr[x] \in Live(heap) /\ heap.ptr[x] \notin Marked(heap) /\ heap.ptr[x] # NIL
      BY <1>2, HoldersFinite DEF Live
    <2>2. CASE x \in Place
      <3>1. x[1] \in alive
        BY <2>1, <2>2 DEF IInv, DeadHoldNothing
      <3>2. x = <<x[1], x[2]>> /\ x[2] \in Var \cup Global \cup Caller
        BY <2>2 DEF Place
      <3>3. heap.ptr[x] \in Roots(heap)
        BY <3>1, <3>2, <2>1 DEF Roots
      <3> QED
        BY <3>3, <2>1, MarkedFacts
    <2>3. CASE x \in Field
      <3>1. PICK w \in {"word", "link"}, id \in Id : x = <<w, id>>
        BY <2>3 DEF Field
      <3>2. id \in Live(heap)
        BY <3>1, <2>1, <1>1 DEF Sound, Covers, Live
      <3>3. heap.ptr[x] \in Edges(heap, id)
        BY <3>1, <2>1 DEF Edges
      <3>4. id \notin Marked(heap)
        BY <3>3, <2>1, MarkedFacts
      <3>5. ~Permanent(heap, id)
        BY <3>1, <2>1 DEF Permanent, IInv, ModulesHoldNothing
      <3> QED
        BY <3>1, <3>2, <3>4, <3>5
    <2> QED
      BY <2>2, <2>3 DEF Holder
  <1>3. swept \in SUBSET Live(heap) /\ \A id \in swept : Empty[id] = 0
    BY DEF Empty, Live
  <1>4. heap' = Freed(heap, swept)
    BY DEF Collect
  <1> HIDE DEF swept
  <1> QED
    BY <1>1, <1>2, <1>3, <1>4, FreedSound

\* The words of the heap after a spawn.
Copied(child, args, x) ==
  IF x[1] = child
  THEN IF x[2] \in Var \ args THEN NIL ELSE heap.ptr[<<cur, x[2]>>]
  ELSE IF x \in {cur} \X args THEN NIL ELSE heap.ptr[x]

\* How many words of module data a spawned thread gets a copy of that name id.
Inherits(id) == Cardinality({v \in Global : heap.ptr[<<cur, v>>] = id})

LEMMA SpawnIs ==
  ASSUME IInv, NEW child \in Thread, NEW args \in SUBSET Var, Spawn(child, args)
  PROVE  /\ heap' \in Heaps /\ heap'.kind = heap.kind /\ heap'.text = heap.text
         /\ \A id \in Id : heap'.count[id] = heap.count[id]
              + IF heap.kind[id] = "none" THEN 0 ELSE Inherits(id)
         /\ \A x \in Holder : heap'.ptr[x] = Copied(child, args, x)
         /\ child \notin alive /\ child # cur /\ cur \in Thread
         /\ alive' = alive \cup {child} /\ UNCHANGED <<cur, refs>>
  <1> DEFINE h == Inherited(heap, cur)
  <1>1. heap \in Heaps /\ cur \in alive /\ cur \in Thread /\ NIL \notin Id
    BY InvIsSound, HoldersFinite DEF Sound, Covers, IInv, TypeOK
  <1>2. \A id : Inherits(id) \in Nat
    BY FS_Subset, FS_CardinalityType, HeapConstants DEF Inherits
  <1> DEFINE sum == [id \in Id |-> heap.count[id]
                      + IF heap.kind[id] = "none" THEN 0 ELSE Inherits(id)]
  <1>3. /\ h.kind = heap.kind /\ h.text = heap.text /\ h.ptr = heap.ptr
        /\ h.count = sum
        /\ h \in Heaps
    <2>1. h = [heap EXCEPT !.count = sum]
      BY DEF Inherited, Inherits
    <2>2. sum \in [Id -> Nat]
      BY <1>1, <1>2 DEF Heaps
    <2> HIDE DEF sum
    <2> QED
      BY <2>1, <2>2, <1>1 DEF Heaps
  <1>6. /\ heap' = [h EXCEPT !.ptr = [x \in Holder |-> Copied(child, args, x)]]
        /\ child \notin alive /\ alive' = alive \cup {child} /\ UNCHANGED <<cur, refs>>
    BY <1>3 DEF Spawn, Copied
  <1> HIDE DEF h
  <1>7. ASSUME NEW x \in Holder PROVE Copied(child, args, x) \in Id \cup {NIL}
    <2>1. x[1] = child => <<cur, x[2]>> \in Holder
      BY <1>1, HeapConstants DEF Holder, Place, Field
    <2> QED
      BY <2>1, <1>1 DEF Copied, Heaps
  <1>8. /\ heap'.kind = h.kind /\ heap'.text = h.text /\ heap'.count = h.count
        /\ heap'.ptr = [x \in Holder |-> Copied(child, args, x)]
        /\ heap' \in Heaps
    BY <1>3, <1>6, <1>7 DEF Heaps
  <1> QED
    BY <1>1, <1>3, <1>6, <1>8

\* The child's copies of the module data are counted; its arguments move from the frame of
\* its creator.
LEMMA SpawnSound ==
  ASSUME IInv, CountsItsCopies, NEW child \in Thread, NEW args \in SUBSET Var,
         Spawn(child, args)
  PROVE  Sound(heap', Empty)
  <1> DEFINE inherits(id) == {v \in Global : heap.ptr[<<cur, v>>] = id}
  <1>1. /\ heap' \in Heaps /\ heap'.kind = heap.kind /\ heap'.text = heap.text
        /\ \A id \in Id : heap'.count[id] = heap.count[id]
             + IF heap.kind[id] = "none" THEN 0 ELSE Inherits(id)
        /\ \A x \in Holder : heap'.ptr[x] = Copied(child, args, x)
        /\ child \notin alive /\ child # cur /\ cur \in Thread
    BY SpawnIs
  <1>2. Caller = {}
    BY DEF Spawn, CountsItsCopies
  <1>3. Sound(heap, Empty) /\ heap \in Heaps /\ NIL \notin Id /\ Place \cap Field = {}
    BY InvIsSound, HoldersFinite DEF Sound, Covers
  <1>4. Live(heap') = Live(heap)
    BY <1>1 DEF Live
  <1>5. \A x \in Field : x[1] # child /\ x \in Holder /\ x \notin {cur} \X args
    BY <1>1, HeapConstants DEF Field, Holder
  <1>6. \A x \in Field : heap'.ptr[x] = heap.ptr[x]
    BY <1>1, <1>5 DEF Copied
  <1>7. \A x \in Holder : x[1] = child => x[2] \in Var \cup Global /\ <<cur, x[2]>> \in Holder
                                          /\ x = <<child, x[2]>>
    BY <1>1, <1>2, <1>5 DEF Holder, Place
  <1>8. \A x \in Holder : heap'.ptr[x] \in Live(heap') \cup {NIL}
    BY <1>1, <1>3, <1>4, <1>7 DEF Copied, Sound, Covers
  <1>9. ASSUME NEW id \in Live(heap') PROVE Owned(heap', Empty, id)
    <2> DEFINE H == HoldersOf(heap', id)
               given == {x \in H : x[1] = child /\ x[2] \in Global}
               rest == H \ given
               f == [x \in given |-> x[2]]
               g == [x \in rest |-> IF x[1] = child THEN <<cur, x[2]>> ELSE x]
    <2>1. id \in Id /\ id # NIL /\ id \in Live(heap) /\ heap.kind[id] # "none"
      BY <1>3, <1>4, <1>9 DEF Live
    <2>2. \A x \in H : x \in Holder /\ Copied(child, args, x) = id
      BY <1>1 DEF HoldersOf
    <2>3. f \in Injection(given, inherits(id))
      <3>1. \A x \in given : x[2] \in inherits(id) /\ x = <<child, x[2]>>
        BY <2>1, <2>2, <1>7 DEF Copied
      <3> QED
        BY <3>1 DEF Injection, IsInjective
    <2>4. g \in Injection(rest, HoldersOf(heap, id))
      <3>1. \A x \in rest : x[1] = child => /\ x[2] \in args
                                            /\ <<cur, x[2]>> \in HoldersOf(heap, id)
                                            /\ x = <<child, x[2]>>
        BY <2>1, <2>2, <1>7 DEF Copied, HoldersOf
      <3>2. \A x \in rest : x[1] # child => x \notin {cur} \X args /\ x \in HoldersOf(heap, id)
        BY <2>1, <2>2 DEF Copied, HoldersOf
      <3> HIDE DEF rest
      <3>3. g \in [rest -> HoldersOf(heap, id)]
        BY <3>1, <3>2
      <3>4. ASSUME NEW x \in rest, NEW y \in rest, g[x] = g[y] PROVE x = y
        BY <3>1, <3>2, <3>4
      <3> QED
        BY <3>3, <3>4 DEF Injection, IsInjective
    <2>5. IsFiniteSet(inherits(id))
      BY FS_Subset, HeapConstants
    <2> HIDE DEF given, rest, f, g, H
    <2>6. /\ IsFiniteSet(given) /\ Cardinality(given) <= Cardinality(inherits(id))
          /\ Cardinality(given) \in Nat /\ Cardinality(inherits(id)) \in Nat
      BY <2>3, <2>5, FS_Injection, FS_CardinalityType
    <2>7. /\ IsFiniteSet(rest) /\ Cardinality(rest) <= Cardinality(HoldersOf(heap, id))
          /\ Cardinality(rest) \in Nat /\ Cardinality(HoldersOf(heap, id)) \in Nat
      BY <2>4, HoldersCount, FS_Injection, FS_CardinalityType
    <2>8. H = given \cup rest /\ given \cap rest = {}
      BY DEF H, given, rest
    <2>9. Cardinality(H) = Cardinality(given) + Cardinality(rest)
      <3>1. Cardinality(given \cap rest) = 0
        BY <2>8, FS_EmptySet
      <3>2. Cardinality(given \cup rest)
              = Cardinality(given) + Cardinality(rest) - Cardinality(given \cap rest)
        BY <2>6, <2>7, FS_Union
      <3> QED
        BY <3>1, <3>2, <2>6, <2>7, <2>8
    <2>10. Cardinality(HoldersOf(heap, id)) <= heap.count[id] /\ heap.count[id] \in Nat
      BY <2>1, <1>3 DEF IInv, CountsCover, Heaps
    <2>11. heap'.count[id] = heap.count[id] + Cardinality(inherits(id)) /\ Empty[id] = 0
      BY <1>1, <2>1 DEF Empty, Inherits
    <2>12. Cardinality(H) <= heap'.count[id]
      BY <2>6, <2>7, <2>9, <2>10, <2>11
    <2> QED
      BY <2>6, <2>7, <2>9, <2>11, <2>12 DEF Owned, H
  <1>10. ASSUME NEW id \in Id, heap'.kind[id] = "none", NEW w \in {"word", "link"}
         PROVE  heap'.count[id] = 0 /\ heap'.ptr[<<w, id>>] = NIL
    <2>1. heap.count[id] = 0 /\ heap.ptr[<<w, id>>] = NIL
      BY <1>1, <1>3, <1>10 DEF Sound, Covers
    <2>2. <<w, id>> \in Field
      BY DEF Field
    <2> QED
      BY <2>1, <2>2, <1>1, <1>6, <1>10
  <1>11. Covers(heap', Empty)
    <2>1. \A id \in Id : Empty[id] > 0 => id \in Live(heap')
      BY DEF Empty
    <2> QED
      BY <2>1, <1>1, <1>8, <1>9, <1>10, EmptyHands DEF Covers
  <1>12. Shaped(heap')
    <2>1. \A id \in Id : /\ heap'.ptr[<<"word", id>>] = heap.ptr[<<"word", id>>]
                         /\ heap'.ptr[<<"link", id>>] = heap.ptr[<<"link", id>>]
      BY <1>6 DEF Field
    <2>2. Shaped(heap)
      BY <1>3 DEF Sound
    <2> QED
      BY <2>1, <2>2, <1>1, <1>4 DEF Shaped, Live
  <1> QED
    BY <1>11, <1>12 DEF Sound

-----------------------------------------------------------------------------
(* The invariant. *)

LEMMA SoundIsInv ==
  ASSUME Sound(heap', Empty), cur' \in alive', alive' \subseteq Thread,
         refs' \in [Thread -> SUBSET Id], RefsNameArrays', DeadHoldNothing'
  PROVE  IInv'
  <1>1. /\ heap' \in Heaps
        /\ \A id \in Id : heap'.kind[id] = "none" =>
             /\ heap'.count[id] = 0
             /\ heap'.ptr[<<"word", id>>] = NIL /\ heap'.ptr[<<"link", id>>] = NIL
        /\ \A x \in Holder : heap'.ptr[x] \in Live(heap') \cup {NIL}
        /\ \A id \in Live(heap') : Owned(heap', Empty, id)
    BY DEF Sound, Covers
  <1>2. TypeOK'
    BY <1>1 DEF TypeOK, Heaps
  <1>3. NoDangling'
    BY <1>1 DEF NoDangling
  <1>4. CountsCover'
    <2> SUFFICES ASSUME NEW id \in Live(heap')
                 PROVE  Cardinality(HoldersOf(heap', id)) <= heap'.count[id]
      BY DEF CountsCover
    <2>1. id \in Id /\ Empty[id] = 0 /\ Owned(heap', Empty, id)
      BY <1>1 DEF Live, Empty
    <2> QED
      BY <2>1, HoldersCount DEF Owned
  <1>5. SlicesShareTheirRoot' /\ ModulesHoldNothing'
    BY DEF SlicesShareTheirRoot, ModulesHoldNothing, Sound, Shaped, Live
  <1> QED
    BY <1>2, <1>3, <1>4, <1>5 DEF IInv

\* What an instruction changes is no word of a dead thread, and a new object is nothing
\* that an element reference names.
LEMMA ChangedKeepsInv ==
  ASSUME IInv, NEW dst, NEW new, Changed(dst, new)
  PROVE  IInv'
  <1>1. /\ cur \in alive /\ alive \subseteq Thread /\ refs \in [Thread -> SUBSET Id]
    BY DEF IInv, TypeOK
  <1>2. RefsNameArrays'
    <2> SUFFICES ASSUME NEW t \in Thread, NEW id \in refs[t]
                 PROVE  heap'.kind[id] \in {"array", "none"}
      BY DEF Changed, RefsNameArrays
    <2>1. id \in Id \ new
      BY <1>1 DEF Changed, Fresh
    <2>2. heap'.kind[id] \in {heap.kind[id], "none"}
      BY <2>1 DEF Changed, Touches
    <2> QED
      BY <2>2 DEF IInv, RefsNameArrays
  <1>3. DeadHoldNothing'
    <2> SUFFICES ASSUME NEW x \in Place, x[1] \notin alive PROVE heap'.ptr[x] = NIL
      BY DEF Changed, DeadHoldNothing
    <2>1. x[1] \in Thread /\ x[1] # cur
      BY <1>1 DEF Place
    <2>2. x # dst
      BY <2>1, HeapConstants DEF Changed
    <2>3. heap'.ptr[x] = heap.ptr[x]
      BY <2>2 DEF Changed, Touches
    <2> QED
      BY <2>3 DEF IInv, DeadHoldNothing
  <1> QED
    BY <1>1, <1>2, <1>3, SoundIsInv DEF Changed

LEMMA EditedKeepsInv ==
  ASSUME IInv, NEW dst, Edited(dst)
  PROVE  IInv'
  <1>1. heap'.kind = heap.kind /\ heap'.ptr = heap.ptr /\ UNCHANGED <<cur, alive, refs>>
    BY DEF Edited
  <1>2. RefsNameArrays' /\ DeadHoldNothing'
    BY <1>1 DEF IInv, RefsNameArrays, DeadHoldNothing
  <1> QED
    BY <1>1, <1>2, SoundIsInv DEF Edited, IInv, TypeOK

LEMMA DidKeepsInv ==
  ASSUME IInv, Did
  PROVE  IInv'
  BY ChangedKeepsInv, EditedKeepsInv DEF Did

LEMMA InstructionKeepsInv ==
  ASSUME IInv, CountsItsCopies, Instruction
  PROVE  IInv' /\ (Did \/ (\E src \in Target : Index(src)) \/ Ret)
  <1>1. CASE \E dst \in Target :
               \/ \E k \in Made : New(dst, k)
               \/ Cons(dst) \/ Slice(dst)
               \/ \E t \in Text : InsertChar(dst, t) \/ NewString(dst, t)
    <2>1. Did
      BY <1>1, DoesNew, DoesCons, DoesSlice, DoesInsertChar, DoesNewString
    <2> QED
      BY <2>1, DidKeepsInv
  <1>2. CASE \E src, dst \in Target :
               \/ ConsPointer(src, dst) \/ HeadOf(src, dst) \/ TailOf(src, dst) \/ Move(src, dst)
               \/ AssignSlice(src, dst) \/ Send(src, dst) \/ Recv(src, dst)
    <2>1. \A src, dst \in Target : ~Send(src, dst) /\ ~Recv(src, dst)
      BY DEF Send, Recv, Does, CountsItsCopies
    <2>2. Did
      BY <2>1, <1>2, DoesConsPointer, DoesHeadOrTail, DoesMoves, DoesAssignSlice
    <2> QED
      BY <2>2, DidKeepsInv
  <1>3. ASSUME NEW src \in Target, Index(src) PROVE IInv'
    <2>1. /\ src \in Held(heap, {"array", "slice"})
          /\ refs' = [refs EXCEPT ![cur] = @ \cup {Root(heap, heap.ptr[src])}]
          /\ UNCHANGED <<heap, cur, alive>>
      BY <1>3 DEF Index
    <2>2. src \in Held(heap, {"record", "array", "slice"})
      BY <2>1 DEF Held
    <2>3. Root(heap, heap.ptr[src]) \in Id /\ heap.kind[Root(heap, heap.ptr[src])] = "array"
      BY <2>1, <2>2, HeldFacts DEF Live
    <2>4. refs' \in [Thread -> SUBSET Id] /\ RefsNameArrays'
      BY <2>1, <2>3 DEF IInv, TypeOK, RefsNameArrays
    <2>5. DeadHoldNothing'
      BY <2>1 DEF IInv, DeadHoldNothing
    <2> QED
      BY <2>1, <2>4, <2>5, InvIsSound, SoundIsInv DEF IInv, TypeOK
  <1>4. CASE Ret
    <2>1. /\ heap' = Dropped(heap, {cur} \X Var)
          /\ UNCHANGED <<cur, alive, refs>>
      BY <1>4 DEF Ret, Does
    <2>2. ({cur} \X Var) \cap Field = {}
      BY HeapConstants DEF IInv, TypeOK, Field
    <2>3. /\ Sound(heap', Empty) /\ heap'.kind = heap.kind
          /\ \A x \in Holder : heap'.ptr[x] = IF x \in {cur} \X Var THEN NIL ELSE heap.ptr[x]
      BY <2>1, <2>2, InvIsSound, DroppedSound
    <2>4. RefsNameArrays' /\ DeadHoldNothing'
      BY <2>1, <2>3 DEF IInv, RefsNameArrays, DeadHoldNothing, Holder
    <2>5. Sound(heap', Empty)
      BY <2>3
    <2>6. cur' \in alive' /\ alive' \subseteq Thread /\ refs' \in [Thread -> SUBSET Id]
      BY <2>1 DEF IInv, TypeOK
    <2> QED
      BY <1>4, <2>4, <2>5, <2>6, SoundIsInv
  <1> QED
    BY <1>1, <1>2, <1>3, <1>4 DEF Instruction

LEMMA SpawnKeepsInv ==
  ASSUME IInv, CountsItsCopies, NEW child \in Thread, NEW args \in SUBSET Var,
         Spawn(child, args)
  PROVE  IInv'
  <1>1. /\ heap'.kind = heap.kind
        /\ \A x \in Holder : heap'.ptr[x] = Copied(child, args, x)
        /\ child \notin alive /\ child # cur /\ cur \in Thread
        /\ alive' = alive \cup {child} /\ UNCHANGED <<cur, refs>>
    BY SpawnIs
  <1>2. RefsNameArrays'
    BY <1>1 DEF IInv, RefsNameArrays
  <1>3. DeadHoldNothing'
    <2> SUFFICES ASSUME NEW x \in Place, x[1] \notin alive' PROVE heap'.ptr[x] = NIL
      BY DEF DeadHoldNothing
    <2>1. x \in Holder /\ x[1] # child /\ x[1] \notin alive /\ heap.ptr[x] = NIL
      BY <1>1 DEF Holder, IInv, DeadHoldNothing
    <2> QED
      BY <2>1, <1>1 DEF Copied
  <1> QED
    BY <1>1, <1>2, <1>3, SpawnSound, SoundIsInv DEF IInv, TypeOK

LEMMA ExitKeepsInv ==
  ASSUME IInv, NEW next \in Thread, Exit(next)
  PROVE  IInv'
  <1> DEFINE words == {cur} \X (Var \cup Global \cup Caller)
  <1>1. /\ heap' = Dropped(heap, words)
        /\ alive' = alive \ {cur} /\ cur' = next /\ next \in alive \ {cur}
        /\ refs' = [refs EXCEPT ![cur] = {}]
    BY DEF Exit
  <1>2. words \cap Field = {}
    BY HeapConstants DEF IInv, TypeOK, Field
  <1>3. /\ Sound(heap', Empty) /\ heap'.kind = heap.kind
        /\ \A x \in Holder : heap'.ptr[x] = IF x \in words THEN NIL ELSE heap.ptr[x]
    BY <1>1, <1>2, InvIsSound, DroppedSound
  <1>4. RefsNameArrays' /\ refs' \in [Thread -> SUBSET Id]
    BY <1>1, <1>3 DEF IInv, TypeOK, RefsNameArrays
  <1>5. DeadHoldNothing'
    <2> SUFFICES ASSUME NEW x \in Place, x[1] \notin alive' PROVE heap'.ptr[x] = NIL
      BY DEF DeadHoldNothing
    <2>1. x \in Holder /\ x = <<x[1], x[2]>> /\ x[2] \in Var \cup Global \cup Caller
      BY DEF Holder, Place
    <2>2. CASE x[1] = cur
      BY <2>1, <2>2, <1>3
    <2>3. CASE x[1] # cur
      BY <2>1, <2>3, <1>1, <1>3 DEF IInv, DeadHoldNothing
    <2> QED
      BY <2>2, <2>3
  <1> QED
    BY <1>1, <1>3, <1>4, <1>5, SoundIsInv DEF IInv, TypeOK

LEMMA CollectKeepsInv ==
  ASSUME IInv, Collect
  PROVE  Changed(<<cur, cur>>, {}) /\ IInv'
  <1>1. <<cur, cur>> \notin Field
    BY HeapConstants DEF Field, IInv, TypeOK
  <1>2. Sound(heap', Empty) /\ Touches(heap, heap', <<cur, cur>>, {})
    BY <1>1, CollectSound
  <1>3. Changed(<<cur, cur>>, {})
    BY <1>2 DEF Changed, Collect
  <1> QED
    BY <1>3, ChangedKeepsInv

LEMMA InitInv == Init => IInv
  <1> SUFFICES ASSUME Init PROVE IInv
    OBVIOUS
  <1>1. Blank \in Text
    BY HeapConstants DEF Blank
  <1>2. /\ heap.kind = [id \in Id |-> "none"] /\ heap.count = [id \in Id |-> 0]
        /\ heap.ptr = [x \in Holder |-> NIL] /\ heap.text = [id \in Id |-> Blank]
        /\ cur \in Thread /\ alive = {cur} /\ refs = [t \in Thread |-> {}]
    BY DEF Init
  <1>3. TypeOK
    <2>1. \A id \in Id : <<"word", id>> \in Holder /\ <<"link", id>> \in Holder
      BY DEF Holder, Field
    <2>2. heap \in [kind : [Id -> Kind \cup {"none"}], count : [Id -> Nat],
                    ptr : [Holder -> Id \cup {NIL}], text : [Id -> Text]]
      BY <1>1 DEF Init
    <2> QED
      BY <1>2, <2>1, <2>2 DEF TypeOK
  <1>4. NoDangling /\ CountsCover /\ SlicesShareTheirRoot /\ ModulesHoldNothing
    <2>1. Live(heap) = {}
      BY <1>2 DEF Live
    <2> QED
      BY <1>2, <2>1 DEF NoDangling, CountsCover, SlicesShareTheirRoot, ModulesHoldNothing
  <1>5. RefsNameArrays /\ DeadHoldNothing
    BY <1>2 DEF RefsNameArrays, DeadHoldNothing, Holder
  <1> QED
    BY <1>3, <1>4, <1>5 DEF IInv

LEMMA NextInv ==
  ASSUME IInv, CountsItsCopies, [Next]_vars
  PROVE  IInv'
  <1>1. CASE Instruction
    BY <1>1, InstructionKeepsInv
  <1>2. CASE \E child \in Thread, args \in SUBSET Var : Spawn(child, args)
    BY <1>2, SpawnKeepsInv
  <1>3. CASE \E next \in Thread : Exit(next)
    BY <1>3, ExitKeepsInv
  <1>4. CASE \E next \in Thread : Switch(next)
    <2>1. cur' \in alive' /\ UNCHANGED <<heap, alive, refs>>
      BY <1>4 DEF Switch
    <2> QED
      BY <2>1 DEF IInv, TypeOK, NoDangling, CountsCover, SlicesShareTheirRoot,
                  ModulesHoldNothing, RefsNameArrays, DeadHoldNothing
  <1>5. CASE Collect
    BY <1>5, CollectKeepsInv
  <1>6. CASE UNCHANGED vars
    BY <1>6 DEF vars, IInv, TypeOK, NoDangling, CountsCover, SlicesShareTheirRoot,
                ModulesHoldNothing, RefsNameArrays, DeadHoldNothing
  <1> QED
    BY <1>1, <1>2, <1>3, <1>4, <1>5, <1>6 DEF Next

\* The inductive invariant, of every guest that counts its copies.
THEOREM Invariant ==
  ASSUME CountsItsCopies
  PROVE  Spec => []IInv
  <1>1. IInv /\ [Next]_vars => IInv'
    BY NextInv
  <1> QED
    BY <1>1, InitInv, PTL DEF Spec

\* The heap is what its type says, and nothing is left of an object that is gone.
THEOREM TypeCorrect ==
  ASSUME CountsItsCopies
  PROVE  Spec => []TypeOK
  <1>1. IInv => TypeOK
    BY DEF IInv
  <1> QED
    BY <1>1, Invariant, PTL

\* dec_ref and the sweep free nothing that a word names.
THEOREM NothingInUseIsFreed ==
  ASSUME CountsItsCopies
  PROVE  Spec => []NoDangling
  <1>1. IInv => NoDangling
    BY DEF IInv
  <1> QED
    BY <1>1, Invariant, PTL

\* The reference count of an object is never below the number of words that name it.
THEOREM EveryHolderIsCounted ==
  ASSUME CountsItsCopies
  PROVE  Spec => []CountsCover
  <1>1. IInv => CountsCover
    BY DEF IInv
  <1> QED
    BY <1>1, Invariant, PTL

\* A slice, however often it was sliced again, keeps the array itself.
THEOREM SlicesKeepTheirArray ==
  ASSUME CountsItsCopies
  PROVE  Spec => []SlicesShareTheirRoot
  <1>1. IInv => SlicesShareTheirRoot
    BY DEF IInv
  <1> QED
    BY <1>1, Invariant, PTL

-----------------------------------------------------------------------------
(* Stores are seen in the word that they name, and in no other. *)

\* A word whose id is the same, and whose object did not change, looks the same.
LEMMA LooksSame ==
  ASSUME IInv, IInv', NEW x \in Holder, heap'.ptr[x] = heap.ptr[x],
         \A id \in Live(heap) \cap Live(heap') :
           heap'.kind[id] = heap.kind[id] /\ heap'.text[id] = heap.text[id]
  PROVE  Seen(heap, x) = Seen(heap, x)'
  <1>1. heap.ptr[x] \in Live(heap) \cup {NIL} /\ heap.ptr[x] \in Live(heap') \cup {NIL}
    BY DEF IInv, NoDangling
  <1>2. NIL \notin Live(heap) /\ NIL \notin Live(heap')
    BY HoldersFinite DEF Live
  <1> QED
    BY <1>1, <1>2 DEF Seen

\* The words of the guest are holders, those of its objects fields.
LEMMA VisibleFacts ==
  ASSUME IInv, IInv', NEW x \in Visible(heap) \cap Visible(heap)'
  PROVE  /\ x \in Holder
         /\ x \in Place \/ (x \in Field /\ x[2] \in Live(heap) \cap Live(heap'))
  <1>1. alive \subseteq Thread /\ alive' \subseteq Thread
    BY DEF IInv, TypeOK
  <1>2. x \in {"word", "link"} \X Live(heap) => x \notin Place
    BY HeapConstants DEF Place
  <1>3. CASE x \in {"word", "link"} \X Live(heap)
    <2>1. x \in {"word", "link"} \X Live(heap')
      BY <1>1, <1>2, <1>3 DEF Visible, Place
    <2> QED
      BY <2>1, <1>3 DEF Field, Holder, Live
  <1>4. CASE x \in alive \X (Var \cup Global \cup Caller)
    BY <1>1, <1>4 DEF Place, Holder
  <1> QED
    BY <1>3, <1>4 DEF Visible

LEMMA ChangedSeparate ==
  ASSUME IInv, IInv', NEW dst, NEW new, Changed(dst, new)
  PROVE  OneWordChanges
  <1>1. Touches(heap, heap', dst, new) /\ new \cap Live(heap) = {}
    BY DEF Changed, Fresh
  <1>2. ASSUME NEW id \in Live(heap) \cap Live(heap')
        PROVE  heap'.kind[id] = heap.kind[id] /\ heap'.text[id] = heap.text[id]
    <2>1. id \in Id \ new /\ id \in Live(heap') \ new /\ heap'.kind[id] # "none"
      BY <1>1, <1>2 DEF Live
    <2> QED
      BY <2>1, <1>1 DEF Touches
  <1>3. ASSUME NEW x \in ChangedWords, x # dst PROVE FALSE
    <2>1. x \in Visible(heap) \cap Visible(heap)' /\ Seen(heap, x) # Seen(heap, x)'
      BY <1>3 DEF ChangedWords
    <2>2. /\ x \in Holder
          /\ x \in Place \/ (x \in Field /\ x[2] \in Live(heap) \cap Live(heap'))
      BY <2>1, VisibleFacts
    <2>3. heap'.ptr[x] = heap.ptr[x]
      BY <2>2, <1>1, <1>3 DEF Touches
    <2> QED
      BY <2>1, <2>2, <2>3, <1>2, LooksSame
  <1>4. ChangedWords \subseteq {dst}
    BY <1>3
  <1>5. Cardinality(ChangedWords) <= 1
    <2>1. IsFiniteSet({dst}) /\ Cardinality({dst}) = 1
      BY FS_Singleton
    <2> QED
      BY <2>1, <1>4, FewerHolders
  <1> QED
    BY <1>5 DEF OneWordChanges

\* A string that is written in place has no second holder.
LEMMA EditedSeparate ==
  ASSUME IInv, IInv', NEW dst, Edited(dst)
  PROVE  OneWordChanges
  <1> DEFINE id == heap.ptr[dst]
  <1>1. PICK t \in Text : heap' = [heap EXCEPT !.text[id] = t]
    BY DEF Edited
  <1>2. /\ id \in Id /\ heap.count[id] <= 1 /\ dst \in Holder /\ heap \in Heaps
        /\ id \in Live(heap)
    BY HoldersFinite DEF Edited, IInv, TypeOK, Heaps, NoDangling
  <1>3. /\ heap'.ptr = heap.ptr /\ heap'.kind = heap.kind
        /\ \A x \in Id : x # id => heap'.text[x] = heap.text[x]
    BY <1>1, <1>2 DEF Heaps
  <1> HIDE DEF id
  <1>4. ASSUME NEW x \in ChangedWords, heap.ptr[x] # id PROVE FALSE
    <2>1. x \in Visible(heap) \cap Visible(heap)' /\ Seen(heap, x) # Seen(heap, x)'
      BY <1>4 DEF ChangedWords
    <2>2. Live(heap') = Live(heap)
      BY <1>3 DEF Live
    <2>3. Live(heap) \subseteq Id
      BY DEF Live
    <2> QED
      BY <2>1, <2>2, <2>3, <1>3, <1>4 DEF Seen
  <1>5. ChangedWords \subseteq HoldersOf(heap, id)
    BY <1>4, VisibleFacts DEF ChangedWords, HoldersOf
  <1>6. Cardinality(HoldersOf(heap, id)) <= heap.count[id] /\ heap.count[id] \in Nat
    BY <1>2 DEF IInv, CountsCover, Heaps
  <1>7. Cardinality(ChangedWords) <= 1
    BY <1>2, <1>5, <1>6, HoldersCount, FewerHolders
  <1> QED
    BY <1>7 DEF OneWordChanges

\* Steps that leave the objects alone change what they overwrite or drop.
LEMMA WordsSeparate ==
  ASSUME IInv, IInv', heap'.kind = heap.kind, heap'.text = heap.text,
         \A x \in Holder : \/ heap'.ptr[x] = heap.ptr[x]
                           \/ x \in {cur} \X Var
                           \/ x[1] \in Thread /\ x[1] \notin alive \cap alive'
  PROVE  OneWordChanges
  <1>1. ASSUME NEW x \in ChangedWords PROVE x \in {cur} \X Var
    <2>1. /\ x \in Visible(heap) \cap Visible(heap)' /\ Seen(heap, x) # Seen(heap, x)'
          /\ x[1] \in Thread => x[1] \in alive \cap alive'
      BY <1>1 DEF ChangedWords
    <2>2. x \in Holder
      BY <2>1, VisibleFacts
    <2>3. heap'.ptr[x] = heap.ptr[x] => Seen(heap, x) = Seen(heap, x)'
      BY <2>2, LooksSame
    <2> QED
      BY <2>1, <2>2, <2>3
  <1> QED
    BY <1>1 DEF OneWordChanges

LEMMA NextSeparate ==
  ASSUME IInv, IInv', CountsItsCopies, [Next]_vars
  PROVE  [OneWordChanges]_vars
  <1>1. CASE Instruction
    <2>1. CASE Did
      BY <2>1, ChangedSeparate, EditedSeparate DEF Did
    <2>2. CASE \E src \in Target : Index(src)
      BY <2>2, WordsSeparate DEF Index
    <2>3. CASE Ret
      <3>1. heap' = Dropped(heap, {cur} \X Var)
        BY <2>3 DEF Ret, Does
      <3>2. ({cur} \X Var) \cap Field = {}
        BY HeapConstants DEF IInv, TypeOK, Field
      <3>3. /\ heap'.kind = heap.kind /\ heap'.text = heap.text
            /\ \A x \in Holder : heap'.ptr[x] = IF x \in {cur} \X Var THEN NIL ELSE heap.ptr[x]
        BY <3>1, <3>2, InvIsSound, DroppedSound
      <3>4. \A x \in Holder : heap'.ptr[x] = heap.ptr[x] \/ x \in {cur} \X Var
        BY <3>3
      <3> QED
        BY <3>3, <3>4, WordsSeparate
    <2> QED
      BY <1>1, <2>1, <2>2, <2>3, InstructionKeepsInv
  <1>2. ASSUME NEW child \in Thread, NEW args \in SUBSET Var, Spawn(child, args)
        PROVE  OneWordChanges
    <2>1. /\ heap'.kind = heap.kind /\ heap'.text = heap.text
          /\ \A x \in Holder : heap'.ptr[x] = Copied(child, args, x)
          /\ child \notin alive
      BY <1>2, SpawnIs
    <2>2. \A x \in Holder : \/ heap'.ptr[x] = heap.ptr[x]
                            \/ x \in {cur} \X Var
                            \/ x[1] \in Thread /\ x[1] \notin alive \cap alive'
      BY <2>1 DEF Copied
    <2> QED
      BY <2>1, <2>2, WordsSeparate
  <1>3. ASSUME NEW next \in Thread, Exit(next) PROVE OneWordChanges
    <2> DEFINE words == {cur} \X (Var \cup Global \cup Caller)
    <2>1. heap' = Dropped(heap, words) /\ cur \notin alive' /\ cur \in Thread
      BY <1>3 DEF Exit, IInv, TypeOK
    <2>2. words \cap Field = {}
      BY HeapConstants DEF IInv, TypeOK, Field
    <2>3. /\ heap'.kind = heap.kind /\ heap'.text = heap.text
          /\ \A x \in Holder : heap'.ptr[x] = IF x \in words THEN NIL ELSE heap.ptr[x]
      BY <2>1, <2>2, InvIsSound, DroppedSound
    <2>4. \A x \in Holder : \/ heap'.ptr[x] = heap.ptr[x]
                            \/ x[1] \in Thread /\ x[1] \notin alive \cap alive'
      BY <2>1, <2>3
    <2> QED
      BY <2>3, <2>4, WordsSeparate
  <1>4. CASE \E next \in Thread : Switch(next)
    BY <1>4, WordsSeparate DEF Switch
  <1>5. CASE Collect
    BY <1>5, CollectKeepsInv, ChangedSeparate
  <1>6. CASE UNCHANGED vars
    BY <1>6
  <1> QED
    BY <1>1, <1>2, <1>3, <1>4, <1>5, <1>6 DEF Next

\* An instruction changes at most one word of those that outlive it, however objects are
\* shared, freed and collected.
THEOREM MemoryIsSeparateWords ==
  ASSUME CountsItsCopies
  PROVE  Spec => SeparateWords
  <1>1. IInv /\ IInv' /\ [Next]_vars => [OneWordChanges]_vars
    BY NextSeparate
  <1> QED
    BY <1>1, Invariant, PTL DEF Spec, SeparateWords
=============================================================================
