--------------------------- MODULE FileTableProofs ---------------------------
(***************************************************************************)
(* Proofs about the descriptor table of FileTable.                         *)
(***************************************************************************)
EXTENDS FileTableProps, Induction, FiniteSetTheorems, SequenceTheorems

-----------------------------------------------------------------------------
(* Tables in the middle of a call.                                            *)

WriteEnd(f) == [kind |-> "writer", file |-> f]

IsPipeEnd(h) == h.kind \in {"reader", "writer"}
Sound(h) == h \in Handle /\ (IsPipeEnd(h) => h.file \in File)

\* The invariant of a table whose counts already include the handle h, which is not in it yet.
Awaiting(t, h) ==
  /\ t \in Table /\ t.next > 2
  /\ \A f \in File :
       t.writers[f] = Cardinality(EndsIn(t, f)) + (IF h = WriteEnd(f) THEN 1 ELSE 0)
  /\ \A fd \in Fd : IsPipeEnd(t.files[fd]) => t.files[fd].file \in File
  /\ \A fd \in Fd : fd >= t.next => t.files[fd] = Closed /\ t.owners[fd] = NoRec

\* The descriptors can be counted.
LEMMA FdFinite == IsFiniteSet(Fd)
<1>1. MaxFd \in Int /\ 0 \in Int
  BY FileConstants
<1> QED
  BY <1>1, FS_Interval DEF Fd

\* A closed descriptor is no end of a pipe.
LEMMA ClosedIsSound == Sound(Closed)
BY DEF Sound, Closed, Handle, IsPipeEnd

\* Nothing is awaited between two calls.
LEMMA AwaitingNothing ==
  ASSUME NEW t
  PROVE  Awaiting(t, Closed) <=> TableInv(t)
<1>1. \A f \in File : Closed # WriteEnd(f)
  BY DEF Closed, WriteEnd
<1>2. ASSUME t \in Table
      PROVE  \A f \in File : Cardinality(EndsIn(t, f)) \in Nat
  <2> TAKE f \in File
  <2>1. EndsIn(t, f) \in SUBSET Fd
    BY DEF EndsIn
  <2> QED
    BY <2>1, FdFinite, FS_Subset, FS_CardinalityType
<1>3. ASSUME t \in Table, NEW f \in File
      PROVE  Cardinality(EndsIn(t, f)) + (IF Closed = WriteEnd(f) THEN 1 ELSE 0)
               = Cardinality(EndsIn(t, f))
  BY <1>1, <1>2, <1>3
<1> QED
  BY <1>3 DEF Awaiting, TableInv, IsPipeEnd

\* The write ends of a file once descriptor fd has been given the handle g, counted.
LEMMA EndsOfInserted ==
  ASSUME NEW t \in Table, NEW fd \in Fd, NEW g \in Handle, NEW f \in File, NEW u \in Table,
         u.files = [t.files EXCEPT ![fd] = g]
  PROVE  /\ IsFiniteSet(EndsIn(t, f)) /\ Cardinality(EndsIn(t, f)) \in Nat
         /\ Cardinality(EndsIn(u, f)) =
              Cardinality(EndsIn(t, f)) - (IF t.files[fd] = WriteEnd(f) THEN 1 ELSE 0)
                                        + (IF g = WriteEnd(f) THEN 1 ELSE 0)
         /\ t.files[fd] = WriteEnd(f) => Cardinality(EndsIn(t, f)) > 0
<1>2. EndsIn(t, f) \in SUBSET Fd
  BY DEF EndsIn
<1>3. IsFiniteSet(EndsIn(t, f)) /\ Cardinality(EndsIn(t, f)) \in Nat
  BY FdFinite, <1>2, FS_Subset, FS_CardinalityType
<1> DEFINE rest == EndsIn(t, f) \ {fd}
<1>4. /\ IsFiniteSet(rest)
      /\ Cardinality(rest) = IF fd \in EndsIn(t, f) THEN Cardinality(EndsIn(t, f)) - 1
                                                    ELSE Cardinality(EndsIn(t, f))
  BY <1>3, FS_RemoveElement
<1>5. fd \in EndsIn(t, f) <=> t.files[fd] = WriteEnd(f)
  BY DEF EndsIn, WriteEnd
<1>6. /\ IsFiniteSet(rest \cup {fd})
      /\ Cardinality(rest \cup {fd}) = Cardinality(rest) + 1
  BY <1>4, FS_AddElement
<1>7. EndsIn(u, f) = IF g = WriteEnd(f) THEN rest \cup {fd} ELSE rest
  BY DEF EndsIn, WriteEnd, Table
<1>8. Cardinality(rest) \in Nat
  BY <1>4, FS_CardinalityType
<1> QED
  BY <1>3, <1>4, <1>5, <1>6, <1>7, <1>8

-----------------------------------------------------------------------------
(* filetab.rs.                                                                *)

\* What a descriptor held is dropped when it is given another handle, and the handle that was
\* counted for it is no longer awaited.
LEMMA InsertedKeeps ==
  ASSUME NEW t, NEW h, NEW g, NEW k, NEW fd \in Fd, Awaiting(t, h), Sound(g),
         fd < t.next \/ g = Closed,
         \/ k = h /\ \A f \in File : g # WriteEnd(f)
         \/ k = Closed /\ g = h
  PROVE  /\ Awaiting(Inserted(t, fd, g), k)
         /\ Inserted(t, fd, g).files = [t.files EXCEPT ![fd] = g]
         /\ Inserted(t, fd, g).owners = t.owners
         /\ Inserted(t, fd, g).next = t.next
<1> DEFINE old == t.files[fd]
           d == Dropped(t, old)
           u == Inserted(t, fd, g)
<1>1. t \in Table /\ old \in Handle /\ g \in Handle
  BY DEF Awaiting, Table, Sound
<1>2. \A f \in File : /\ Cardinality(EndsIn(t, f)) \in Nat
                      /\ old = WriteEnd(f) => Cardinality(EndsIn(t, f)) > 0
  <2> TAKE f \in File
  <2> DEFINE v == [t EXCEPT !.files[fd] = g]
  <2>1. v \in Table /\ v.files = [t.files EXCEPT ![fd] = g]
    BY <1>1 DEF Table
  <2> HIDE DEF v
  <2> QED
    BY <1>1, <2>1, EndsOfInserted
<1>3. IsPipeEnd(old) => old.file \in File
  BY DEF Awaiting
<1>4. /\ d \in Table
      /\ d.files = t.files /\ d.owners = t.owners /\ d.next = t.next
      /\ \A f \in File : d.writers[f] = t.writers[f] - (IF old = WriteEnd(f) THEN 1 ELSE 0)
  <2>1. CASE old.kind = "writer"
    <3>1. PICK f \in File : old = WriteEnd(f)
      BY <2>1, <1>1, <1>3 DEF IsPipeEnd, WriteEnd, Handle
    <3>2. t.writers[f] > 0 /\ t.writers[f] \in Nat
      BY <1>2, <3>1 DEF Awaiting, Table
    <3>3. d = [t EXCEPT !.writers[f] = @ - 1]
      BY <2>1, <3>1, <3>2 DEF Dropped, WriteEnd
    <3> HIDE DEF d
    <3>4. \A e \in File : old = WriteEnd(e) <=> e = f
      BY <3>1 DEF WriteEnd
    <3> HIDE DEF old
    <3> QED
      BY <3>2, <3>3, <3>4, <1>1 DEF Table
  <2>2. CASE old.kind # "writer"
    <3>1. d = t /\ \A f \in File : old # WriteEnd(f)
      BY <2>2 DEF Dropped, WriteEnd
    <3> HIDE DEF d, old
    <3> QED
      BY <3>1, <1>1 DEF Table
  <2> QED
    BY <2>1, <2>2
<1>5. u = [d EXCEPT !.files[fd] = g]
  BY DEF Inserted
<1> HIDE DEF d, u
<1>6. /\ u \in Table /\ u.files = [t.files EXCEPT ![fd] = g]
      /\ u.owners = t.owners /\ u.next = t.next /\ u.writers = d.writers
  BY <1>1, <1>4, <1>5 DEF Table
<1>7. \A f \in File :
        u.writers[f] = Cardinality(EndsIn(u, f)) + (IF k = WriteEnd(f) THEN 1 ELSE 0)
  <2> TAKE f \in File
  <2>1. Cardinality(EndsIn(u, f)) =
              Cardinality(EndsIn(t, f)) - (IF old = WriteEnd(f) THEN 1 ELSE 0)
                                        + (IF g = WriteEnd(f) THEN 1 ELSE 0)
    BY <1>1, <1>6, EndsOfInserted
  <2>2. u.writers[f] = t.writers[f] - (IF old = WriteEnd(f) THEN 1 ELSE 0)
    BY <1>4, <1>6
  <2>3. t.writers[f] = Cardinality(EndsIn(t, f)) + (IF h = WriteEnd(f) THEN 1 ELSE 0)
    BY DEF Awaiting
  <2>4. Closed # WriteEnd(f)
    BY DEF Closed, WriteEnd
  <2> HIDE DEF old
  <2> QED
    BY <1>2, <2>1, <2>2, <2>3, <2>4
<1>8. \A e \in Fd : IsPipeEnd(u.files[e]) => u.files[e].file \in File
  BY <1>1, <1>6 DEF Awaiting, Sound, Table
<1>9. \A e \in Fd : e >= u.next => u.files[e] = Closed /\ u.owners[e] = NoRec
  BY <1>1, <1>6 DEF Awaiting, Table, Fd
<1> QED
  BY <1>6, <1>7, <1>8, <1>9 DEF Awaiting, u

\* A higher counter hands out fewer numbers.
LEMMA NextKeeps ==
  ASSUME NEW t, NEW h, NEW n \in Nat, Awaiting(t, h), n >= t.next
  PROVE  Awaiting([t EXCEPT !.next = n], h)
<1> DEFINE u == [t EXCEPT !.next = n]
<1>1. /\ u \in Table /\ u.files = t.files /\ u.owners = t.owners /\ u.writers = t.writers
      /\ u.next = n /\ t.next \in Nat /\ t \in Table
  BY DEF Awaiting, Table
<1> HIDE DEF u
<1>2. \A f \in File : EndsIn(u, f) = EndsIn(t, f)
  BY <1>1 DEF EndsIn
<1>3. \A fd \in Fd : fd >= n => fd >= t.next
  BY <1>1, FileConstants DEF Fd
<1>4. Awaiting(u, h)
  BY <1>1, <1>2, <1>3 DEF Awaiting
<1> QED
  BY <1>4 DEF u

\* Closing a descriptor, which loses its owner.
LEMMA CloseFdKeeps ==
  ASSUME NEW t, NEW h, NEW fd \in Fd, Awaiting(t, h)
  PROVE  /\ Awaiting(CloseFd(t, fd), h)
         /\ CloseFd(t, fd).files = IF fd > 2 THEN [t.files EXCEPT ![fd] = Closed] ELSE t.files
         /\ CloseFd(t, fd).owners = [t.owners EXCEPT ![fd] = NoRec]
         /\ CloseFd(t, fd).next = t.next
<1> DEFINE i == IF fd > 2 THEN Inserted(t, fd, Closed) ELSE t
           u == [i EXCEPT !.owners[fd] = NoRec]
<1>1. /\ Awaiting(i, h)
      /\ i.files = IF fd > 2 THEN [t.files EXCEPT ![fd] = Closed] ELSE t.files
      /\ i.owners = t.owners /\ i.next = t.next
  <2>1. \A f \in File : Closed # WriteEnd(f)
    BY DEF Closed, WriteEnd
  <2>2. CASE fd > 2
    <3> HIDE DEF i
    <3>1. i = Inserted(t, fd, Closed)
      BY <2>2 DEF i
    <3> QED
      BY <2>1, <2>2, <3>1, InsertedKeeps, ClosedIsSound
  <2> QED
    BY <2>2
<1>2. u = CloseFd(t, fd)
  BY DEF CloseFd
<1> HIDE DEF i
<1>3. /\ u \in Table /\ u.files = i.files /\ u.owners = [t.owners EXCEPT ![fd] = NoRec]
      /\ u.next = t.next /\ u.writers = i.writers
  BY <1>1 DEF Awaiting, Table
<1> HIDE DEF u
<1>4. \A f \in File : EndsIn(u, f) = EndsIn(i, f)
  BY <1>3 DEF EndsIn
<1>5. \A e \in Fd : e >= u.next => u.files[e] = Closed /\ u.owners[e] = NoRec
  BY <1>1, <1>3 DEF Awaiting, Table
<1>6. Awaiting(u, h)
  BY <1>1, <1>3, <1>4, <1>5 DEF Awaiting
<1> QED
  BY <1>1, <1>2, <1>3, <1>6

\* A duplicate of a write end is counted before it is put into the table.
LEMMA ClonedAwaits ==
  ASSUME NEW t, NEW h, TableInv(t), Sound(h)
  PROVE  /\ Awaiting(Cloned(t, h), h)
         /\ Cloned(t, h).files = t.files /\ Cloned(t, h).owners = t.owners
         /\ Cloned(t, h).next = t.next
<1> DEFINE u == Cloned(t, h)
<1>1. /\ u \in Table /\ u.files = t.files /\ u.owners = t.owners /\ u.next = t.next
      /\ \A f \in File : u.writers[f] = t.writers[f] + (IF h = WriteEnd(f) THEN 1 ELSE 0)
  <2>1. CASE h.kind = "writer"
    <3>1. PICK f \in File : h = WriteEnd(f)
      BY <2>1 DEF IsPipeEnd, WriteEnd, Handle, Sound
    <3>2. u = [t EXCEPT !.writers[f] = @ + 1]
      BY <2>1, <3>1 DEF Cloned, WriteEnd
    <3>3. \A e \in File : h = WriteEnd(e) <=> e = f
      BY <3>1 DEF WriteEnd
    <3> HIDE DEF u
    <3> QED
      BY <3>2, <3>3 DEF Table, TableInv
  <2>2. CASE h.kind # "writer"
    <3>1. u = t /\ \A f \in File : h # WriteEnd(f)
      BY <2>2 DEF Cloned, WriteEnd
    <3> HIDE DEF u
    <3> QED
      BY <3>1 DEF Table, TableInv
  <2> QED
    BY <2>1, <2>2
<1> HIDE DEF u
<1>2. \A f \in File : EndsIn(u, f) = EndsIn(t, f)
  BY <1>1 DEF EndsIn
<1>3. Awaiting(u, h)
  BY <1>1, <1>2 DEF Awaiting, TableInv, IsPipeEnd
<1> QED
  BY <1>1, <1>3 DEF u

\* dup: whatever new was, it is now a counted duplicate of old that nobody owns.
LEMMA DuplicatedKeeps ==
  ASSUME NEW t, NEW old \in Fd, NEW new \in Fd, TableInv(t)
  PROVE  /\ TableInv(Duplicated(t, old, new))
         /\ Duplicated(t, old, new).files = [t.files EXCEPT ![new] = t.files[old]]
         /\ Duplicated(t, old, new).owners = [t.owners EXCEPT ![new] = NoRec]
<1> DEFINE h == t.files[old]
           c == CloseFd(Cloned(t, h), new)
           n == IF new >= c.next THEN new + 1 ELSE c.next
           d == [c EXCEPT !.next = n]
<1>1. Sound(h) /\ t \in Table
  BY DEF TableInv, Sound, IsPipeEnd, Table
<1> HIDE DEF h
<1>2. /\ Awaiting(c, h)
      /\ c.files = IF new > 2 THEN [t.files EXCEPT ![new] = Closed] ELSE t.files
      /\ c.owners = [t.owners EXCEPT ![new] = NoRec]
  BY <1>1, ClonedAwaits, CloseFdKeeps
<1> HIDE DEF c
<1>3. new \in Nat /\ c.next \in Nat /\ c \in Table
  BY <1>2, FileConstants DEF Awaiting, Table, Fd
<1>4. n \in Nat /\ n >= c.next /\ new < n
  BY <1>3
<1>5. d = [c EXCEPT !.next = IF new >= @ THEN new + 1 ELSE @]
  BY <1>3 DEF Table
<1>6. Duplicated(t, old, new) = Inserted(d, new, h)
  BY <1>5 DEF Duplicated, c, h
<1> HIDE DEF n
<1>7. d.files = c.files /\ d.owners = c.owners /\ d.next = n
  BY <1>3, <1>4 DEF Table
<1>8. Awaiting(d, h)
  BY <1>2, <1>4, NextKeeps
<1> HIDE DEF d
<1>9. /\ Awaiting(Inserted(d, new, h), Closed)
      /\ Inserted(d, new, h).files = [d.files EXCEPT ![new] = h]
      /\ Inserted(d, new, h).owners = d.owners
  BY <1>1, <1>4, <1>7, <1>8, InsertedKeeps
<1>10. [c.files EXCEPT ![new] = h] = [t.files EXCEPT ![new] = h]
  BY <1>1, <1>2 DEF Table
<1> QED
  BY <1>2, <1>6, <1>7, <1>9, <1>10, AwaitingNothing DEF h

-----------------------------------------------------------------------------
(* New files.                                                                 *)

\* A file that nothing has open starts with an empty queue and no write end.
LEMMA OpenedKeeps ==
  ASSUME NEW t, NEW f \in FreshFile(t), TableInv(t)
  PROVE  /\ TableInv(Opened(t, f))
         /\ Opened(t, f).files = t.files /\ Opened(t, f).owners = t.owners
         /\ Opened(t, f).next = t.next
<1> DEFINE u == Opened(t, f)
<1>0. f \in File /\ t \in Table /\ 0 \in 0 .. MaxQueue
  BY FileConstants DEF TableInv, FreshFile
<1>1. /\ u \in Table /\ u.files = t.files /\ u.owners = t.owners /\ u.next = t.next
      /\ f \in File
      /\ \A g \in File : u.writers[g] = IF g = f THEN 0 ELSE t.writers[g]
  BY <1>0 DEF Table, Opened
<1> HIDE DEF u
<1>2. \A g \in File : EndsIn(u, g) = EndsIn(t, g)
  BY <1>1 DEF EndsIn
<1>3. EndsIn(t, f) = {}
  BY DEF EndsIn, FreshFile
<1>4. Cardinality(EndsIn(t, f)) = 0
  BY <1>3, FS_EmptySet
<1>5. TableInv(u)
  BY <1>1, <1>2, <1>4 DEF TableInv
<1> QED
  BY <1>1, <1>5 DEF u

\* A new descriptor, which held nothing.
LEMMA AddedKeeps ==
  ASSUME NEW t, NEW h, TableInv(t), Sound(h), h.kind # "writer", t.next \in Fd
  PROVE  /\ TableInv(Added(t, h))
         /\ Added(t, h).files = [t.files EXCEPT ![t.next] = h]
         /\ Added(t, h).owners = t.owners
         /\ Added(t, h).next = t.next + 1
<1> DEFINE n == [t EXCEPT !.next = t.next + 1]
           i == Inserted(n, t.next, h)
<1>1. t \in Table /\ t.next \in Nat
  BY DEF TableInv, Table
<1>2. n.files = t.files /\ n.owners = t.owners /\ n.next = t.next + 1
  BY <1>1 DEF Table
<1>3. Awaiting(n, Closed)
  BY <1>1, AwaitingNothing, NextKeeps
<1>4. Added(t, h) = i
  <2>1. t.files[t.next] = Closed
    BY <1>1 DEF TableInv
  <2>2. Dropped(t, Closed) = t /\ Dropped(n, Closed) = n
    BY DEF Dropped, Closed
  <2>3. /\ Added(t, h) = [[t EXCEPT !.files[t.next] = h] EXCEPT !.next = @ + 1]
        /\ i = [n EXCEPT !.files[t.next] = h]
    BY <1>2, <2>1, <2>2 DEF Added, Inserted
  <2> QED
    BY <1>1, <2>3 DEF Table
<1> HIDE DEF n
<1>5. \A f \in File : h # WriteEnd(f)
  BY DEF WriteEnd
<1>6. /\ Awaiting(i, Closed) /\ i.files = [n.files EXCEPT ![t.next] = h]
      /\ i.owners = n.owners /\ i.next = n.next
  BY <1>1, <1>2, <1>3, <1>5, InsertedKeeps
<1> QED
  BY <1>2, <1>4, <1>6, AwaitingNothing

\* pipe: the read end and the write end, which is counted once.
LEMMA PipedKeeps ==
  ASSUME NEW t, NEW f \in FreshFile(t), TableInv(t), t.next \in Fd, t.next + 1 \in Fd
  PROVE  /\ TableInv(Piped(t, f))
         /\ Piped(t, f).files = [t.files EXCEPT ![t.next] = [kind |-> "reader", file |-> f],
                                                ![t.next + 1] = WriteEnd(f)]
         /\ Piped(t, f).owners = t.owners
<1> DEFINE r == [kind |-> "reader", file |-> f]
           a == Added(Opened(t, f), r)
           c == Cloned(a, WriteEnd(f))
           n == [c EXCEPT !.next = a.next + 1]
           i == Inserted(n, a.next, WriteEnd(f))
<1>1. f \in File /\ t \in Table /\ t.next \in Nat
  BY DEF FreshFile, TableInv, Table
<1>2. Sound(r) /\ Sound(WriteEnd(f))
  BY <1>1 DEF Sound, Handle, WriteEnd, IsPipeEnd, Kind, CanRead, CanWrite
<1>3. /\ TableInv(a) /\ a.files = [t.files EXCEPT ![t.next] = r]
      /\ a.owners = t.owners /\ a.next = t.next + 1
  BY <1>2, OpenedKeeps, AddedKeeps
<1>4. a.writers[f] = 0
  <2>1. EndsIn(a, f) = {}
    BY <1>1, <1>3 DEF EndsIn, FreshFile, Table
  <2> QED
    BY <1>1, <1>3, <2>1, FS_EmptySet DEF TableInv
<1> HIDE DEF a
<1>5. /\ Awaiting(c, WriteEnd(f)) /\ c.files = a.files /\ c.owners = a.owners
      /\ c.next = a.next
  BY <1>2, <1>3, ClonedAwaits
<1>6. c = [a EXCEPT !.writers[f] = 1] /\ a \in Table /\ a.next \in Nat
  BY <1>3, <1>4 DEF Cloned, WriteEnd, TableInv, Table
<1> HIDE DEF c
<1>7. /\ Awaiting(n, WriteEnd(f)) /\ n.files = a.files /\ n.owners = a.owners
      /\ n.next = a.next + 1
  <2>1. c \in Table /\ a.next + 1 \in Nat /\ a.next + 1 >= c.next
    BY <1>5, <1>6 DEF Awaiting
  <2>2. Awaiting(n, WriteEnd(f))
    BY <1>5, <2>1, NextKeeps
  <2> QED
    BY <1>5, <2>1, <2>2 DEF Table
<1>8. a.next \in Fd /\ a.next < n.next
  BY <1>3, <1>6, <1>7
<1>9. Piped(t, f) = i
  <2>1. a.files[a.next] = Closed
    BY <1>3, <1>6, <1>8 DEF TableInv
  <2>2. Dropped(a, Closed) = a /\ Dropped(n, Closed) = n
    BY DEF Dropped, Closed
  <2>3. /\ Piped(t, f) = [[[a EXCEPT !.files[a.next] = WriteEnd(f)] EXCEPT !.next = @ + 1]
                            EXCEPT !.writers[f] = 1]
        /\ i = [n EXCEPT !.files[a.next] = WriteEnd(f)]
    BY <1>7, <2>1, <2>2 DEF Piped, Added, Inserted, WriteEnd, a
  <2> QED
    BY <1>1, <1>6, <2>3 DEF Table
<1> HIDE DEF n
<1>10. /\ Awaiting(i, Closed) /\ i.files = [n.files EXCEPT ![a.next] = WriteEnd(f)]
       /\ i.owners = n.owners
  BY <1>2, <1>7, <1>8, InsertedKeeps
<1> HIDE DEF i, r
<1> QED
  BY <1>3, <1>7, <1>9, <1>10, AwaitingNothing DEF r

-----------------------------------------------------------------------------
(* Reclaiming: a recursive function of the number of descriptors looked at.   *)

Orphan(t, fd) == t.owners[fd] # NoRec /\ recs[t.owners[fd]] = Freed

\* The orphans lose their owner, and every other descriptor keeps its file and its owner.
LEMMA ReapedKeeps ==
  ASSUME NEW t, TableInv(t)
  PROVE  /\ TableInv(Reaped(t)) /\ Reaped(t).next = t.next
         /\ \A fd \in Fd :
              IF Orphan(t, fd) THEN Reaped(t).owners[fd] = NoRec
              ELSE /\ Reaped(t).owners[fd] = t.owners[fd]
                   /\ Reaped(t).files[fd] = t.files[fd]
<1> DEFINE N == MaxFd + 1
           Step(x, n) == IF Orphan(t, n - 1) THEN CloseFd(x, n - 1) ELSE x
           Is(f) == f = [n \in 0 .. N |-> IF n = 0 THEN t ELSE Step(f[n - 1], n)]
           reaped == CHOOSE f : Is(f)
<1>1. N \in Nat /\ MaxFd \in Nat
  BY FileConstants
<1>2. ASSUME NEW x, NEW n \in 1 .. N, TableInv(x)
      PROVE  TableInv(Step(x, n))
  <2>1. n - 1 \in Fd
    BY <1>1 DEF Fd
  <2>2. Awaiting(x, Closed)
    BY <1>2, AwaitingNothing
  <2>3. TableInv(CloseFd(x, n - 1))
    BY <2>1, <2>2, CloseFdKeeps, AwaitingNothing
  <2> QED
    BY <1>2, <2>3
<1>3. \E f : Is(f)
  <2> DEFINE B == {x \in Table : TableInv(x)}
             g == [n \in 1 .. N |-> [x \in B |-> Step(x, n)]]
  <2>1. \A x, n : n \in 1 .. N /\ x \in B => Step(x, n) \in B
    BY <1>2 DEF TableInv
  <2>2. t \in B
    BY DEF TableInv
  <2> HIDE DEF B, Step
  <2>3. g \in Steps(N, B)
    BY <2>1 DEF Steps
  <2>4. PICK f : IsRun(f, N, B, t, g)
    <3> HIDE DEF g, N
    <3> QED
      BY <1>1, <2>2, <2>3, RecursionExists
  <2>5. \A n \in 1 .. N : f[n - 1] \in B
    BY <1>1, <2>4 DEF IsRun
  <2>6. \A n \in 1 .. N : f[n] = Step(f[n - 1], n)
    BY <2>4, <2>5 DEF IsRun
  <2>7. Is(f)
    BY <2>4, <2>6 DEF IsRun
  <2> QED
    BY <2>7
<1>4. Is(reaped)
  BY <1>3
<1>5. Reaped(t) = reaped[N]
  BY DEF Reaped, Orphan
<1> HIDE DEF Step, reaped
<1>6. reaped[0] = t /\ \A n \in 1 .. N : reaped[n] = Step(reaped[n - 1], n)
  BY <1>1, <1>4
<1> HIDE DEF N
<1> DEFINE Right(n) ==
             /\ TableInv(reaped[n]) /\ reaped[n].next = t.next
             /\ \A fd \in Fd :
                  IF fd < n /\ Orphan(t, fd) THEN reaped[n].owners[fd] = NoRec
                  ELSE /\ reaped[n].owners[fd] = t.owners[fd]
                       /\ reaped[n].files[fd] = t.files[fd]
           S == {n \in 0 .. N : Right(n)}
<1>7. 0 \in S
  BY <1>1, <1>6 DEF Fd
<1>8. ASSUME NEW n \in 0 .. N - 1, n \in S
      PROVE  n + 1 \in S
  <2> DEFINE x == reaped[n]
             y == reaped[n + 1]
  <2>1. n \in Fd /\ n + 1 \in 1 .. N /\ n \in Nat
    BY <1>1 DEF Fd, N
  <2>2. y = IF Orphan(t, n) THEN CloseFd(x, n) ELSE x
    BY <1>6, <2>1 DEF Step
  <2>3. Right(n)
    BY <1>8
  <2> HIDE DEF x, y
  <2>4. x \in Table
    BY <2>3 DEF TableInv, x
  <2>5. Right(n + 1)
    <3>1. CASE Orphan(t, n)
      <4>1. /\ TableInv(y) /\ y.next = x.next
            /\ y.files = IF n > 2 THEN [x.files EXCEPT ![n] = Closed] ELSE x.files
            /\ y.owners = [x.owners EXCEPT ![n] = NoRec]
        BY <2>1, <2>2, <2>3, <3>1, CloseFdKeeps, AwaitingNothing DEF x
      <4>2. \A fd \in Fd : fd # n => y.owners[fd] = x.owners[fd] /\ y.files[fd] = x.files[fd]
        BY <2>1, <2>4, <4>1 DEF Table
      <4>3. y.owners[n] = NoRec
        BY <2>1, <2>4, <4>1 DEF Table
      <4>4. \A fd \in Fd : fd < n + 1 <=> fd < n \/ fd = n
        BY <2>1, <1>1 DEF Fd
      <4> QED
        BY <2>3, <3>1, <4>1, <4>2, <4>3, <4>4 DEF x, y
    <3>2. CASE ~ Orphan(t, n)
      <4>1. y = x
        BY <2>2, <3>2
      <4>2. \A fd \in Fd : fd < n + 1 <=> fd < n \/ fd = n
        BY <2>1, <1>1 DEF Fd
      <4> QED
        BY <2>3, <3>2, <4>1, <4>2 DEF x, y
    <3> QED
      BY <3>1, <3>2
  <2> QED
    BY <2>1, <2>5 DEF N
<1> HIDE DEF S
<1>9. N \in S
  <2>1. 0 .. N \subseteq S
    BY <1>1, <1>7, <1>8, BoundedInduction
  <2> QED
    BY <1>1, <2>1
<1>10. Right(N)
  BY <1>9 DEF S
<1> QED
  BY <1>1, <1>5, <1>10 DEF N, Fd

-----------------------------------------------------------------------------
(* Owners.                                                                    *)

\* A table that has lost owners, and has the old file wherever there is one left.
LEMMA OwnersKept ==
  ASSUME NEW t, NEW u, NEW rs, OwnersInv(t, rs),
         \A fd \in Fd : \/ u.owners[fd] = NoRec
                        \/ u.owners[fd] = t.owners[fd] /\ (fd > 2 => u.files[fd] = t.files[fd])
  PROVE  OwnersInv(u, rs)
BY DEF OwnersInv

\* A record that owns nothing may become anything.
LEMMA NamingKeeps ==
  ASSUME NEW t, NEW fd, NEW h, NEW r \in NewRec(t), NEW rs \in FdRecords,
         TableInv(t), OwnersInv(t, rs)
  PROVE  OwnersInv(t, [rs EXCEPT ![r] = [fd |-> fd, handle |-> h]])
<1> DEFINE new == [rs EXCEPT ![r] = [fd |-> fd, handle |-> h]]
<1>1. \A e \in Fd : t.owners[e] # NoRec => new[t.owners[e]] = rs[t.owners[e]]
  BY DEF NewRec, FdRecords, TableInv, Table
<1> HIDE DEF new
<1>2. OwnersInv(t, new)
  BY <1>1 DEF OwnersInv
<1> QED
  BY <1>2 DEF new

\* A descriptor below the counter is given an owner.
LEMMA OwnedKeeps ==
  ASSUME NEW t, NEW fd \in Fd, NEW r \in Rec, TableInv(t), fd < t.next
  PROVE  LET u == [t EXCEPT !.owners[fd] = r]
         IN  TableInv(u) /\ u.files = t.files /\ u.owners = [t.owners EXCEPT ![fd] = r]
<1> DEFINE u == [t EXCEPT !.owners[fd] = r]
<1>1. /\ u \in Table /\ u.files = t.files /\ u.next = t.next /\ u.writers = t.writers
      /\ u.owners = [t.owners EXCEPT ![fd] = r] /\ t \in Table
  BY DEF TableInv, Table
<1> HIDE DEF u
<1>2. \A f \in File : EndsIn(u, f) = EndsIn(t, f)
  BY <1>1 DEF EndsIn
<1>3. \A e \in Fd : e >= u.next => u.files[e] = Closed /\ u.owners[e] = NoRec
  BY <1>1, FileConstants DEF TableInv, Table, Fd
<1>4. TableInv(u)
  BY <1>1, <1>2, <1>3 DEF TableInv
<1> QED
  BY <1>1, <1>4 DEF u

-----------------------------------------------------------------------------
(* The invariant.                                                             *)

\* Descriptors are numbers.
LEMMA FdTypes == /\ Fd \subseteq Nat /\ Fd \subseteq Int /\ {0, 1, 2} \subseteq Fd
                 /\ NoFd \in Int /\ \A n \in Nat : n <= MaxFd => n \in Fd
BY FileConstants DEF Fd, NoFd

\* A call that changes the table, and the records, and no read.
LEMMA LeavesKeeps ==
  ASSUME IInv, NEW t, Leaves(t), TableInv(t), recs' \in FdRecords, OwnersInv(t, recs')
  PROVE  IInv'
<1>1. /\ table' = t /\ ret' = "ok" /\ calls' = calls /\ stdin' = stdin
  BY DEF Leaves
<1> QED
  BY <1>1 DEF IInv, TableInv, OwnersInv, EndsIn

\* A pipe end in the table has its file.
LEMMA HandleSound ==
  ASSUME NEW t, TableInv(t), NEW fd \in Fd
  PROVE  t.files[fd] \in Handle /\ Sound(t.files[fd])
BY DEF TableInv, Table, Sound, IsPipeEnd

\* What open, create, dial and announce give is no end of a pipe.
LEMMA NewFileSound ==
  ASSUME NEW kind \in Device \cup Socket, NEW f \in File
  PROVE  /\ Sound([kind |-> kind, file |-> f])
         /\ [kind |-> kind, file |-> f] \in Handle
         /\ kind # "writer" /\ kind \in Kind
<1>1. kind \in Kind /\ kind \notin {"reader", "writer"}
  BY FileConstants DEF Kind, CanRead, CanWrite
<1> QED
  BY <1>1 DEF Sound, IsPipeEnd, Handle

\* open and create begin by reclaiming; nothing is lost but what nobody owns.
LEMMA ReapedOwners ==
  ASSUME IInv
  PROVE  TableInv(Reaped(table)) /\ OwnersInv(Reaped(table), recs)
<1>1. TableInv(table) /\ OwnersInv(table, recs)
  BY DEF IInv
<1>2. TableInv(Reaped(table))
  BY <1>1, ReapedKeeps
<1>3. \A fd \in Fd : \/ Reaped(table).owners[fd] = NoRec
                     \/ /\ Reaped(table).owners[fd] = table.owners[fd]
                        /\ Reaped(table).files[fd] = table.files[fd]
  BY <1>1, ReapedKeeps
<1> QED
  BY <1>1, <1>2, <1>3, OwnersKept

\* A new file at the next descriptor.
LEMMA NewFile ==
  ASSUME NEW t, TableInv(t), OwnersInv(t, recs), NEW kind \in Device \cup Socket,
         NEW f \in FreshFile(t), t.next <= MaxFd
  PROVE  LET h == [kind |-> kind, file |-> f]
             u == Added(Opened(t, f), h)
         IN  /\ TableInv(u) /\ OwnersInv(u, recs)
             /\ u.files = [t.files EXCEPT ![t.next] = h]
             /\ u.owners = t.owners
             /\ t.next \in Fd /\ u.next = t.next + 1
             /\ h \in Handle
<1> DEFINE h == [kind |-> kind, file |-> f]
           o == Opened(t, f)
           u == Added(o, h)
<1>1. f \in File /\ t \in Table /\ t.next \in Nat
  BY DEF FreshFile, TableInv, Table
<1>2. t.next \in Fd
  BY <1>1, FdTypes
<1>3. Sound(h) /\ h \in Handle /\ h.kind # "writer"
  BY <1>1, NewFileSound
<1>4. TableInv(o) /\ o.files = t.files /\ o.owners = t.owners /\ o.next = t.next
  BY OpenedKeeps
<1> HIDE DEF h, o
<1>5. /\ TableInv(u) /\ u.files = [t.files EXCEPT ![t.next] = h] /\ u.owners = t.owners
      /\ u.next = t.next + 1
  BY <1>2, <1>3, <1>4, AddedKeeps
<1> HIDE DEF u
<1>6. OwnersInv(u, recs)
  <2>1. t.owners[t.next] = NoRec
    BY <1>1, <1>2 DEF TableInv
  <2>2. \A fd \in Fd : fd # t.next => u.files[fd] = t.files[fd]
    BY <1>1, <1>5 DEF Table
  <2>3. \A fd \in Fd : \/ u.owners[fd] = NoRec
                       \/ u.owners[fd] = t.owners[fd] /\ u.files[fd] = t.files[fd]
    BY <1>5, <2>1, <2>2
  <2> QED
    BY <2>3, OwnersKept
<1> QED
  BY <1>2, <1>3, <1>5, <1>6 DEF h, o, u

\* open and create: the new record owns the new descriptor.
LEMMA OpenStep ==
  ASSUME IInv, NEW r \in Rec, NEW kind \in Device, Open(r, kind)
  PROVE  IInv'
<1> DEFINE t == Reaped(table)
<1>1. TableInv(t) /\ OwnersInv(t, recs) /\ recs \in FdRecords
  BY ReapedOwners DEF IInv
<1>2. r \in NewRec(t)
  BY DEF Open
<1>3. CASE Leaves(t) /\ UNCHANGED recs
  BY <1>1, <1>3, LeavesKeeps
<1>4. ASSUME NEW f \in FreshFile(t), t.next <= MaxFd,
             LET u == [Added(Opened(t, f), [kind |-> kind, file |-> f]) EXCEPT !.owners[t.next] = r]
             IN  Leaves(u) /\ recs' = Named(r, t.next, u.files[t.next])
      PROVE  IInv'
  <2> DEFINE h == [kind |-> kind, file |-> f]
             a == Added(Opened(t, f), h)
             u == [a EXCEPT !.owners[t.next] = r]
  <2> HIDE DEF t
  <2>1. /\ TableInv(a) /\ OwnersInv(a, recs)
        /\ a.files = [t.files EXCEPT ![t.next] = h] /\ a.owners = t.owners
        /\ t.next \in Fd /\ a.next = t.next + 1
        /\ h \in Handle
    BY <1>1, <1>4, NewFile
  <2> HIDE DEF a
  <2>2. t.next \in Nat /\ t.files \in [Fd -> Handle] /\ t.owners \in [Fd -> Rec \cup {NoRec}]
    BY <1>1 DEF TableInv, Table
  <2>3. /\ TableInv(u) /\ u.files = a.files /\ u.owners = [a.owners EXCEPT ![t.next] = r]
    <3>1. t.next < a.next
      BY <2>1, <2>2
    <3> QED
      BY <2>1, <3>1, OwnedKeeps
  <2>4. u.files[t.next] = h
    BY <2>1, <2>2, <2>3
  <2>5. Leaves(u) /\ recs' = [recs EXCEPT ![r] = [fd |-> t.next, handle |-> h]]
    BY <1>4, <2>4 DEF a, Named
  <2>6. recs' \in FdRecords
    BY <1>1, <2>1, <2>5 DEF FdRecords
  <2>7. OwnersInv(u, recs')
    <3>1. OwnersInv(t, recs')
      BY <1>1, <1>2, <2>5, NamingKeeps DEF t
    <3>2. \A fd \in Fd : fd # t.next => u.owners[fd] = t.owners[fd] /\ u.files[fd] = t.files[fd]
      BY <2>1, <2>2, <2>3
    <3>3. u.owners[t.next] = r
      BY <2>1, <2>2, <2>3
    <3>4. recs'[r] = [fd |-> t.next, handle |-> h]
      BY <1>1, <2>5 DEF FdRecords
    <3> HIDE DEF u
    <3> QED
      BY <2>4, <3>1, <3>2, <3>3, <3>4 DEF OwnersInv
  <2> HIDE DEF u
  <2> QED
    BY <2>3, <2>5, <2>6, <2>7, LeavesKeeps
<1> QED
  BY <1>3, <1>4 DEF Open

\* open of /dev/cons: the console is owned, and never closed.
LEMMA OpenConsoleStep ==
  ASSUME IInv, NEW r \in Rec, NEW fd \in {0, 1}, OpenConsole(r, fd)
  PROVE  IInv'
<1> DEFINE t == Reaped(table)
           u == [t EXCEPT !.owners[fd] = r]
<1>1. TableInv(t) /\ OwnersInv(t, recs) /\ recs \in FdRecords
  BY ReapedOwners DEF IInv
<1>2. r \in NewRec(t) /\ fd \in Fd /\ Leaves(u) /\ recs' = Named(r, fd, u.files[fd])
  BY FdTypes DEF OpenConsole
<1> HIDE DEF t
<1>3. fd < t.next /\ t.files[fd] \in Handle
  BY <1>1, <1>2 DEF TableInv, Table
<1>4. TableInv(u) /\ u.files = t.files /\ u.owners = [t.owners EXCEPT ![fd] = r]
  BY <1>1, <1>2, <1>3, OwnedKeeps
<1>5. recs' = [recs EXCEPT ![r] = [fd |-> fd, handle |-> t.files[fd]]]
  BY <1>2, <1>4 DEF Named
<1>6. recs' \in FdRecords
  BY <1>1, <1>2, <1>3, <1>5 DEF FdRecords
<1>7. OwnersInv(u, recs')
  <2>1. OwnersInv(t, recs')
    BY <1>1, <1>2, <1>5, NamingKeeps
  <2>2. \A e \in Fd : e > 2 => u.owners[e] = t.owners[e]
    BY <1>1, <1>4, FdTypes DEF TableInv, Table
  <2>3. OwnersInv(u, recs')
    <3> SUFFICES ASSUME NEW e \in Fd, u.owners[e] # NoRec, e > 2, recs'[u.owners[e]] # Freed
                 PROVE  /\ recs'[u.owners[e]] = [fd |-> e, handle |-> u.files[e]]
                        /\ recs'[u.owners[e]].handle.kind \in Device
      BY DEF OwnersInv
    <3> QED
      BY <1>4, <2>1, <2>2 DEF OwnersInv
  <2> QED
    BY <2>3
<1> HIDE DEF u
<1> QED
  BY <1>2, <1>4, <1>6, <1>7, LeavesKeeps

\* A record that owns nothing is given the number of a new descriptor.
LEMMA NameKeeps ==
  ASSUME IInv, NEW t, NEW r \in NewRec(table), NEW fd \in Fd, NEW h \in Handle,
         TableInv(t), OwnersInv(t, recs), t.owners = table.owners, Leaves(t),
         recs' = Named(r, fd, h)
  PROVE  IInv'
<1>1. recs' = [recs EXCEPT ![r] = [fd |-> fd, handle |-> h]] /\ recs \in FdRecords
  BY DEF Named, IInv
<1>2. r \in NewRec(t) /\ r \in Rec
  BY DEF NewRec
<1>3. OwnersInv(t, recs')
  <2>1. OwnersInv(t, [recs EXCEPT ![r] = [fd |-> fd, handle |-> h]])
    BY <1>1, <1>2, NamingKeeps
  <2> QED
    BY <1>1, <2>1
<1>4. recs' \in FdRecords
  BY <1>1, <1>2 DEF FdRecords
<1> QED
  BY <1>3, <1>4, LeavesKeeps

\* Closed is what an empty descriptor holds.
LEMMA ClosedHandle == Closed \in Handle
BY DEF Closed, Handle

\* dial and announce.
LEMMA ConnectStep ==
  ASSUME IInv, NEW r \in Rec, NEW kind \in Socket, Connect(r, kind)
  PROVE  IInv'
<1>1. PICK f \in FreshFile(table) :
        LET t == Added(Opened(table, f), [kind |-> kind, file |-> f])
        IN  Leaves(t) /\ recs' = Named(r, table.next, Closed)
  BY DEF Connect
<1> DEFINE t == Added(Opened(table, f), [kind |-> kind, file |-> f])
<1>2. TableInv(table) /\ OwnersInv(table, recs) /\ r \in NewRec(table) /\ table.next <= MaxFd
  BY DEF IInv, Connect
<1>3. TableInv(t) /\ OwnersInv(t, recs) /\ t.owners = table.owners /\ table.next \in Fd
  <2>1. kind \in Device \cup Socket
    OBVIOUS
  <2> QED
    BY <1>2, <2>1, NewFile
<1> HIDE DEF t
<1> QED
  BY <1>1, <1>2, <1>3, ClosedHandle, NameKeeps DEF t

\* pipe names its two descriptors in two records that own nothing.
LEMMA PipeStep ==
  ASSUME IInv, NEW r \in Rec, NEW w \in Rec, Pipe(r, w)
  PROVE  IInv'
<1> DEFINE n == table.next
<1>1. PICK f \in FreshFile(table) :
        /\ Leaves(Piped(table, f))
        /\ recs' = [Named(r, n, Closed) EXCEPT ![w] = [fd |-> n + 1, handle |-> Closed]]
  BY DEF Pipe
<1> DEFINE t == Piped(table, f)
           one == [recs EXCEPT ![r] = [fd |-> n, handle |-> Closed]]
           two == [one EXCEPT ![w] = [fd |-> n + 1, handle |-> Closed]]
<1>2. /\ TableInv(table) /\ OwnersInv(table, recs) /\ recs \in FdRecords
      /\ r \in NewRec(table) /\ w \in NewRec(table) /\ n < MaxFd /\ n \in Nat
      /\ table \in Table
  BY DEF IInv, Pipe, TableInv, Table
<1>3. n \in Fd /\ n + 1 \in Fd /\ n # n + 1
  BY <1>2, FdTypes, FileConstants
<1>4. /\ TableInv(t) /\ t.owners = table.owners
      /\ t.files = [table.files EXCEPT ![n] = [kind |-> "reader", file |-> f],
                                       ![n + 1] = WriteEnd(f)]
  BY <1>2, <1>3, PipedKeeps
<1> HIDE DEF t
<1>5. OwnersInv(t, recs)
  <2>1. table.owners[n] = NoRec /\ table.owners[n + 1] = NoRec
    BY <1>2, <1>3 DEF TableInv
  <2>2. \A fd \in Fd : fd # n /\ fd # n + 1 => t.files[fd] = table.files[fd]
    BY <1>2, <1>3, <1>4 DEF Table
  <2>3. \A fd \in Fd : \/ t.owners[fd] = NoRec
                       \/ t.owners[fd] = table.owners[fd] /\ t.files[fd] = table.files[fd]
    BY <1>4, <2>1, <2>2
  <2> QED
    BY <1>2, <2>3, OwnersKept
<1>6. r \in NewRec(t) /\ w \in NewRec(t)
  BY <1>2, <1>4 DEF NewRec
<1>7. recs' = two
  BY <1>1 DEF Named
<1>8. one \in FdRecords
  BY <1>2, <1>3, ClosedHandle DEF FdRecords
<1>9. OwnersInv(t, one)
  BY <1>2, <1>4, <1>5, <1>6, NamingKeeps
<1> HIDE DEF one
<1>10. OwnersInv(t, two) /\ two \in FdRecords
  BY <1>3, <1>4, <1>6, <1>8, <1>9, ClosedHandle, NamingKeeps DEF FdRecords
<1> HIDE DEF two
<1> QED
  BY <1>1, <1>4, <1>7, <1>10, LeavesKeeps DEF t

\* listen: a listener that is lost was nobody's, because only open and create make owners.
LEMMA ListenStep ==
  ASSUME IInv, NEW c \in Rec, NEW r \in Rec, Listen(c, r)
  PROVE  IInv'
<1> DEFINE fd == FdOf(c)
<1>1. TableInv(table) /\ OwnersInv(table, recs) /\ recs \in FdRecords /\ r \in NewRec(table)
  BY DEF IInv, Listen
<1>2. ASSUME NEW f \in FreshFile(table), table.next <= MaxFd,
             LET t == Accepted(table, fd, f)
             IN  Leaves(t) /\ recs' = Named(r, table.next, Closed)
      PROVE  IInv'
  <2>1. f \in File /\ table.next \in Fd /\ table.next \in Nat
    BY <1>1, <1>2, FdTypes DEF FreshFile, TableInv, Table
  <2> DEFINE h == [kind |-> "stream", file |-> f]
             o == Opened(table, f)
             t == Added(o, h)
  <2>2. Sound(h) /\ h.kind # "writer"
    BY <2>1 DEF Sound, Handle, Kind, CanRead, IsPipeEnd
  <2>3. TableInv(o) /\ o.files = table.files /\ o.owners = table.owners /\ o.next = table.next
    BY <1>1, OpenedKeeps
  <2>4. Accepted(table, fd, f) = t
    BY DEF Accepted
  <2> HIDE DEF h, o
  <2>5. /\ TableInv(t) /\ t.owners = table.owners
        /\ t.files = [table.files EXCEPT ![table.next] = h]
    BY <2>1, <2>2, <2>3, AddedKeeps
  <2> HIDE DEF t
  <2>6. \A e \in Fd : \/ t.owners[e] = NoRec
                      \/ t.owners[e] = table.owners[e] /\ t.files[e] = table.files[e]
    BY <1>1, <2>1, <2>5 DEF TableInv, Table
  <2>7. OwnersInv(t, recs)
    BY <1>1, <2>6, OwnersKept
  <2> QED
    BY <1>1, <1>2, <2>1, <2>4, <2>5, <2>7, ClosedHandle, NameKeeps
<1>3. CASE HandleAt(fd).kind = "listener" /\ Leaves(Inserted(table, fd, Closed)) /\ UNCHANGED recs
  <2>1. fd \in Fd /\ table.files[fd].kind = "listener"
    BY <1>3 DEF HandleAt, Closed
  <2> DEFINE t == Inserted(table, fd, Closed)
  <2>2. \A f \in File : Closed # WriteEnd(f)
    BY DEF Closed, WriteEnd
  <2> HIDE DEF fd
  <2>3. TableInv(t) /\ t.files = [table.files EXCEPT ![fd] = Closed] /\ t.owners = table.owners
    BY <1>1, <2>1, <2>2, AwaitingNothing, ClosedIsSound, InsertedKeeps
  <2> HIDE DEF t
  <2>4. OwnersInv(t, recs)
    <3> SUFFICES ASSUME NEW e \in Fd, t.owners[e] # NoRec, e > 2, recs[t.owners[e]] # Freed
                 PROVE  /\ recs[t.owners[e]] = [fd |-> e, handle |-> t.files[e]]
                        /\ recs[t.owners[e]].handle.kind \in Device
      BY DEF OwnersInv
    <3>1. /\ recs[table.owners[e]] = [fd |-> e, handle |-> table.files[e]]
          /\ recs[table.owners[e]].handle.kind \in Device
      BY <1>1, <2>3 DEF OwnersInv
    <3>2. e # fd
      <4>1. table.files[e].kind \in Device
        BY <3>1
      <4> QED
        BY <2>1, <4>1, FileConstants
    <3> QED
      BY <1>1, <2>3, <3>1, <3>2 DEF TableInv, Table
  <2> QED
    BY <1>1, <1>3, <2>3, <2>4, LeavesKeeps DEF t
<1>4. CASE Leaves(table) /\ UNCHANGED recs
  BY <1>1, <1>4, LeavesKeeps
<1> QED
  BY <1>2, <1>3, <1>4 DEF Listen

\* fildes: another record, which owns nothing.
LEMMA FildesStep ==
  ASSUME IInv, NEW fd \in Fd, NEW r \in Rec, Fildes(fd, r)
  PROVE  IInv'
<1>1. TableInv(table) /\ OwnersInv(table, recs)
  BY DEF IInv
<1> QED
  BY <1>1, ClosedHandle, NameKeeps DEF Fildes

\* dup takes the descriptor from its owner.
LEMMA DupStep ==
  ASSUME IInv, NEW old \in Fd, NEW new \in DupTo, Dup(old, new)
  PROVE  IInv'
<1> DEFINE target == IF new < 0 THEN table.next ELSE new
           t == Duplicated(table, old, target)
<1>1. TableInv(table) /\ OwnersInv(table, recs) /\ recs \in FdRecords /\ table \in Table
  BY DEF IInv, TableInv
<1>2. target \in Fd /\ recs' = recs
  BY DEF Dup
<1> HIDE DEF target
<1>3. CASE Leaves(t)
  <2>1. /\ TableInv(t) /\ t.files = [table.files EXCEPT ![target] = table.files[old]]
        /\ t.owners = [table.owners EXCEPT ![target] = NoRec]
    BY <1>1, <1>2, DuplicatedKeeps
  <2> HIDE DEF t
  <2>2. \A fd \in Fd : \/ t.owners[fd] = NoRec
                       \/ t.owners[fd] = table.owners[fd] /\ t.files[fd] = table.files[fd]
    BY <1>1, <1>2, <2>1 DEF Table
  <2>3. OwnersInv(t, recs)
    BY <1>1, <2>2, OwnersKept
  <2> QED
    BY <1>1, <1>2, <1>3, <2>1, <2>3, LeavesKeeps
<1>4. CASE Leaves(table)
  BY <1>1, <1>2, <1>4, LeavesKeeps
<1> QED
  BY <1>3, <1>4 DEF Dup, target

\* A record that goes leaves its descriptors for the next open to reclaim.
LEMMA ReleaseStep ==
  ASSUME IInv, NEW r \in Rec, Release(r)
  PROVE  IInv'
<1>1. /\ recs' = [recs EXCEPT ![r] = Freed] /\ ret' = "ok"
      /\ table' = table /\ calls' = calls /\ stdin' = stdin
      /\ recs \in FdRecords /\ OwnersInv(table, recs) /\ table \in Table
  BY DEF Release, IInv, TableInv
<1>2. Freed \in [fd : Fd \cup {NoFd}, handle : Handle]
  BY ClosedHandle DEF Freed
<1>3. recs' \in FdRecords
  BY <1>1, <1>2 DEF FdRecords
<1>4. OwnersInv(table, recs')
  <2> SUFFICES ASSUME NEW e \in Fd, table.owners[e] # NoRec, e > 2,
                      recs'[table.owners[e]] # Freed
               PROVE  /\ recs'[table.owners[e]] = [fd |-> e, handle |-> table.files[e]]
                      /\ recs'[table.owners[e]].handle.kind \in Device
    BY DEF OwnersInv
  <2>1. table.owners[e] \in Rec
    BY <1>1 DEF Table
  <2>2. recs'[table.owners[e]] = recs[table.owners[e]]
    BY <1>1, <2>1 DEF FdRecords
  <2> QED
    BY <1>1, <2>2 DEF OwnersInv
<1> QED
  BY <1>1, <1>3, <1>4 DEF IInv, TableInv, EndsIn, OwnersInv

\* Bytes in a queue are all that a read or a write changes of the table.
LEMMA QueueKeeps ==
  ASSUME NEW t, NEW rs, NEW f \in File, NEW n \in 0 .. MaxQueue,
         TableInv(t), OwnersInv(t, rs)
  PROVE  TableInv([t EXCEPT !.queued[f] = n]) /\ OwnersInv([t EXCEPT !.queued[f] = n], rs)
<1> DEFINE u == [t EXCEPT !.queued[f] = n]
<1>1. /\ u \in Table /\ u.files = t.files /\ u.owners = t.owners /\ u.next = t.next
      /\ u.writers = t.writers
  BY DEF TableInv, Table
<1> HIDE DEF u
<1>2. TableInv(u) /\ OwnersInv(u, rs)
  BY <1>1 DEF TableInv, OwnersInv, EndsIn
<1> QED
  BY <1>2 DEF u

\* A pipe takes a byte only while its queue has room.
LEMMA WrittenToKeeps ==
  ASSUME NEW t, NEW rs, NEW h, TableInv(t), OwnersInv(t, rs), h \in Handle,
         h.kind = "writer" => h.file \in File
  PROVE  TableInv(WrittenTo(t, h)) /\ OwnersInv(WrittenTo(t, h), rs)
<1>1. CASE h.kind = "writer" /\ t.queued[h.file] < MaxQueue
  <2> DEFINE f == h.file
             n == t.queued[f] + 1
  <2>1. f \in File /\ n \in 0 .. MaxQueue
    BY <1>1, FileConstants DEF TableInv, Table
  <2>2. WrittenTo(t, h) = [t EXCEPT !.queued[f] = n]
    BY <1>1 DEF WrittenTo
  <2> HIDE DEF f, n
  <2> QED
    BY <2>1, <2>2, QueueKeeps
<1>2. CASE ~ (h.kind = "writer" /\ t.queued[h.file] < MaxQueue)
  BY <1>2 DEF WrittenTo
<1> QED
  BY <1>1, <1>2

\* What any number names is a sound handle, or Closed.
LEMMA HandleAtSound ==
  ASSUME IInv, NEW fd
  PROVE  HandleAt(fd) \in Handle /\ Sound(HandleAt(fd))
<1>1. TableInv(table)
  BY DEF IInv
<1> QED
  BY <1>1, HandleSound, ClosedHandle, ClosedIsSound DEF HandleAt

\* write and fprint.
LEMMA WriteStep ==
  ASSUME IInv, NEW r \in Rec, Write(r)
  PROVE  IInv'
<1> DEFINE h == HandleAt(FdOf(r))
<1>1. TableInv(table) /\ OwnersInv(table, recs) /\ recs \in FdRecords /\ recs' = recs
  BY DEF IInv, Write
<1>2. h \in Handle /\ (h.kind = "writer" => h.file \in File)
  BY HandleAtSound DEF Sound, IsPipeEnd
<1>3. TableInv(WrittenTo(table, h)) /\ OwnersInv(WrittenTo(table, h), recs)
  BY <1>1, <1>2, WrittenToKeeps
<1>4. CASE Leaves(WrittenTo(table, h))
  BY <1>1, <1>3, <1>4, LeavesKeeps
<1>5. CASE Leaves(table)
  BY <1>1, <1>5, LeavesKeeps
<1> QED
  BY <1>4, <1>5 DEF Write

-----------------------------------------------------------------------------
(* Reads.                                                                     *)

\* A step that leaves the descriptors alone.
LEMMA CallsKeep ==
  ASSUME IInv, TableInv(table'), OwnersInv(table', recs), recs' = recs,
         calls' \in Seq(ReadCall), Len(calls') <= 2,
         stdin' \in [data : 0 .. MaxInput, eof : BOOLEAN], ret' \in {"ok", "eof", "error"}
  PROVE  IInv'
BY DEF IInv, TableInv, OwnersInv, EndsIn

\* A read begins alone, or beside one that has handed over.
LEMMA BeginStep ==
  ASSUME IInv, NEW op \in Op, NEW r \in Rec, NEW to \in StreamTo, Begin(op, r, to)
  PROVE  IInv'
<1> DEFINE c == [op |-> op, fd |-> FdOf(r), got |-> 0, yielded |-> FALSE,
                 to |-> IF op = "stream" THEN to ELSE NoFd]
<1>1. /\ table' = table /\ recs' = recs /\ stdin' = stdin /\ ret' = "ok"
      /\ calls' = Append(calls, c) /\ Len(calls) <= 1
      /\ TableInv(table) /\ OwnersInv(table, recs) /\ calls \in Seq(ReadCall)
      /\ stdin \in [data : 0 .. MaxInput, eof : BOOLEAN]
  BY DEF Begin, Running, IInv
<1>2. FdOf(r) \in Int
  BY FileConstants, FdTypes DEF IInv, FdRecords, FdOf, NoRec
<1>3. (IF op = "stream" THEN to ELSE NoFd) \in Int
  BY FileConstants, FdTypes
<1>4. c \in ReadCall
  BY <1>2, <1>3 DEF ReadCall
<1> HIDE DEF c
<1>5. calls' \in Seq(ReadCall) /\ Len(calls') <= 2
  BY <1>1, <1>4
<1> QED
  BY <1>1, <1>5, CallsKeep

\* The innermost call returns.
LEMMA Returns ==
  ASSUME IInv, NEW a \in {"data", "eof", "error"}, calls # <<>>, Return(a)
  PROVE  calls' \in Seq(ReadCall) /\ Len(calls') = Len(calls) - 1 /\ Len(calls') <= 2
         /\ ret' \in {"ok", "eof", "error"}
<1>1. calls \in Seq(ReadCall) /\ Len(calls) \in 1 .. 2
  <2>1. calls \in Seq(ReadCall) /\ Len(calls) <= 2
    BY DEF IInv
  <2> QED
    BY <2>1, EmptySeq
<1>2. calls' = SubSeq(calls, 1, Len(calls) - 1) /\ ret' = IF a = "data" THEN "ok" ELSE a
  BY DEF Return
<1>3. \A i \in 1 .. Len(calls) - 1 : calls[i] \in ReadCall
  BY <1>1
<1>4. Len(calls) - 1 \in Int
  BY <1>1
<1>5. /\ SubSeq(calls, 1, Len(calls) - 1) \in Seq(ReadCall)
      /\ Len(SubSeq(calls, 1, Len(calls) - 1)) = Len(calls) - 1
  <2> DEFINE n == Len(calls) - 1
  <2>1. n = IF 1 <= n THEN n - 1 + 1 ELSE 0
    BY <1>1
  <2> HIDE DEF n
  <2> QED
    BY <1>3, <1>4, <2>1, SubSeqProperties DEF n
<1> QED
  BY <1>1, <1>2, <1>5

\* The innermost call, and the handles it reads from and writes to.
LEMMA TopCall ==
  ASSUME IInv, calls # <<>>
  PROVE  Top \in ReadCall /\ Len(calls) \in 1 .. 2 /\ Source \in Handle /\ Sound(Source)
         /\ Target \in Handle /\ Sound(Target)
<1>1. calls \in Seq(ReadCall) /\ Len(calls) <= 2
  BY DEF IInv
<1>2. Len(calls) \in 1 .. 2
  <2>1. Len(calls) \in Nat \ {0}
    BY <1>1, EmptySeq
  <2>2. \A n \in Nat \ {0} : n <= 2 => n \in 1 .. 2
    OBVIOUS
  <2> QED
    BY <1>1, <2>1, <2>2
<1>3. Top \in ReadCall
  BY <1>1, <1>2 DEF Top
<1> QED
  BY <1>2, <1>3, HandleAtSound DEF Source, Target

\* The end of a file, or a handle that cannot be read.
LEMMA FinishStep ==
  ASSUME IInv, Finish
  PROVE  IInv'
<1>1. PICK end \in Outcomes(Source) \ {"data", "wait"} :
        Return(IF Top.got > 0 THEN "data" ELSE end)
  BY DEF Finish
<1>2. end \in {"eof", "error"}
  BY <1>1 DEF Outcomes
<1>3. /\ TableInv(table) /\ OwnersInv(table, recs) /\ calls # <<>>
      /\ table' = table /\ recs' = recs /\ stdin' = stdin
      /\ stdin \in [data : 0 .. MaxInput, eof : BOOLEAN]
  BY DEF IInv, Finish
<1>4. calls' \in Seq(ReadCall) /\ Len(calls') <= 2 /\ ret' \in {"ok", "eof", "error"}
  BY <1>1, <1>2, <1>3, Returns
<1> QED
  BY <1>3, <1>4, CallsKeep

\* Nobody is left to write into the pipe.
LEMMA GiveUpStep ==
  ASSUME IInv, GiveUp
  PROVE  IInv'
<1>1. Return(IF Top.got > 0 THEN "data" ELSE "error")
  BY DEF GiveUp
<1>2. /\ TableInv(table) /\ OwnersInv(table, recs) /\ calls # <<>>
      /\ table' = table /\ recs' = recs /\ stdin' = stdin
      /\ stdin \in [data : 0 .. MaxInput, eof : BOOLEAN]
  BY DEF IInv, GiveUp
<1>3. calls' \in Seq(ReadCall) /\ Len(calls') <= 2 /\ ret' \in {"ok", "eof", "error"}
  BY <1>1, <1>2, Returns
<1> QED
  BY <1>2, <1>3, CallsKeep

\* The first read hands the OS thread over.
LEMMA YieldStep ==
  ASSUME IInv, Yield
  PROVE  IInv'
<1>0. /\ TableInv(table) /\ OwnersInv(table, recs)
      /\ table' = table /\ recs' = recs /\ stdin' = stdin /\ ret' = "ok"
      /\ stdin \in [data : 0 .. MaxInput, eof : BOOLEAN]
  BY DEF IInv, Yield
<1>1. /\ calls \in Seq(ReadCall) /\ Len(calls) = 1
      /\ calls' = [calls EXCEPT ![1].yielded = TRUE]
  BY DEF IInv, Yield
<1>2. [calls[1] EXCEPT !.yielded = TRUE] \in ReadCall
  <2>1. 1 \in 1 .. Len(calls)
    BY <1>1
  <2>2. calls[1] \in ReadCall
    BY <1>1, <2>1, ElementOfSeq
  <2> QED
    BY <2>2 DEF ReadCall
<1>3. calls' = [calls EXCEPT ![1] = [calls[1] EXCEPT !.yielded = TRUE]]
  BY <1>1
<1>4. calls' \in Seq(ReadCall) /\ Len(calls') = 1
  BY <1>1, <1>2, <1>3, ExceptSeq
<1>5. TableInv(table') /\ OwnersInv(table', recs) /\ Len(calls') <= 2 /\ recs' = recs
      /\ stdin' \in [data : 0 .. MaxInput, eof : BOOLEAN] /\ ret' \in {"ok", "eof", "error"}
  BY <1>0, <1>4
<1> QED
  BY <1>4, <1>5, CallsKeep

\* A read that got data: the queue it came from is one byte shorter.
LEMMA TakenKeeps ==
  ASSUME IInv, calls # <<>>, "data" \in Outcomes(Source)
  PROVE  TableInv(Taken(Source)) /\ OwnersInv(Taken(Source), recs)
<1>1. TableInv(table) /\ OwnersInv(table, recs)
  BY DEF IInv
<1>2. CASE Source.kind = "reader"
  <2> DEFINE f == Source.file
             n == table.queued[f] - 1
  <2>1. table.queued[f] > 0
    BY <1>2 DEF Outcomes
  <2>2. f \in File
    BY <1>2, TopCall DEF Sound, IsPipeEnd
  <2>3. n \in 0 .. MaxQueue
    BY <1>1, <2>1, <2>2, FileConstants DEF TableInv, Table
  <2>4. Taken(Source) = [table EXCEPT !.queued[f] = n]
    BY <1>2 DEF Taken
  <2> HIDE DEF f, n
  <2>5. /\ TableInv([table EXCEPT !.queued[f] = n])
        /\ OwnersInv([table EXCEPT !.queued[f] = n], recs)
    BY <1>1, <2>2, <2>3, QueueKeeps
  <2> QED
    BY <2>4, <2>5
<1>3. CASE Source.kind # "reader"
  BY <1>1, <1>3 DEF Taken
<1> QED
  BY <1>2, <1>3

\* Data: a byte leaves one queue, and stream may put it into another.
LEMMA TakeDataStep ==
  ASSUME IInv, TakeData
  PROVE  IInv'
<1>1. calls # <<>> /\ "data" \in Outcomes(Source) /\ recs' = recs
  BY DEF TakeData
<1>2. TableInv(table') /\ OwnersInv(table', recs)
  <2>1. Target \in Handle /\ (Target.kind = "writer" => Target.file \in File)
    BY <1>1, TopCall DEF Sound, IsPipeEnd
  <2>2. TableInv(Taken(Source)) /\ OwnersInv(Taken(Source), recs)
    BY <1>1, TakenKeeps
  <2>3. /\ TableInv(WrittenTo(Taken(Source), Target))
        /\ OwnersInv(WrittenTo(Taken(Source), Target), recs)
    BY <2>1, <2>2, WrittenToKeeps
  <2>4. table' = IF Top.op = "stream" THEN WrittenTo(Taken(Source), Target) ELSE Taken(Source)
    BY DEF TakeData
  <2> QED
    BY <2>2, <2>3, <2>4
<1>3. stdin' \in [data : 0 .. MaxInput, eof : BOOLEAN]
  <2>1. stdin \in [data : 0 .. MaxInput, eof : BOOLEAN]
    BY DEF IInv
  <2>2. CASE Source.kind = "stdin"
    <3>1. stdin.data > 0 /\ stdin' = [stdin EXCEPT !.data = @ - 1]
      BY <1>1, <2>2 DEF Outcomes, TakeData
    <3> QED
      BY <2>1, <3>1, FileConstants
  <2>3. CASE Source.kind # "stdin"
    BY <2>1, <2>3 DEF TakeData
  <2> QED
    BY <2>2, <2>3
<1>4. calls' \in Seq(ReadCall) /\ Len(calls') <= 2 /\ ret' \in {"ok", "eof", "error"}
  <2>1. CASE Return("data") \/ Return("error")
    BY <1>1, <2>1, Returns
  <2>2. CASE /\ calls' = [calls EXCEPT ![Len(calls)].got = IF Top.op = "readn" THEN 1 ELSE 0,
                                       ![Len(calls)].yielded = FALSE]
             /\ ret' = "ok"
    <3>1. Top \in ReadCall /\ Len(calls) \in 1 .. 2 /\ calls \in Seq(ReadCall)
      BY <1>1, TopCall DEF IInv
    <3> DEFINE c == [Top EXCEPT !.got = IF Top.op = "readn" THEN 1 ELSE 0, !.yielded = FALSE]
    <3>2. c \in ReadCall
      <4> HIDE DEF Top
      <4>1. (IF Top.op = "readn" THEN 1 ELSE 0) \in 0 .. 1
        OBVIOUS
      <4> QED
        BY <3>1, <4>1 DEF ReadCall
    <3>3. calls' = [calls EXCEPT ![Len(calls)] = c]
      BY <2>2, <3>1 DEF Top
    <3> HIDE DEF c
    <3>4. calls' \in Seq(ReadCall) /\ Len(calls') = Len(calls)
      BY <3>1, <3>2, <3>3, ExceptSeq
    <3> QED
      BY <2>2, <3>1, <3>4
  <2> QED
    BY <2>1, <2>2 DEF TakeData
<1> QED
  BY <1>1, <1>2, <1>3, <1>4, CallsKeep

\* The thread that reads stdin.
LEMMA HostStep ==
  ASSUME IInv, Host
  PROVE  IInv'
<1>1. /\ table' = table /\ recs' = recs /\ calls' = calls /\ ret' = ret
      /\ stdin \in [data : 0 .. MaxInput, eof : BOOLEAN]
      /\ TableInv(table) /\ OwnersInv(table, recs) /\ calls \in Seq(ReadCall) /\ Len(calls) <= 2
      /\ ret \in {"ok", "eof", "error"}
  BY DEF Host, HostInput, HostEof, IInv
<1>2. stdin' \in [data : 0 .. MaxInput, eof : BOOLEAN]
  <2>1. CASE HostInput
    BY <1>1, <2>1, FileConstants DEF HostInput
  <2>2. CASE HostEof
    BY <1>1, <2>2 DEF HostEof
  <2> QED
    BY <2>1, <2>2 DEF Host
<1> QED
  BY <1>1, <1>2, CallsKeep

-----------------------------------------------------------------------------
(* The theorems.                                                              *)

\* The table of a VM that has just started: the console, and no file.
LEMMA InitInv == Init => IInv
<1> SUFFICES ASSUME Init
             PROVE  IInv
  OBVIOUS
<1>1. table = [files |-> [fd \in Fd |-> IF fd <= 2 THEN Std[fd + 1] ELSE Closed], next |-> 3,
               owners |-> [fd \in Fd |-> NoRec], queued |-> [f \in File |-> 0],
               writers |-> [f \in File |-> 0]]
  BY DEF Init
<1>2. \A fd \in Fd : /\ table.files[fd] \in Handle /\ ~ IsPipeEnd(table.files[fd])
                     /\ fd >= 3 => table.files[fd] = Closed
  <2> SUFFICES ASSUME NEW fd \in Fd
               PROVE  /\ table.files[fd] \in Handle /\ ~ IsPipeEnd(table.files[fd])
                      /\ fd >= 3 => table.files[fd] = Closed
    OBVIOUS
  <2>1. CASE fd <= 2
    <3>1. fd \in {0, 1, 2}
      BY <2>1, FdTypes
    <3>2. table.files[fd] = Std[fd + 1]
      BY <1>1, <2>1
    <3>3. Std[fd + 1] \in {[kind |-> "stdin", file |-> "none"], [kind |-> "stdout", file |-> "none"]}
      BY <3>1 DEF Std
    <3> QED
      BY <3>1, <3>2, <3>3 DEF Handle, Kind, CanRead, CanWrite, IsPipeEnd
  <2>2. CASE ~ (fd <= 2)
    BY <1>1, <2>2, ClosedHandle DEF IsPipeEnd, Closed
  <2> QED
    BY <2>1, <2>2
<1>3. table \in Table
  <2>1. 0 \in 0 .. MaxQueue
    BY FileConstants
  <2>2. table.files \in [Fd -> Handle]
    BY <1>1, <1>2
  <2>3. table = [files |-> table.files, next |-> 3,
                 owners |-> [fd \in Fd |-> NoRec], queued |-> [f \in File |-> 0],
                 writers |-> [f \in File |-> 0]]
    BY <1>1
  <2> QED
    BY <2>1, <2>2, <2>3 DEF Table
<1>4. ASSUME NEW f \in File
      PROVE  table.writers[f] = Cardinality(EndsIn(table, f))
  <2>1. EndsIn(table, f) = {}
    BY <1>2 DEF EndsIn, IsPipeEnd
  <2> QED
    BY <1>1, <2>1, FS_EmptySet
<1>5. table.next = 3 /\ \A fd \in Fd : table.owners[fd] = NoRec
  BY <1>1
<1>6. TableInv(table)
  BY <1>2, <1>3, <1>4, <1>5 DEF TableInv, IsPipeEnd
<1>7. OwnersInv(table, recs)
  BY <1>5 DEF OwnersInv
<1>8. recs \in FdRecords
  BY ClosedHandle DEF Init, FdRecords, Freed
<1>9. /\ calls \in Seq(ReadCall) /\ Len(calls) <= 2
      /\ stdin \in [data : 0 .. MaxInput, eof : BOOLEAN] /\ ret \in {"ok", "eof", "error"}
  BY FileConstants, EmptySeq DEF Init
<1> QED
  BY <1>6, <1>7, <1>8, <1>9 DEF IInv

\* Every step keeps the invariant.
LEMMA NextInv == IInv /\ [Next]_vars => IInv'
<1> SUFFICES ASSUME IInv, [Next]_vars
             PROVE  IInv'
  OBVIOUS
<1>1. CASE Guest
  BY <1>1, OpenStep, OpenConsoleStep, ConnectStep, PipeStep, ListenStep, FildesStep, ReleaseStep,
     WriteStep, DupStep, BeginStep DEF Guest
<1>2. CASE Attempt
  BY <1>2, TakeDataStep, FinishStep, YieldStep, GiveUpStep DEF Attempt
<1>3. CASE Host
  BY <1>3, HostStep
<1>4. CASE UNCHANGED vars
  BY <1>4 DEF vars, IInv, TableInv, OwnersInv, EndsIn
<1> QED
  BY <1>1, <1>2, <1>3, <1>4 DEF Next

\* Whatever the calls of the Sys module do, in any order and with reads under way: the invariant
\* of the table and of the records that own its descriptors.
THEOREM Invariant == Spec => []IInv
<1>1. Init => IInv
  BY InitInv
<1>2. IInv /\ [Next]_vars => IInv'
  BY NextInv
<1> QED
  BY <1>1, <1>2, PTL DEF Spec

\* The table, the records, the calls in progress and stdin keep their types: no queue beyond its
\* bound, no third read.
THEOREM TypeCorrect == Spec => []TypeOK
<1>1. IInv => TypeOK
  BY DEF IInv, TableInv, Table, FdRecords, TypeOK
<1> QED
  BY <1>1, Invariant, PTL

\* The count of PipeWriter clones is the number of write ends in the table, through any sequence
\* of pipe, dup onto a used descriptor, reclaiming and new files (pipe and its Drop, filetab.rs).
THEOREM WritersAreCounted == Spec => []WritersCounted
<1>1. IInv => WritersCounted
  BY DEF IInv, TableInv, EndsIn, WritersCounted, WriteEnds
<1> QED
  BY <1>1, Invariant, PTL

\* A reclaimed record closes its own file, and a new descriptor is nobody's
\* (reap_reclaimed_fds and dup, filetab.rs).
THEOREM OwnersOwnTheirs == Spec => []OwnersOwn
<1>1. ASSUME IInv
      PROVE  OwnersOwn
  <2>1. NextIsFree
    BY <1>1 DEF IInv, TableInv, NextIsFree
  <2>2. ASSUME NEW fd \in Fd, table.owners[fd] # NoRec, recs[table.owners[fd]] # Freed, fd > 2
        PROVE  recs[table.owners[fd]] = [fd |-> fd, handle |-> table.files[fd]]
    BY <1>1, <2>2 DEF IInv, OwnersInv
  <2> QED
    BY <2>1, <2>2 DEF OwnersOwn
<1> QED
  BY <1>1, Invariant, PTL

\* The calls that are not reads answer ok.
LEMMA GuestIsOk == Guest => ret' = "ok"
BY DEF Guest, Open, OpenConsole, Connect, Pipe, Listen, Fildes, Release, Write, Dup, Begin,
       Leaves

\* Only Finish gives a caller the end of a file.
LEMMA EndComesFromFinish ==
  ASSUME Next, ret' = "eof", Len(calls') < Len(calls)
  PROVE  Finish
<1>1. ~ Guest
  BY GuestIsOk
<1>2. ~ TakeData
  BY DEF TakeData, Return
<1>3. ~ Yield
  BY DEF Yield
<1>4. ~ GiveUp
  BY DEF GiveUp, Return
<1>5. ~ Host
  <2>1. ASSUME calls' = calls
        PROVE  FALSE
    BY <2>1
  <2> QED
    BY <2>1 DEF Host, HostInput, HostEof
<1> QED
  BY <1>1, <1>2, <1>3, <1>4, <1>5 DEF Next, Attempt

\* A reader sees the end of a pipe only when no write end is left in the table and its queue is
\* read out: read and readn cannot end early because a duplicate of a write end was forgotten, or
\* because the write end was closed with bytes on the way (PipeReader::read, filetab.rs).
THEOREM PipesEndOnce == Spec => PipeEndsOnce
<1> DEFINE Ends == /\ WriteEnds(Source.file) = {}
                   /\ table.queued[Source.file] = 0
<1>1. ASSUME IInv, Next, ret' = "eof", Len(calls') < Len(calls), Source.kind = "reader"
      PROVE  Ends
  <2>1. Finish
    BY <1>1, EndComesFromFinish
  <2>2. calls # <<>>
    BY <2>1 DEF Finish
  <2>3. PICK end \in Outcomes(Source) : Return(IF Top.got > 0 THEN "data" ELSE end)
    BY <2>1 DEF Finish
  <2>4. "eof" \in Outcomes(Source)
    BY <1>1, <2>3 DEF Return
  <2> DEFINE f == Source.file
  <2>5. f \in File
    BY <1>1, <2>2, TopCall DEF Sound, IsPipeEnd
  <2>6. ~ (table.queued[f] > 0) /\ table.writers[f] = 0
    BY <1>1, <2>4 DEF Outcomes
  <2> HIDE DEF f
  <2>7. table.queued[f] \in 0 .. MaxQueue /\ table.writers[f] = Cardinality(EndsIn(table, f))
    BY <1>1, <2>5 DEF IInv, TableInv, Table
  <2>8. table.queued[f] = 0
    BY <2>6, <2>7, FileConstants
  <2>9. EndsIn(table, f) = {}
    <3>1. EndsIn(table, f) \in SUBSET Fd
      BY DEF EndsIn
    <3>2. IsFiniteSet(EndsIn(table, f))
      BY <3>1, FdFinite, FS_Subset
    <3> QED
      BY <2>6, <2>7, <3>2, FS_EmptySet
  <2> QED
    BY <2>8, <2>9 DEF EndsIn, WriteEnds, f
<1>2. ASSUME IInv
      PROVE  [ret' = "eof" /\ Len(calls') < Len(calls) /\ Source.kind = "reader" => Ends]_vars
               \/ ~ [Next]_vars
  BY <1>1, <1>2
<1> QED
  BY <1>2, Invariant, PTL DEF Spec, PipeEndsOnce

=============================================================================
