---------------------------- MODULE FileTableProps ----------------------------
(***************************************************************************)
(* What must be true of the descriptors of FileTable.                      *)
(***************************************************************************)
EXTENDS FileTable

WriteEnds(f) == {fd \in Fd : table.files[fd] = [kind |-> "writer", file |-> f]}

\* The count that decides about end of file is the number of write ends in the table,
\* whatever was duplicated, overwritten or closed.
WritersCounted == \A f \in File : table.writers[f] = Cardinality(WriteEnds(f))

\* The numbers from table.next on are the ones that open, create, pipe, dial and listen hand out.
NextIsFree == \A fd \in Fd : fd >= table.next => table.files[fd] = Closed

\* A descriptor that is handed out next is nobody's, though dup may have chosen a number beyond,
\* and reclaiming an FD record closes the file that was opened for it and no other, whatever its
\* descriptor has been used for since (filetab.rs).
OwnersOwn ==
  /\ NextIsFree
  /\ \A fd \in Fd : table.owners[fd] # NoRec =>
       LET r == recs[table.owners[fd]]
       IN  r # Freed /\ fd > 2 => r = [fd |-> fd, handle |-> table.files[fd]]

\* A pipe ends for its reader only when no write end is left and its queue is read out.
PipeEndsOnce ==
  [][ret' = "eof" /\ Len(calls') < Len(calls) /\ Source.kind = "reader" =>
       WriteEnds(Source.file) = {} /\ table.queued[Source.file] = 0]_vars

\* A listener that is asked for a connection is still there afterwards, as is every other
\* descriptor.
ListenKeepsDescriptors ==
  [][\A c, r \in Rec : Listen(c, r) =>
       \A fd \in Fd : table.files[fd] # Closed => table'.files[fd] = table.files[fd]]_vars

-----------------------------------------------------------------------------
(* The inductive invariant behind these: what holds of a table t, whichever call *)
(* is at work on it, and of the records that own its descriptors.                *)

Table == [files : [Fd -> Handle], next : Nat, owners : [Fd -> Rec \cup {NoRec}],
          queued : [File -> 0 .. MaxQueue], writers : [File -> Nat]]

EndsIn(t, f) == {fd \in Fd : t.files[fd] = [kind |-> "writer", file |-> f]}

\* The count of write ends is right, both ends of a pipe have its queue, and nothing is known
\* yet of the numbers from next on.
TableInv(t) ==
  /\ t \in Table /\ t.next > 2
  /\ \A f \in File : t.writers[f] = Cardinality(EndsIn(t, f))
  /\ \A fd \in Fd : t.files[fd].kind \in {"reader", "writer"} => t.files[fd].file \in File
  /\ \A fd \in Fd : fd >= t.next => t.files[fd] = Closed /\ t.owners[fd] = NoRec

\* The records rs that own descriptors of t are gone, or were made by open or create for the
\* file that is still there; the console is never closed, whoever owns it.
OwnersInv(t, rs) ==
  \A fd \in Fd : t.owners[fd] # NoRec =>
    LET r == rs[t.owners[fd]]
    IN  r # Freed /\ fd > 2 =>
          r = [fd |-> fd, handle |-> t.files[fd]] /\ r.handle.kind \in Device

FdRecords == [Rec -> [fd : Fd \cup {NoFd}, handle : Handle]]

ReadCall == [op : Op, fd : Int, got : 0 .. 1, yielded : BOOLEAN, to : Int]

IInv ==
  /\ TableInv(table) /\ recs \in FdRecords /\ OwnersInv(table, recs)
  /\ calls \in Seq(ReadCall) /\ Len(calls) <= 2
  /\ stdin \in [data : 0 .. MaxInput, eof : BOOLEAN]
  /\ ret \in {"ok", "eof", "error"}

===============================================================================
