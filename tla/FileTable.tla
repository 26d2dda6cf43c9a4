------------------------------ MODULE FileTable ------------------------------
(***************************************************************************)
(* The descriptor table (filetab.rs) and the calls of the Sys module that  *)
(* use it (sys.rs): descriptors opened, created, piped, dialled, announced,*)
(* accepted, duplicated and reclaimed with the FD records of the guest,    *)
(* reads that hand the OS thread over while a pipe or stdin is empty, and  *)
(* the thread that reads stdin.                                            *)
(*                                                                         *)
(* An entry of the table is a handle: its kind and the open file behind it.*)
(* Bytes, paths and file contents are abstracted to how many there are;    *)
(* a duplicated handle shares the file, hence its queue.     *)
(***************************************************************************)
EXTENDS Integers, FiniteSets, Sequences

CONSTANTS
  Rec,        \* heap ids of FD records
  File,       \* open files, pipes, sockets
  Device,     \* the kinds of files that open and create give
  Socket,     \* what dial and announce give
  Op,         \* the reading calls
  DupTo,      \* the second arguments of dup
  StreamTo,   \* the descriptors that stream writes to
  MaxFd,      \* bound on descriptor numbers
  MaxQueue,   \* bound on the bytes queued in a pipe
  MaxInput    \* bound on the bytes of stdin nobody has read yet

ASSUME FileConstants ==
  /\ IsFiniteSet(Rec) /\ IsFiniteSet(File)
  /\ "none" \notin Rec \cup File
  /\ Device \subseteq {"file", "random", "audio", "audioctl"}
  /\ Socket \subseteq {"stream", "listener"} /\ Op \subseteq {"read", "readn", "stream"}
  /\ MaxFd \in Nat /\ MaxFd > 2
  /\ DupTo \subseteq -1 .. MaxFd /\ StreamTo \subseteq 0 .. MaxFd
  /\ MaxQueue \in Nat \ {0} /\ MaxInput \in Nat

VARIABLES
  table,    \* FileTable: files, next_fd, owners; the state of every file
  recs,     \* the descriptor each FD record of the guest's heap names, and the handle that
            \* open or create made with it
  calls,    \* reads in progress: the innermost is last, only the first has handed over
  stdin,    \* StdinBuffer: bytes and eof
  ret       \* the answer of a read that has just returned without data

vars == <<table, recs, calls, stdin, ret>>

Fd == 0 .. MaxFd
NoFd == -1
NoRec == "none"
Closed == [kind |-> "closed", file |-> "none"]

\* What the implementations of FileOps can do.
CanRead == {"stdin", "file", "random", "stream", "audioctl", "reader"}
CanWrite == {"stdout", "file", "random", "stream", "audio", "audioctl", "writer"}
WaitsOnHost == {"stdin"}
Kind == CanRead \cup CanWrite \cup {"listener"}

Std == <<[kind |-> "stdin", file |-> "none"], [kind |-> "stdout", file |-> "none"],
         [kind |-> "stdout", file |-> "none"]>>

Handle == [kind : Kind \cup {"closed"}, file : File \cup {"none"}]
Freed == [fd |-> NoFd, handle |-> Closed]

TypeOK ==
  /\ table \in [files : [Fd -> Handle], next : Nat, owners : [Fd -> Rec \cup {NoRec}],
                queued : [File -> 0 .. MaxQueue], writers : [File -> Nat]]
  /\ recs \in [Rec -> [fd : Fd \cup {NoFd}, handle : Handle]]
  /\ Len(calls) <= 2
  /\ stdin \in [data : 0 .. MaxInput, eof : BOOLEAN]
  /\ ret \in {"ok", "eof", "error"}

Init ==
  /\ table = [files |-> [fd \in Fd |-> IF fd <= 2 THEN Std[fd + 1] ELSE Closed], next |-> 3,
              owners |-> [fd \in Fd |-> NoRec], queued |-> [f \in File |-> 0],
              writers |-> [f \in File |-> 0]]
  /\ recs = [r \in Rec |-> Freed]
  /\ calls = <<>>
  /\ stdin = [data |-> 0, eof |-> FALSE]
  /\ ret = "ok"

-----------------------------------------------------------------------------
(* filetab.rs, on a table t. *)

\* Mutant: the read end counts too.
DroppedEnd(t, h) ==
  IF h.kind \in {"reader", "writer"} /\ t.writers[h.file] > 0
  THEN [t EXCEPT !.writers[h.file] = @ - 1] ELSE t

\* A write end goes away or comes (PipeWriter::drop, try_clone).
Dropped(t, h) ==
  IF h.kind = "writer" /\ t.writers[h.file] > 0 THEN [t EXCEPT !.writers[h.file] = @ - 1] ELSE t

Cloned(t, h) == IF h.kind = "writer" THEN [t EXCEPT !.writers[h.file] = @ + 1] ELSE t

\* files.insert: what the descriptor held is dropped.
Inserted(t, fd, h) == [Dropped(t, t.files[fd]) EXCEPT !.files[fd] = h]

\* close: 0, 1 and 2 stay.
CloseFd(t, fd) ==
  [(IF fd > 2 THEN Inserted(t, fd, Closed) ELSE t) EXCEPT !.owners[fd] = NoRec]

\* next_fd: a new descriptor for the handle h.
Added(t, h) == [Inserted(t, t.next, h) EXCEPT !.next = @ + 1]

\* A file that nothing has open.
FreshFile(t) == {f \in File : \A fd \in Fd : t.files[fd].file # f}

\* The state of a file that is opened anew.
Opened(t, f) == [t EXCEPT !.queued[f] = 0, !.writers[f] = 0]

\* pipe: the read end, then the write end.
Piped(t, f) ==
  [Added(Added(Opened(t, f), [kind |-> "reader", file |-> f]), [kind |-> "writer", file |-> f])
     EXCEPT !.writers[f] = 1]

\* Mutant: a duplicate of a write end is not counted.
DuplicatedUncounted(t, old, new) ==
  Inserted(CloseFd(t, new), new, t.files[old])

\* Mutant: the duplicate replaces the handle without closing the descriptor.
DuplicatedUnclosed(t, old, new) ==
  LET u == Cloned(t, t.files[old])
  IN  Inserted([u EXCEPT !.next = IF new >= @ THEN new + 1 ELSE @], new, t.files[old])

\* dup onto new, which is closed first; the counter stays above every descriptor.
Duplicated(t, old, new) ==
  LET u == CloseFd(Cloned(t, t.files[old]), new)
  IN  Inserted([u EXCEPT !.next = IF new >= @ THEN new + 1 ELSE @], new, t.files[old])

\* reap_reclaimed_fds: the descriptors whose owner is gone, one after the other.
Reaped(t) ==
  LET orphan(fd) == t.owners[fd] # NoRec /\ recs[t.owners[fd]] = Freed
      reaped[n \in 0 .. MaxFd + 1] ==
        IF n = 0 THEN t
        ELSE IF orphan(n - 1) THEN CloseFd(reaped[n - 1], n - 1) ELSE reaped[n - 1]
  IN  reaped[MaxFd + 1]

-----------------------------------------------------------------------------
(* Calls of the Sys module.  They run when no read is in progress, or in another thread *)
(* while the first read has handed the OS thread over.                                  *)

Running == calls = <<>> \/ (Len(calls) = 1 /\ calls[1].yielded)

LiveRec == {r \in Rec : recs[r] # Freed}

\* A new heap id: no record's, and no descriptor's owner.
NewRec(t) == {r \in Rec \ LiveRec : \A fd \in Fd : t.owners[fd] # r}

\* get_fd_num: nil gives -1; a record keeps its number when the descriptor is closed.
FdOf(r) == IF r = NoRec THEN NoFd ELSE recs[r].fd

HandleAt(fd) == IF fd \in Fd THEN table.files[fd] ELSE Closed

Leaves(t) ==
  /\ Running
  /\ t.next <= MaxFd + 1
  /\ table' = t /\ ret' = "ok"
  /\ UNCHANGED <<calls, stdin>>

Named(r, fd, h) == [recs EXCEPT ![r] = [fd |-> fd, handle |-> h]]

\* open, create: reap, then a descriptor owned by a new FD record, or an error.
Open(r, kind) ==
  LET t == Reaped(table)
  IN  /\ r \in NewRec(t)
      /\ \/ Leaves(t) /\ UNCHANGED recs
         \/ /\ t.next <= MaxFd
            /\ \E f \in FreshFile(t) :
                 LET u == [Added(Opened(t, f), [kind |-> kind, file |-> f])
                             EXCEPT !.owners[t.next] = r]
                 IN  Leaves(u) /\ recs' = Named(r, t.next, u.files[t.next])

\* open of /dev/cons: stdin or stdout, which nothing closes.
OpenConsole(r, fd) ==
  LET t == Reaped(table)
      u == [t EXCEPT !.owners[fd] = r]
  IN  /\ r \in NewRec(t)
      /\ Leaves(u) /\ recs' = Named(r, fd, u.files[fd])

\* pipe: two FD records that own nothing.
Pipe(r, w) ==
  /\ {r, w} \subseteq NewRec(table) /\ r # w
  /\ table.next < MaxFd
  /\ \E f \in FreshFile(table) :
       LET t == Piped(table, f)
       IN  /\ Leaves(t)
           /\ recs' = [Named(r, table.next, Closed) EXCEPT
                         ![w] = [fd |-> table.next + 1, handle |-> Closed]]

\* dial, announce: a stream or a listener, whose records own nothing.
Connect(r, kind) ==
  /\ r \in NewRec(table)
  /\ table.next <= MaxFd
  /\ \E f \in FreshFile(table) :
       LET t == Added(Opened(table, f), [kind |-> kind, file |-> f])
       IN  Leaves(t) /\ recs' = Named(r, table.next, Closed)

\* listen: accept_on takes the listener out, and puts it back unless accept fails.
Accepted(t, fd, f) == Added(Opened(t, f), [kind |-> "stream", file |-> f])

Listen(c, r) ==
  /\ c \in LiveRec /\ r \in NewRec(table)
  /\ LET fd == FdOf(c)
     IN  \/ /\ HandleAt(fd).kind = "listener" /\ table.next <= MaxFd
            /\ \E f \in FreshFile(table) :
                 LET t == Accepted(table, fd, f)
                 IN  Leaves(t) /\ recs' = Named(r, table.next, Closed)
         \/ /\ HandleAt(fd).kind = "listener"
            /\ Leaves(Inserted(table, fd, Closed)) /\ UNCHANGED recs
         \/ /\ HandleAt(fd).kind # "listener"
            /\ Leaves(table) /\ UNCHANGED recs

\* fildes: another record for an open descriptor.
Fildes(fd, r) ==
  /\ r \in NewRec(table)
  /\ HandleAt(fd) # Closed
  /\ Leaves(table) /\ recs' = Named(r, fd, Closed)

\* dup: a negative new is the next descriptor; it fails for a closed one.
Dup(old, new) ==
  LET target == IF new < 0 THEN table.next ELSE new
  IN  /\ target \in Fd
      /\ \/ HandleAt(old) # Closed /\ Leaves(Duplicated(table, old, target))
         \/ HandleAt(old) = Closed /\ Leaves(table)
      /\ UNCHANGED recs

\* The guest's last reference to a record goes.
Release(r) ==
  /\ Running /\ r \in LiveRec
  /\ recs' = [recs EXCEPT ![r] = Freed] /\ ret' = "ok"
  /\ UNCHANGED <<table, calls, stdin>>

\* FileTable::write of a byte.
WrittenTo(t, h) ==
  IF h.kind = "writer" /\ t.queued[h.file] < MaxQueue THEN [t EXCEPT !.queued[h.file] = @ + 1]
                                                       ELSE t

\* write, fprint.
Write(r) ==
  LET h == HandleAt(FdOf(r))
  IN  /\ r \in LiveRec
      /\ IF h.kind \in CanWrite THEN Leaves(WrittenTo(table, h))
                                ELSE Leaves(table)
      /\ UNCHANGED recs

-----------------------------------------------------------------------------
(* Reads: read returns after the first bytes, readn after two, stream writes what it *)
(* reads to another descriptor until the end.                                        *)

Begin(op, r, to) ==
  /\ Running
  /\ r \in LiveRec
  /\ calls' = Append(calls, [op |-> op, fd |-> FdOf(r), got |-> 0, yielded |-> FALSE,
                             to |-> IF op = "stream" THEN to ELSE NoFd])
  /\ ret' = "ok"
  /\ UNCHANGED <<table, recs, stdin>>

\* What FileOps::read of the handle h may answer; a file is or is not at its end.
Outcomes(h) ==
  CASE h.kind = "stdin"  -> {IF stdin.data > 0 THEN "data" ELSE IF stdin.eof THEN "eof" ELSE "wait"}
    [] h.kind = "reader" -> {IF table.queued[h.file] > 0 THEN "data"
                             ELSE IF table.writers[h.file] = 0 THEN "eof" ELSE "wait"}
    [] h.kind \in {"file", "audioctl", "stream"} -> {"data", "eof"}
    [] h.kind = "random" -> {"data"}
    [] OTHER -> {"error"}

\* The table once h has been read.
Taken(h) ==
  IF h.kind = "reader" THEN [table EXCEPT !.queued[h.file] = @ - 1] ELSE table

Top == calls[Len(calls)]
Source == HandleAt(Top.fd)
Target == HandleAt(Top.to)

\* The innermost call returns a.
Return(a) ==
  /\ calls' = SubSeq(calls, 1, Len(calls) - 1)
  /\ ret' = IF a = "data" THEN "ok" ELSE a

\* Data: the call goes on when it wants more.
TakeData ==
  /\ calls # <<>> /\ "data" \in Outcomes(Source)
  /\ stdin' = IF Source.kind = "stdin" THEN [stdin EXCEPT !.data = @ - 1] ELSE stdin
  /\ table' = IF Top.op = "stream" THEN WrittenTo(Taken(Source), Target) ELSE Taken(Source)
  /\ IF Top.op = "read" \/ (Top.op = "readn" /\ Top.got = 1)
     THEN Return("data")
     ELSE IF Top.op = "stream" /\ Target.kind \notin CanWrite THEN Return("error")
     ELSE /\ calls' = [calls EXCEPT ![Len(calls)].got = IF Top.op = "readn" THEN 1 ELSE 0,
                                    ![Len(calls)].yielded = FALSE]
          /\ ret' = "ok"
  /\ UNCHANGED recs

\* End of file, or a handle that cannot be read: readn keeps what it got.
Finish ==
  /\ calls # <<>>
  /\ \E end \in Outcomes(Source) \ {"data", "wait"} : Return(IF Top.got > 0 THEN "data" ELSE end)
  /\ UNCHANGED <<table, recs, stdin>>

\* Nothing yet, and another thread can run: only one read at a time hands over.
Yield ==
  /\ Len(calls) = 1 /\ "wait" \in Outcomes(Source)
  /\ calls' = [calls EXCEPT ![1].yielded = TRUE] /\ ret' = "ok"
  /\ UNCHANGED <<table, recs, stdin>>

\* Nothing yet, and no thread can run: read_blocking gives up on a pipe.
GiveUp ==
  /\ calls # <<>> /\ "wait" \in Outcomes(Source) /\ Source.kind \notin WaitsOnHost
  /\ Return(IF Top.got > 0 THEN "data" ELSE "error")
  /\ UNCHANGED <<table, recs, stdin>>

\* The stdin thread.
HostInput ==
  /\ ~stdin.eof /\ stdin.data < MaxInput
  /\ stdin' = [stdin EXCEPT !.data = @ + 1]
  /\ UNCHANGED <<table, recs, calls, ret>>

HostEof ==
  /\ ~stdin.eof
  /\ stdin' = [stdin EXCEPT !.eof = TRUE]
  /\ UNCHANGED <<table, recs, calls, ret>>

-----------------------------------------------------------------------------

Guest ==
  \/ \E r \in Rec :
       \/ \E kind \in Device : Open(r, kind)
       \/ \E fd \in {0, 1} : OpenConsole(r, fd)
       \/ \E kind \in Socket : Connect(r, kind)
       \/ \E w \in Rec : Pipe(r, w) \/ Listen(w, r)
       \/ \E fd \in Fd : Fildes(fd, r)
       \/ Release(r) \/ Write(r)
  \/ \E old \in Fd, new \in DupTo : Dup(old, new)
  \/ \E op \in Op, r \in Rec, to \in StreamTo : Begin(op, r, to)

Attempt == TakeData \/ Finish \/ Yield \/ GiveUp
Host == HostInput \/ HostEof

Next == Guest \/ Attempt \/ Host

Spec == Init /\ [][Next]_vars

=============================================================================
