------------------------------- MODULE MCHeap -------------------------------
(* Small heaps for TLC. *)
EXTENDS Heap, TLC

CONSTANTS o1, o2, o3, t1, t2

Objects == {o1, o2, o3}
Threads == {t1, t2}

\* Every opcode that counts the copies it makes.
CountingGuest ==
  {"new", "consw", "consp", "headp", "headmp", "tail", "movp", "movmp", "insc", "addc",
   "slicea", "slicela", "indx", "ret", "spawn", "exit"}

\* Strings passed over a channel.
SendingGuest == {"new", "addc", "movp", "send", "recv", "spawn"}

Symmetry == Permutations(Objects) \cup Permutations(Threads)

=============================================================================
