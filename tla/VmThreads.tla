------------------------------ MODULE VmThreads ------------------------------
(***************************************************************************)
(* The guest threads of the live VM: VmState::run (vm.rs), the channel     *)
(* opcodes (ops/concurrency.rs), the nested interpreter loop of a          *)
(* cross-module call (ops/control.rs) and the reads that lend the OS       *)
(* thread to another guest thread (sys.rs).                                *)
(*                                                                         *)
(* All guest threads share one OS thread, so a step of this module is one  *)
(* dispatched instruction together with everything the loop around it does *)
(* before the next dispatch.  A guest program is arbitrary: whenever a     *)
(* thread is not obliged to repeat an instruction (a blocked channel       *)
(* operation, a read that is still waiting) it picks its next one from     *)
(* Program.  A thread is named by the order of its creation; the pid the   *)
(* program sees is data of its own, kept where the code keeps it.          *)
(***************************************************************************)
EXTENDS Naturals, Sequences, FiniteSets

CONSTANTS
  Chan,             \* the channel objects on the guest heap
  NIL,              \* heap id 0: the nil channel, and the "blocked in alt" marker
  None,             \* Rust's None
  Program,          \* the instructions the guest's threads may reach
  THREAD_QUANTUM,   \* instructions the run loop gives a thread (2048 in the code)
  YIELD_QUANTUM,    \* instructions a waiting read gives another thread (2048)
  MaxThreads        \* bound: the number of threads ever created

Thread == 1 .. MaxThreads

AltEntry == [chan : Chan \cup {NIL}, send : BOOLEAN]

Instruction ==
       [op : {"send", "recv", "tksend"}, chan : Chan \cup {NIL}]
  \cup [op : {"alt", "nbalt"}, table : Seq(AltEntry)]
  \cup [op : {"other", "spawn", "exit", "raise", "mcall", "ret", "read", "waitread"}]

\* What a pc can rest on: a nested call that was abandoned rests on its mcall.
Reachable == Program \cup {[op |-> "mcall"]}

ASSUME ConstantsAssumption ==
  /\ NIL \notin Chan
  /\ None \notin Chan \cup {NIL} \cup Thread \cup Instruction
  /\ \A entries \in SUBSET [chan : Chan, send : BOOLEAN] : None # entries
  /\ Program \subseteq Instruction
  /\ THREAD_QUANTUM \in Nat \ {0}
  /\ YIELD_QUANTUM \in Nat \ {0}
  /\ MaxThreads \in Nat \ {0}

VARIABLES
  cur,           \* the thread installed in VmState
  current_pid,   \* VmState::current_pid
  at,            \* per thread: the instruction its pc is stuck at, None if it is free
  nested,        \* per thread: is it inside a nested cross-module call?
  queue,         \* VmState::thread_queue
  next_pid,      \* VmState::next_pid
  pending,       \* the slot of each channel: None or the thread whose payload it is
  halted,        \* VmState::halted
  quantum,       \* quantum_counter of run, saturated at THREAD_QUANTUM
  parked,        \* the reader whose read runs another thread (YIELDING), or None
  slice,         \* instructions the lent-to thread has retired
  wait_records,  \* the pids of VmState::wait_records
  result,        \* what run returned: "running" while it has not
  exited,        \* history: threads that executed exit
  finished,      \* history: threads the VM has disposed of
  recorded       \* history: threads whose exit record was written

vars == <<cur, current_pid, at, nested, queue, next_pid, pending, halted, quantum,
          parked, slice, wait_records, result, exited, finished, recorded>>

\* The history variables, which no guard reads.
history == <<exited, finished, recorded>>

Suspended == [thread : Thread, pid : Thread, blocked_on : Chan \cup {NIL, None}]

TypeOK ==
  /\ cur \in Thread
  /\ current_pid \in Thread
  /\ at \in [Thread -> Reachable \cup {None}]
  /\ nested \in [Thread -> BOOLEAN]
  /\ queue \in Seq(Suspended)
  /\ next_pid \in 2 .. MaxThreads + 1
  /\ pending \in [Chan -> Thread \cup {None}]
  /\ halted \in BOOLEAN
  /\ quantum \in 0 .. THREAD_QUANTUM
  /\ parked \in Thread \cup {None}
  /\ slice \in 0 .. YIELD_QUANTUM - 1
  /\ wait_records \in Seq(Thread)
  /\ result \in {"running", "ok", "deadlock", "fault"}
  /\ exited \subseteq Thread /\ finished \subseteq Thread /\ recorded \subseteq Thread

Init ==
  /\ cur = 1 /\ current_pid = 1 /\ next_pid = 2
  /\ at = [t \in Thread |-> None]
  /\ nested = [t \in Thread |-> FALSE]
  /\ queue = <<>>
  /\ pending = [c \in Chan |-> None]
  /\ halted = FALSE /\ quantum = 0 /\ parked = None /\ slice = 0
  /\ wait_records = <<>> /\ result = "running"
  /\ exited = {} /\ finished = {} /\ recorded = {}

-----------------------------------------------------------------------------
(* The queue. *)

Runnable(s) == s.blocked_on = None

\* Mutant: only the head of the queue is looked at.
SomeRunnableAtHead(q) == q # <<>> /\ Runnable(Head(q))

SomeRunnable(q) == \E i \in DOMAIN q : Runnable(q[i])

IsFirstRunnable(q, k) == Runnable(q[k]) /\ \A j \in 1 .. k - 1 : ~Runnable(q[j])

\* suspend_and_rotate and suspend_as_blocked: thread t goes to the back of the queue.
Suspend(q, t, why) ==
  Append(q, [thread |-> t, pid |-> current_pid, blocked_on |-> why])

\* Mutant of RotatedPast: the blocked threads met on the way are dropped.
RotatedPastDropping(q, k) == SubSeq(q, k + 1, Len(q))

\* resume_next_ready_thread: blocked threads met on the way go to the back, in order.
RotatedPast(q, k) == SubSeq(q, k + 1, Len(q)) \o SubSeq(q, 1, k - 1)

ResumeNextReady(q) ==
  \E k \in DOMAIN q :
     /\ IsFirstRunnable(q, k)
     /\ queue' = RotatedPast(q, k)
     /\ cur' = q[k].thread
     /\ current_pid' = q[k].pid
     /\ halted' = FALSE

\* Mutants of Unblocked: the alt marker is forgotten; one waiter only is woken.
UnblockedNoAltMarker(q, c) ==
  [i \in DOMAIN q |-> IF q[i].blocked_on = c
                      THEN [q[i] EXCEPT !.blocked_on = None] ELSE q[i]]

UnblockedWakesOne(q, c) ==
  LET hit == {i \in DOMAIN q : q[i].blocked_on \in {c, NIL}}
  IN  [i \in DOMAIN q |-> IF i \in hit /\ \A j \in hit : i <= j
                          THEN [q[i] EXCEPT !.blocked_on = None] ELSE q[i]]

\* unblock_channel: NIL marks a thread blocked in alt, which any transfer wakes.
Unblocked(q, c) ==
  [i \in DOMAIN q |-> IF q[i].blocked_on \in {c, NIL}
                      THEN [q[i] EXCEPT !.blocked_on = None] ELSE q[i]]

-----------------------------------------------------------------------------
(* What the loop around the dispatch does once an instruction is done.     *)
(* q is the queue the instruction leaves behind.                           *)

\* The lent-to thread gives the OS thread back; it keeps the pid of the reader,
\* because run_other_vm_thread installs everything of it but its pid.
ReturnToReader(q) ==
  /\ queue' = q
  /\ cur' = parked
  /\ parked' = None
  /\ slice' = 0
  /\ UNCHANGED <<current_pid, quantum, halted>>

\* Mutant: the run loop never rotates.
RetireInRunNeverRotating(q, t, halt) ==
  /\ queue' = q /\ cur' = t /\ halted' = halt
  /\ parked' = None /\ slice' = 0
  /\ UNCHANGED <<current_pid, quantum>>

\* run: count the instruction of thread t and rotate at the end of the quantum.
RetireInRun(q, t, halt) ==
  /\ IF quantum + 1 >= THREAD_QUANTUM /\ q # <<>>
     THEN /\ quantum' = 0
          /\ ResumeNextReady(Suspend(q, t, None))
     ELSE /\ quantum' = IF quantum < THREAD_QUANTUM THEN quantum + 1 ELSE quantum
          /\ queue' = q
          /\ cur' = t
          /\ halted' = halt
          /\ UNCHANGED current_pid
  /\ parked' = None
  /\ slice' = 0

\* Mutant of RetireInSlice: a slice without an end.
RetireInSliceEndless(q) ==
  /\ queue' = q
  /\ UNCHANGED <<cur, current_pid, quantum, halted, parked, slice>>

\* run_thread_slice: give the OS thread back when the slice is used up.
RetireInSlice(q) ==
  IF slice + 1 = YIELD_QUANTUM
  THEN ReturnToReader(Suspend(q, cur, None))
  ELSE /\ slice' = slice + 1
       /\ queue' = q
       /\ UNCHANGED <<cur, current_pid, quantum, halted, parked>>

\* nested_interpreter_loop: no counters at all.
RetireInNestedLoop(q) ==
  /\ queue' = q
  /\ UNCHANGED <<cur, current_pid, quantum, halted, parked, slice>>

\* The instruction is complete; inNested says which loop fetches the next one.
Retire(q, inNested) ==
  /\ at' = [at EXCEPT ![cur] = None]
  /\ nested' = [nested EXCEPT ![cur] = inNested]
  /\ UNCHANGED result
  /\ IF inNested THEN RetireInNestedLoop(q)
     ELSE IF parked = None THEN RetireInRun(q, cur, FALSE) ELSE RetireInSlice(q)

\* run returns an error.
Abort(why) ==
  /\ result' = why
  /\ UNCHANGED <<cur, current_pid, nested, queue, halted, quantum, parked, slice>>

\* Mutant of Block: the thread is queued without the mark that it waits.
BlockUnmarked(i, why) ==
  /\ ~nested[cur]
  /\ at' = [at EXCEPT ![cur] = i]
  /\ IF parked = None
     THEN ResumeNextReady(Suspend(queue, cur, None)) /\ UNCHANGED <<quantum, parked, slice>>
     ELSE ReturnToReader(Suspend(queue, cur, None))
  /\ UNCHANGED <<nested, result>>

\* The thread must wait and repeat instruction i: fault_on_nested_block in a nested
\* call, deadlock detection and suspend_as_blocked in run, the end of a slice.
Block(i, why) ==
  /\ at' = IF nested[cur] THEN at ELSE [at EXCEPT ![cur] = i]
  /\ \/ /\ nested[cur]
        /\ Abort("fault")
     \/ /\ ~nested[cur] /\ parked = None /\ ~SomeRunnable(queue)
        /\ Abort("deadlock")
     \/ /\ ~nested[cur] /\ parked = None /\ SomeRunnable(queue)
        /\ ResumeNextReady(Suspend(queue, cur, why))
        /\ UNCHANGED <<nested, quantum, parked, slice, result>>
     \/ /\ ~nested[cur] /\ parked # None
        /\ ReturnToReader(Suspend(queue, cur, why))
        /\ UNCHANGED <<nested, result>>

-----------------------------------------------------------------------------
(* Exceptions and faults. *)

\* A read whose lent-to thread faulted fails with that fault: the faulted thread is
\* queued again at the instruction it was at (a nested call is abandoned, its pc is
\* the mcall's), and the reader's own run loop looks for a handler of the reader.
FaultInReader(i) ==
  LET left == IF nested[cur] THEN [op |-> "mcall"] ELSE i
  IN  /\ RetireInRun(Suspend(queue, cur, None), parked, FALSE)
      /\ at' = [at EXCEPT ![cur] = left, ![parked] = None]
      /\ nested' = [nested EXCEPT ![cur] = FALSE, ![parked] = FALSE]
      /\ UNCHANGED result

\* raise_exception: a handler of the executing module takes it; or the run loop
\* finds one in the caller of a nested call; or nothing does.
Raise(i) ==
  \/ Retire(queue, nested[cur])
  \/ nested[cur] /\ Retire(queue, FALSE)
  \/ parked # None /\ FaultInReader(i)
  \/ Abort("fault") /\ UNCHANGED at

-----------------------------------------------------------------------------
(* The opcodes. *)

\* The thread in the VM may dispatch instruction i.
Dispatch(i) ==
  /\ result = "running" /\ ~halted
  /\ IF at[cur] = None THEN i \in Program ELSE i = at[cur]
  /\ i.op = "mcall" => ~nested[cur]
  /\ i.op = "ret" => nested[cur]

\* Mutant: a send is ready whatever the slot holds.
EntryReadySendAlways(e) == e.send \/ pending[e.chan] # None

\* A send wants the slot empty, a receive wants it filled.
EntryReady(e) == IF e.send THEN pending[e.chan] = None ELSE pending[e.chan] # None

\* The transfer itself, then unblock_channel and the loop.
Transfer(e) ==
  /\ pending' = [pending EXCEPT ![e.chan] = IF e.send THEN cur ELSE None]
  /\ Retire(Unblocked(queue, e.chan), nested[cur])

\* op_send and op_recv.
ChannelOp(i) ==
  LET e == [chan |-> i.chan, send |-> (i.op = "send")]
  IN  /\ i.op \in {"send", "recv"}
      /\ Dispatch(i)
      /\ UNCHANGED <<next_pid, wait_records, history>>
      /\ \/ i.chan = NIL /\ Raise(i) /\ UNCHANGED pending
         \/ i.chan # NIL /\ EntryReady(e) /\ Transfer(e)
         \/ i.chan # NIL /\ ~EntryReady(e) /\ Block(i, i.chan) /\ UNCHANGED pending

\* execute_alt: a table with a nil channel, or with a send and a receive on one
\* channel, raises even when some other entry is ready.
TableFault(table) ==
  \/ \E n \in DOMAIN table : table[n].chan = NIL
  \/ \E n, m \in DOMAIN table :
        table[n].send /\ ~table[m].send /\ table[n].chan = table[m].chan

SomeReady(table) == \E n \in DOMAIN table : EntryReady(table[n])

IsFirstReady(table, n) == EntryReady(table[n]) /\ \A m \in 1 .. n - 1 : ~EntryReady(table[m])

\* op_alt and op_nbalt: the first ready entry in table order, which lists the sends
\* first; an alt with none waits under the NIL marker, an nbalt answers at once.
Alt(i) ==
  /\ i.op \in {"alt", "nbalt"}
  /\ Dispatch(i)
  /\ UNCHANGED <<next_pid, wait_records, history>>
  /\ \/ TableFault(i.table) /\ Raise(i) /\ UNCHANGED pending
     \/ /\ ~TableFault(i.table)
        /\ \E n \in DOMAIN i.table : IsFirstReady(i.table, n) /\ Transfer(i.table[n])
     \/ /\ ~TableFault(i.table) /\ ~SomeReady(i.table)
        /\ UNCHANGED pending
        /\ IF i.op = "alt" THEN Block(i, NIL) ELSE Retire(queue, nested[cur])

\* send_to_named_channel: a Tk command writes the slot whatever it holds.
TkSend(i) ==
  /\ i.op = "tksend" /\ i.chan # NIL
  /\ Dispatch(i)
  /\ pending' = [pending EXCEPT ![i.chan] = cur]
  /\ Retire(Unblocked(queue, i.chan), nested[cur])
  /\ UNCHANGED <<next_pid, wait_records, history>>

\* op_spawn, and op_mspawn into the main module: the child joins the queue.
Spawn(i) ==
  /\ i.op = "spawn" /\ next_pid <= MaxThreads
  /\ Dispatch(i)
  /\ next_pid' = next_pid + 1
  /\ Retire(Append(queue, [thread |-> next_pid, pid |-> next_pid, blocked_on |-> None]),
            nested[cur])
  /\ UNCHANGED <<pending, wait_records, history>>

\* op_exit, op_brkpt, a ret from the entry frame.  In a nested call the halt ends the
\* nested loop, which clears it; in a slice it disposes of the thread; in run it is
\* seen by the next turn of the loop, unless the quantum ends here.
Exit(i) ==
  /\ i.op = "exit"
  /\ Dispatch(i)
  /\ exited' = exited \cup {cur}
  /\ UNCHANGED <<pending, next_pid, wait_records, recorded>>
  /\ \/ nested[cur] /\ Retire(queue, FALSE) /\ UNCHANGED finished
     \/ /\ ~nested[cur] /\ parked # None
        /\ ReturnToReader(queue)
        /\ finished' = finished \cup {cur}
        /\ at' = [at EXCEPT ![cur] = None]
        /\ UNCHANGED <<nested, result>>
     \/ /\ ~nested[cur] /\ parked = None
        /\ RetireInRun(queue, cur, TRUE)
        /\ at' = [at EXCEPT ![cur] = None]
        /\ UNCHANGED <<nested, result, finished>>

\* The turn of run that finds halted set: record_thread_exit, then the next thread.
FinishHalted ==
  /\ result = "running" /\ halted
  /\ wait_records' = Append(wait_records, current_pid)
  /\ finished' = finished \cup {cur}
  /\ recorded' = recorded \cup {cur}
  /\ IF SomeRunnable(queue)
     THEN ResumeNextReady(queue) /\ UNCHANGED result
     ELSE /\ result' = IF queue = <<>> THEN "ok" ELSE "deadlock"
          /\ UNCHANGED <<queue, cur, current_pid, halted>>
  /\ UNCHANGED <<at, nested, next_pid, pending, quantum, parked, slice, exited>>

\* op_raise, and any instruction that faults with a nil, bounds or module error.
RaiseOp(i) ==
  /\ i.op = "raise"
  /\ Dispatch(i)
  /\ Raise(i)
  /\ UNCHANGED <<next_pid, pending, wait_records, history>>

\* Every instruction that touches nothing a thread shares through the scheduler.
Other(i) ==
  /\ i.op = "other"
  /\ Dispatch(i)
  /\ Retire(queue, nested[cur])
  /\ UNCHANGED <<next_pid, pending, wait_records, history>>

\* op_mcall, and op_mspawn into a loaded module: enter the nested loop.
Mcall(i) ==
  /\ i.op = "mcall"
  /\ Dispatch(i)
  /\ Retire(queue, TRUE)
  /\ UNCHANGED <<next_pid, pending, wait_records, history>>

\* The callee's frame is popped: the nested loop ends and the mcall is complete.
NestedReturn(i) ==
  /\ i.op = "ret"
  /\ Dispatch(i)
  /\ Retire(queue, FALSE)
  /\ UNCHANGED <<next_pid, pending, wait_records, history>>

\* VecDeque::remove: the others keep their order.
Without(q, k) == SubSeq(q, 1, k - 1) \o SubSeq(q, k + 1, Len(q))

\* run_other_vm_thread: a waiting read lends the OS thread to the first runnable
\* thread of the queue, unless it is itself running on such a loan.
CanLend == parked = None /\ SomeRunnable(queue)

LendOsThread(i) ==
  \E k \in DOMAIN queue :
     /\ IsFirstRunnable(queue, k)
     /\ queue' = Without(queue, k)
     /\ cur' = queue[k].thread
     /\ parked' = cur
     /\ slice' = 0
     /\ at' = [at EXCEPT ![cur] = i]
     /\ UNCHANGED <<current_pid, nested, halted, quantum, result>>

\* read_fd: data at once, a loan while there is none, the host once nobody can run.
Read(i) ==
  /\ i.op = "read"
  /\ Dispatch(i)
  /\ \/ Retire(queue, nested[cur])
     \/ CanLend /\ LendOsThread(i)
  /\ UNCHANGED <<next_pid, pending, wait_records, history>>

\* read_wait_file: the oldest exit record, a loan while there is none, else nothing.
WaitRead(i) ==
  /\ i.op = "waitread"
  /\ Dispatch(i)
  /\ UNCHANGED <<next_pid, pending, history>>
  /\ IF wait_records # <<>>
     THEN wait_records' = Tail(wait_records) /\ Retire(queue, nested[cur])
     ELSE /\ UNCHANGED wait_records
          /\ IF CanLend THEN LendOsThread(i) ELSE Retire(queue, nested[cur])

Step(i) ==
  \/ ChannelOp(i) \/ Alt(i) \/ TkSend(i) \/ Spawn(i) \/ Exit(i) \/ RaiseOp(i)
  \/ Other(i) \/ Mcall(i) \/ NestedReturn(i) \/ Read(i) \/ WaitRead(i)

\* run has returned.
Returned == result # "running" /\ UNCHANGED vars

Next == Returned \/ FinishHalted \/ \E i \in Reachable : Step(i)

\* The host keeps running the VM's OS thread.
Fairness == WF_vars(Next)

Spec == Init /\ [][Next]_vars /\ Fairness

=============================================================================
