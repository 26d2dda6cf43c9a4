--------------------------- MODULE VmThreadsProps ---------------------------
(***************************************************************************)
(* What must be true of the guest threads of VmThreads.                    *)
(***************************************************************************)
EXTENDS VmThreads

\* The threads of a queue.
Threads(q) == {q[n].thread : n \in DOMAIN q}

Live == (1 .. next_pid - 1) \ finished

\* The transfers a channel instruction asks for.
Entries(i) ==
  IF i.op \in {"send", "recv"} THEN {[chan |-> i.chan, send |-> (i.op = "send")]}
  ELSE {i.table[n] : n \in DOMAIN i.table}

\* Instruction i waits for channels: it does not raise, and it may block.
WaitsForChannel(i) ==
  \/ i.op \in {"send", "recv"} /\ i.chan # NIL
  \/ i.op = "alt" /\ ~TableFault(i.table)

\* Can the transfer e happen when the slots are pd?
ReadyIn(pd, e) == IF e.send THEN pd[e.chan] = None ELSE pd[e.chan] # None

\* Repeating instruction i is waiting for channels none of which is ready.
StuckAt(i, pd) ==
  /\ i # None /\ WaitsForChannel(i)
  /\ \A e \in Entries(i) : ~ReadyIn(pd, e)

Stuck(t) == StuckAt(at[t], pending)

-----------------------------------------------------------------------------

\* No lost wake-up: a thread that unblock_channel has not released (its blocked_on is
\* set) cannot perform the operation it is suspended on, whatever was sent, received,
\* selected by an alt or written by Tk since.
BlockedCannotProceed ==
  \A n \in DOMAIN queue : ~Runnable(queue[n]) => Stuck(queue[n].thread)

\* The deadlock run reports (deadlock_fault, both places) is one: no live thread,
\* released or not, could have performed its operation.
DeadlockIsReal == result = "deadlock" => \A t \in Live : Stuck(t)

\* A guest thread is in one place: installed, parked under a read, or queued, once;
\* and every thread spawned and not disposed of is in one of them.
NoThreadLostOrDuplicated ==
  /\ \A n, m \in DOMAIN queue : n # m => queue[n].thread # queue[m].thread
  /\ cur \notin Threads(queue) /\ parked \notin Threads(queue) \cup {cur}
  /\ result = "running" => Live = Threads(queue) \cup {cur} \cup ({parked} \ {None})

\* A pid names one thread for its whole life: pctl of the running thread, and the pid
\* every suspended thread is going to resume with, are the ones it was created with.
PidsAreStable ==
  /\ result = "running" => current_pid = cur
  /\ \A n \in DOMAIN queue : queue[n].pid = queue[n].thread

\* Every thread that is over has left its exit record (record_thread_exit), which is
\* still queued or was handed to a reader of /prog/N/wait.
EveryExitIsRecorded == finished \subseteq recorded

\* exit ends the thread that executes it: until the run loop has disposed of the
\* thread, the VM is at most on its way to do so (halted is set).
ExitEndsThread == \A t \in exited : (t \in finished \/ (cur = t /\ halted))

\* A payload leaves its slot through a receiver only: no sender, alt or Tk command
\* replaces the one that is there.
NoPayloadOverwritten ==
  [][\A c \in Chan : pending[c] # None => pending'[c] \in {pending[c], None}]_vars

\* Rotation by quantum is fair: a runnable thread gets the VM.
RunnableThreadRuns ==
  \A t \in Thread :
    (\E n \in DOMAIN queue : queue[n].thread = t /\ Runnable(queue[n]))
      ~> (cur = t \/ result # "running")

\* The reader whose read lent the OS thread (run_other_vm_thread) gets it back.
LoanIsReturned == (parked # None) ~> (parked = None \/ result # "running")

\* When every live thread is stuck the run loop says so instead of spinning.
DeadlockIsReported ==
  (Live # {} /\ \A t \in Live : Stuck(t)) ~> (result # "running")

-----------------------------------------------------------------------------
(* The inductive invariant behind the safety properties.  It ties the mark of a   *)
(* blocked thread to the instruction it is stuck at, which unblock_channel relies *)
(* on, and accounts for every thread.                                            *)

\* The mark why is the one Block gives to instruction i, and i cannot proceed when the
\* slots are pd.
Waits(i, why, pd) ==
  \/ /\ why \in Chan
     /\ i.op \in {"send", "recv"} /\ i.chan = why
     /\ ~ReadyIn(pd, [chan |-> why, send |-> (i.op = "send")])
  \/ /\ why = NIL
     /\ i.op = "alt" /\ ~TableFault(i.table)
     /\ \A n \in DOMAIN i.table : ~ReadyIn(pd, i.table[n])

WellMarked(s, a, pd) ==
  s.blocked_on # None => a[s.thread] # None /\ Waits(a[s.thread], s.blocked_on, pd)

\* The queue holds distinct threads created before nx, none of away, and its blocked
\* ones are stuck at the instructions of a when the slots are pd.
QueueInv(q, away, nx, a, pd) ==
  /\ q \in Seq(Suspended)
  /\ \A n, m \in DOMAIN q : n # m => q[n].thread # q[m].thread
  /\ \A n \in DOMAIN q : /\ q[n].thread \notin away
                         /\ q[n].thread < nx
                         /\ WellMarked(q[n], a, pd)

Positions ==
  /\ cur # parked /\ cur < next_pid
  /\ parked # None => parked < next_pid
  /\ halted => parked = None
  /\ finished \subseteq 1 .. next_pid - 1
  /\ result = "running" => Live = Threads(queue) \cup {cur} \cup ({parked} \ {None})

\* What the safety theorems of VmThreadsProofs rest on: every step of the run loop
\* keeps it.
IInv ==
  /\ TypeOK
  /\ QueueInv(queue, {cur, parked}, next_pid, at, pending)
  /\ Positions
  /\ DeadlockIsReal

-----------------------------------------------------------------------------
(* The run loop implements one-place channels between fair threads. *)

Guest == INSTANCE GuestThreads WITH
  born <- next_pid - 1,
  done <- finished,
  waiting <- [t \in Thread |-> IF at[t] # None /\ WaitsForChannel(at[t])
                              THEN Entries(at[t]) ELSE None],
  slot <- pending,
  outcome <- result

ImplementsGuestThreads == Guest!Spec

=============================================================================
