----------------------------- MODULE ThreadPool -----------------------------
(***************************************************************************)
(* The preemptive scheduler of scheduler.rs: OS threads (workers) that     *)
(* take guest threads from a pool, run each for a quantum under the lock   *)
(* of the shared VM state, and put it back.                                *)
(*                                                                         *)
(* Two locks and a condition variable.  The pool lock is held inside one   *)
(* step of a worker (Pick, Return), so each is atomic; the lock of the     *)
(* shared state is held across the instructions of a quantum, and is the   *)
(* variable holder.  Between the two a worker holds neither.               *)
(*                                                                         *)
(* A guest thread is any program of at most MaxInstr instructions.  It is  *)
(* named by the order of its creation.                                     *)
(***************************************************************************)
EXTENDS Naturals, Sequences, FiniteSets

CONSTANTS
  Worker,          \* the OS threads of the pool
  Chan,            \* the channel objects on the guest heap
  None,            \* Rust's None
  Program,         \* the instructions the guest's threads may reach
  DEFAULT_QUANTA,  \* instructions of a quantum (2048 in the code)
  Initial,         \* guest threads added before run
  MaxThreads,      \* bound: guest threads ever created
  MaxInstr         \* bound: instructions a guest thread retires

Thread == 1 .. MaxThreads

Entry == [chan : Chan, send : BOOLEAN]

\* A send or a receive is an alt whose table has one entry.
Instruction ==
  [op : {"alt", "nbalt"}, table : Seq(Entry)] \cup [op : {"other", "spawn", "exit", "fault"}]

ASSUME PoolConstants ==
  /\ Worker # {} /\ IsFiniteSet(Worker)
  /\ None \notin Worker \cup Chan \cup Thread \cup Instruction
  /\ \A entries \in SUBSET Entry : None # entries
  /\ Program \subseteq Instruction
  /\ DEFAULT_QUANTA \in Nat \ {0}
  /\ MaxThreads \in Nat /\ MaxInstr \in Nat
  /\ Initial \in 1 .. MaxThreads

VARIABLES
  queue,        \* ThreadPool::queue
  running,      \* ThreadPool::running
  seen,         \* ThreadPool::progress
  shutdown,     \* ThreadPool::shutdown
  state,        \* VmThread::state, Blocked without its channel: the pool never reads it
  blocked_at,   \* VmThread::blocked_at
  at,           \* the instruction a thread's pc is stuck at, None if it is free
  retired,      \* how many instructions a thread has retired
  halted,       \* the threads whose halted flag is set
  holder,       \* who holds the lock of the shared state, None if nobody
  progress,     \* SharedState::progress
  born,         \* SharedState::next_thread_id - 1
  pending,      \* the slot of each channel: None or the thread whose payload it is
  phase,        \* where each worker is in worker_loop
  hand,         \* the guest thread in a worker's hands, or None
  count,        \* instructions of the quantum so far
  spawned,      \* what the quantum spawned
  epoch,        \* the progress the worker read at the end of the quantum
  result        \* what the quantum, and then the worker, returned

poolVars == <<queue, running, seen, shutdown>>
threadVars == <<state, blocked_at, at, retired, halted>>
sharedVars == <<holder, progress, born, pending>>
workerVars == <<phase, hand, count, spawned, epoch, result>>
vars == <<poolVars, threadVars, sharedVars, workerVars>>

TypeOK ==
  /\ queue \in Seq(Thread) /\ running \in 0 .. Cardinality(Worker)
  /\ seen \in Nat /\ shutdown \in BOOLEAN
  /\ state \in [Thread -> {"Ready", "Running", "Blocked", "Exited"}]
  /\ blocked_at \in [Thread -> Nat]
  /\ at \in [Thread -> Program \cup {None}]
  /\ retired \in [Thread -> 0 .. MaxInstr]
  /\ halted \subseteq Thread
  /\ holder \in Worker \cup {None}
  /\ progress \in Nat /\ born \in Initial .. MaxThreads
  /\ pending \in [Chan -> Thread \cup {None}]
  /\ phase \in [Worker -> {"pick", "wait", "lock", "run", "return", "notify", "done"}]
  /\ hand \in [Worker -> Thread \cup {None}]
  /\ count \in [Worker -> 0 .. DEFAULT_QUANTA]
  /\ spawned \in [Worker -> Seq(Thread)]
  /\ epoch \in [Worker -> Nat]
  /\ result \in [Worker -> {"ok", "fault", "deadlock"}]

Init ==
  /\ queue = [t \in 1 .. Initial |-> t] /\ running = 0 /\ seen = 0 /\ shutdown = FALSE
  /\ state = [t \in Thread |-> "Ready"] /\ blocked_at = [t \in Thread |-> 0]
  /\ at = [t \in Thread |-> None] /\ retired = [t \in Thread |-> 0] /\ halted = {}
  /\ holder = None /\ progress = 0 /\ born = Initial /\ pending = [c \in Chan |-> None]
  /\ phase = [w \in Worker |-> "pick"] /\ hand = [w \in Worker |-> None]
  /\ count = [w \in Worker |-> 0] /\ spawned = [w \in Worker |-> <<>>]
  /\ epoch = [w \in Worker |-> 0] /\ result = [w \in Worker |-> "ok"]

-----------------------------------------------------------------------------
(* Under the pool lock: taking a thread. *)

\* Mutant: a parked thread is only retried once the pool has seen two instructions.
IsRunnableLate(t) ==
  state[t] = "Ready" \/ (state[t] = "Blocked" /\ blocked_at[t] + 1 < seen)

\* Mutant: a parked thread is always worth a retry.
IsRunnableAlways(t) == state[t] \in {"Ready", "Blocked"}

\* ThreadPool::is_runnable.
IsRunnable(t) ==
  state[t] = "Ready" \/ (state[t] = "Blocked" /\ blocked_at[t] < seen)

\* The queue without the threads that have exited.
Retained(q) ==
  LET keep[n \in 0 .. Len(q)] ==
        IF n = 0 THEN <<>>
        ELSE IF state[q[n]] # "Exited" THEN Append(keep[n - 1], q[n]) ELSE keep[n - 1]
  IN  keep[Len(q)]

IsFirst(q, k) == IsRunnable(q[k]) /\ \A j \in 1 .. k - 1 : ~IsRunnable(q[j])

GoTo(w, where) == phase' = [phase EXCEPT ![w] = where]

Take(w, q) ==
  \E k \in DOMAIN q :
    /\ IsFirst(q, k)
    /\ queue' = SubSeq(q, 1, k - 1) \o SubSeq(q, k + 1, Len(q))
    /\ state' = [state EXCEPT ![q[k]] = "Running"]
    /\ hand' = [hand EXCEPT ![w] = q[k]]
    /\ running' = running + 1
    /\ GoTo(w, "lock")
    /\ UNCHANGED <<shutdown, result>>

\* Mutant: running is not looked at before a deadlock is reported.
NothingToTakeHasty(w, q) ==
  /\ \A k \in DOMAIN q : ~IsRunnable(q[k])
  /\ queue' = q
  /\ UNCHANGED <<state, hand, running>>
  /\ \/ q = <<>> /\ GoTo(w, "done") /\ UNCHANGED <<shutdown, result>>
     \/ /\ q # <<>>
        /\ shutdown' = TRUE
        /\ result' = [result EXCEPT ![w] = "deadlock"]
        /\ GoTo(w, "notify")

\* Nothing to run: the pool is done, or deadlocked, or the worker waits.
NothingToTake(w, q) ==
  /\ \A k \in DOMAIN q : ~IsRunnable(q[k])
  /\ queue' = q
  /\ UNCHANGED <<state, hand, running>>
  /\ \/ running = 0 /\ q = <<>> /\ GoTo(w, "done") /\ UNCHANGED <<shutdown, result>>
     \/ /\ running = 0 /\ q # <<>>
        /\ shutdown' = TRUE
        /\ result' = [result EXCEPT ![w] = "deadlock"]
        /\ GoTo(w, "notify")
     \/ running > 0 /\ GoTo(w, "wait") /\ UNCHANGED <<shutdown, result>>

\* One turn of the inner loop of worker_loop.
Pick(w) ==
  /\ phase[w] = "pick"
  /\ \/ /\ shutdown
        /\ GoTo(w, "done")
        /\ UNCHANGED <<queue, running, shutdown, state, hand, result>>
     \/ ~shutdown /\ (Take(w, Retained(queue)) \/ NothingToTake(w, Retained(queue)))
  /\ UNCHANGED <<seen, blocked_at, at, retired, halted, sharedVars, count, spawned, epoch>>

\* Condvar::wait may return without a notification.
WakeSpuriously(w) ==
  /\ phase[w] = "wait"
  /\ GoTo(w, "pick")
  /\ UNCHANGED <<poolVars, threadVars, sharedVars, hand, count, spawned, epoch, result>>

-----------------------------------------------------------------------------
(* Under the lock of the shared state: run_thread_quanta_shared. *)

Lock(w) ==
  /\ phase[w] = "lock" /\ holder = None
  /\ holder' = w
  /\ GoTo(w, "run")
  /\ UNCHANGED <<poolVars, threadVars, progress, born, pending, hand, count, spawned, epoch,
                 result>>

\* The worker releases the lock, having read the instruction count under it.
Release(w, now) ==
  /\ holder' = None
  /\ epoch' = [epoch EXCEPT ![w] = now]
  /\ GoTo(w, "return")

\* The instruction is complete, and so is the quantum if it was its last.
Retire(w, t) ==
  /\ at' = [at EXCEPT ![t] = None]
  /\ retired' = [retired EXCEPT ![t] = @ + 1]
  /\ progress' = progress + 1
  /\ count' = [count EXCEPT ![w] = @ + 1]
  /\ UNCHANGED <<state, blocked_at, result>>
  /\ IF count[w] + 1 = DEFAULT_QUANTA \/ t \in halted'
     THEN Release(w, progress + 1)
     ELSE UNCHANGED <<holder, epoch, phase>>

\* The quantum ends at instruction i, which does not retire.
Stop(w, t, i) ==
  /\ at' = [at EXCEPT ![t] = i]
  /\ Release(w, progress)
  /\ UNCHANGED <<retired, progress, count, blocked_at>>

Ready(e) == IF e.send THEN pending[e.chan] = None ELSE pending[e.chan] # None

\* Dispatch of instruction i of thread t by worker w.
Dispatch(w, t, i) ==
  /\ phase[w] = "run" /\ t = hand[w]
  /\ retired[t] < MaxInstr
  /\ IF at[t] = None THEN i \in Program ELSE i = at[t]
  /\ UNCHANGED <<poolVars, hand>>

\* A channel operation transfers, or parks the thread without advancing its pc.
ChannelOp(w, t, i) ==
  /\ i.op \in {"alt", "nbalt"}
  /\ Dispatch(w, t, i)
  /\ UNCHANGED <<halted, born, spawned>>
  /\ \/ \E n \in DOMAIN i.table :
          /\ Ready(i.table[n]) /\ \A m \in 1 .. n - 1 : ~Ready(i.table[m])
          /\ pending' = [pending EXCEPT ![i.table[n].chan] =
                           IF i.table[n].send THEN t ELSE None]
          /\ Retire(w, t)
     \/ /\ \A n \in DOMAIN i.table : ~Ready(i.table[n])
        /\ UNCHANGED pending
        /\ IF i.op = "nbalt" THEN Retire(w, t)
           ELSE /\ Stop(w, t, i)
                /\ state' = [state EXCEPT ![t] = "Blocked"]
                /\ UNCHANGED result

\* The child is handed back with the thread that spawned it.
Spawn(w, t, i) ==
  /\ i.op = "spawn" /\ born < MaxThreads
  /\ Dispatch(w, t, i)
  /\ born' = born + 1
  /\ spawned' = [spawned EXCEPT ![w] = Append(@, born + 1)]
  /\ UNCHANGED <<halted, pending>>
  /\ Retire(w, t)

Exit(w, t, i) ==
  /\ i.op = "exit"
  /\ Dispatch(w, t, i)
  /\ halted' = halted \cup {t}
  /\ UNCHANGED <<born, pending, spawned>>
  /\ Retire(w, t)

Other(w, t, i) ==
  /\ i.op = "other"
  /\ Dispatch(w, t, i)
  /\ UNCHANGED <<halted, born, pending, spawned>>
  /\ Retire(w, t)

\* An instruction that fails on the state it finds, or does not.
Fault(w, t, i) ==
  /\ i.op = "fault"
  /\ Dispatch(w, t, i)
  /\ UNCHANGED <<halted, born, pending, spawned>>
  /\ \/ Retire(w, t)
     \/ /\ Stop(w, t, i)
        /\ result' = [result EXCEPT ![w] = "fault"]
        /\ UNCHANGED state

\* The pc is past the end of the code: the thread halts and retires nothing.
RunOffTheEnd(w, t) ==
  /\ phase[w] = "run" /\ t = hand[w]
  /\ at[t] = None
  /\ halted' = halted \cup {t}
  /\ Release(w, progress)
  /\ UNCHANGED <<poolVars, state, blocked_at, at, retired, progress, born, pending,
                 hand, count, spawned, result>>

Run(w) ==
  \E t \in Thread :
    \/ RunOffTheEnd(w, t)
    \/ \E i \in Program :
         ChannelOp(w, t, i) \/ Spawn(w, t, i) \/ Exit(w, t, i) \/ Other(w, t, i) \/ Fault(w, t, i)

-----------------------------------------------------------------------------
(* Under the pool lock again: giving the thread back. *)

\* Mutant: blocked_at is what the pool has seen, which includes later quanta of others.
ReturnedAtSeen(w, t) ==
  [blocked_at EXCEPT ![t] = IF seen > epoch[w] THEN seen ELSE epoch[w]]

\* A parked thread remembers the instruction count of the moment it parked.
ReturnedAt(w, t) == [blocked_at EXCEPT ![t] = epoch[w]]

\* Mutant of Returned: what the quantum spawned is dropped with its state.
ReturnedDropping(w) == Append(queue, hand[w])

Returned(w) == Append(queue, hand[w]) \o spawned[w]

Return(w) ==
  LET t == hand[w]
  IN  /\ phase[w] = "return"
      /\ running' = running - 1
      /\ seen' = IF epoch[w] > seen THEN epoch[w] ELSE seen
      /\ state' = [state EXCEPT ![t] = IF t \in halted THEN "Exited"
                                       ELSE IF @ = "Running" THEN "Ready" ELSE @]
      /\ blocked_at' = IF t \notin halted /\ state[t] = "Blocked"
                       THEN ReturnedAt(w, t) ELSE blocked_at
      /\ queue' = Returned(w)
      /\ hand' = [hand EXCEPT ![w] = None]
      /\ spawned' = [spawned EXCEPT ![w] = <<>>]
      /\ count' = [count EXCEPT ![w] = 0]
      /\ epoch' = [epoch EXCEPT ![w] = 0]
      /\ GoTo(w, "notify")
      /\ UNCHANGED <<shutdown, at, retired, halted, sharedVars, result>>

\* Mutant: notify_one.
WokenOne(w) ==
  LET asleep == {v \in Worker : phase[v] = "wait"}
  IN  IF asleep = {} THEN phase
      ELSE [phase EXCEPT ![CHOOSE v \in asleep : TRUE] = "pick"]

\* notify_all.
Woken(w) == [v \in Worker |-> IF phase[v] = "wait" THEN "pick" ELSE phase[v]]

\* notify_all, with no lock held; a worker with an error to report is done.
Notify(w) ==
  /\ phase[w] = "notify"
  /\ phase' = [Woken(w) EXCEPT ![w] = IF result[w] = "ok" THEN "pick" ELSE "done"]
  /\ UNCHANGED <<poolVars, threadVars, sharedVars, hand, count, spawned, epoch, result>>

WorkerStep(w) == Pick(w) \/ Lock(w) \/ Run(w) \/ Return(w) \/ Notify(w)

\* The scope joins its workers once all are done.
Joined == (\A w \in Worker : phase[w] = "done") /\ UNCHANGED vars

Next == Joined \/ \E w \in Worker : WorkerStep(w) \/ WakeSpuriously(w)

\* The OS runs every worker that can run.
Fairness == \A w \in Worker : WF_vars(WorkerStep(w))

Spec == Init /\ [][Next]_vars /\ Fairness

=============================================================================
