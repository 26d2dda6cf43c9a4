--------------------------- MODULE ThreadPoolProps ---------------------------
(***************************************************************************)
(* What must be true of the pool of ThreadPool.                            *)
(***************************************************************************)
EXTENDS ThreadPool

InQueue(t) == \E n \in DOMAIN queue : queue[n] = t
HeldBy(w, t) == hand[w] = t \/ \E n \in DOMAIN spawned[w] : spawned[w][n] = t

\* Threads created and not yet over.
Live == {t \in 1 .. born : t \notin halted}

\* The transfers a parked thread waits for.
Entries(i) == {i.table[n] : n \in DOMAIN i.table}

WaitsForChannel(t) == at[t] # None /\ at[t].op = "alt"

\* Thread t repeats a channel instruction and no transfer it asks for is possible.
Stuck(t) == WaitsForChannel(t) /\ \A e \in Entries(at[t]) : ~Ready(e)

-----------------------------------------------------------------------------

\* The deadlock a worker reports (deadlock_fault) is one: every thread that is left is
\* parked, none of them can do what it waits for, and no worker holds a thread.
PoolDeadlockIsReal ==
  \A w \in Worker : result[w] = "deadlock" =>
    /\ \A t \in Live : Stuck(t)
    /\ \A v \in Worker : hand[v] = None

\* "Run all threads using a thread pool until all have exited": run answers Ok only then.
OkMeansAllExited ==
  (\A w \in Worker : phase[w] = "done" /\ result[w] = "ok") => Live = {}

\* A guest thread is queued once, or in the hands of one worker, or over; running
\* counts the hands.
PoolConservesThreads ==
  /\ \A t \in Live :
       IF InQueue(t)
       THEN /\ \A n, m \in DOMAIN queue : queue[n] = t /\ queue[m] = t => n = m
            /\ \A w \in Worker : ~HeldBy(w, t)
       ELSE \E w \in Worker : HeldBy(w, t) /\ \A v \in Worker \ {w} : ~HeldBy(v, t)
  /\ running = Cardinality({w \in Worker : hand[w] # None})

\* No wake-up of a worker is lost: while one sleeps (Condvar::wait) and a thread it
\* could run is queued, another is on its way to notify it.
NobodySleepsOnWork ==
  (/\ \E w \in Worker : phase[w] = "wait"
   /\ \E n \in DOMAIN queue : IsRunnable(queue[n]))
  => \E w \in Worker : phase[w] = "notify"

\* No retry is missed: a parked thread whose transfer has become possible is runnable,
\* or will be once the worker that made it possible gives its thread back.
ParkedThreadIsRetried ==
  \A n \in DOMAIN queue :
    LET t == queue[n]
    IN  state[t] = "Blocked" /\ ~Stuck(t) =>
          \/ IsRunnable(t)
          \/ \E w \in Worker : hand[w] # None /\ blocked_at[t] < progress

\* Guest programs are finite here, so run returns: no worker spins on parked threads,
\* sleeps for ever, or waits for a lock that nobody releases.
PoolTerminates == <>[](\A w \in Worker : phase[w] = "done")

-----------------------------------------------------------------------------
(* The pool implements the fair threads of GuestThreads as well.           *)

Outcome ==
  IF Live = {} THEN "ok"
  ELSE IF \E w \in Worker : result[w] = "deadlock" THEN "deadlock"
  ELSE IF \A w \in Worker : phase[w] = "done" THEN "fault"
  ELSE "running"

Guest == INSTANCE GuestThreads WITH
  born <- born,
  done <- halted,
  waiting <- [t \in Thread |-> IF WaitsForChannel(t) THEN Entries(at[t]) ELSE None],
  slot <- pending,
  outcome <- Outcome

PoolImplementsGuestThreads == Guest!Spec

-----------------------------------------------------------------------------
(* The inductive invariant behind these.                                   *)

Elements(s) == {s[n] : n \in DOMAIN s}
NoRepeats(s) == \A n, m \in DOMAIN s : s[n] = s[m] => n = m

Held(w) == ({hand[w]} \cup Elements(spawned[w])) \ {None}
Busy == {w \in Worker : hand[w] # None}

\* A worker holds a thread from Take to Return, and the lock for its quantum.
WorkersInv ==
  /\ \A w \in Worker :
       /\ hand[w] # None <=> phase[w] \in {"lock", "run", "return"}
       /\ phase[w] = "run" <=> holder = w
       /\ phase[w] = "run" => count[w] < DEFAULT_QUANTA
       /\ phase[w] \notin {"run", "return"} => count[w] = 0 /\ spawned[w] = <<>>
       /\ result[w] # "ok" => phase[w] \in {"return", "notify", "done"}
  /\ running = Cardinality(Busy)

\* A thread that was created and is not over is in one place.
PlacesInv ==
  /\ NoRepeats(queue) /\ Elements(queue) \subseteq 1 .. born
  /\ \A w \in Worker :
       /\ Held(w) \subseteq 1 .. born /\ Held(w) \cap Elements(queue) = {}
       /\ NoRepeats(spawned[w]) /\ hand[w] \notin Elements(spawned[w])
       /\ \A v \in Worker \ {w} : Held(v) \cap Held(w) = {}
  /\ \A t \in 1 .. born : t \in halted \/ t \in Elements(queue) \/ \E w \in Worker : t \in Held(w)

\* VmThread::state follows the place, and a thread that has halted is Exited once it is back.
StatesInv ==
  /\ \A t \in Thread : t > born => state[t] = "Ready" /\ t \notin halted
  /\ \A t \in Thread : state[t] = "Exited" => t \in halted
  /\ \A t \in halted : state[t] = "Exited" \/ \E w \in Worker : hand[w] = t /\ phase[w] = "return"
  /\ \A t \in Elements(queue) : state[t] # "Running"
  /\ \A w \in Worker :
       /\ phase[w] \in {"lock", "run"} => state[hand[w]] = "Running"
       /\ phase[w] = "return" => state[hand[w]] \in {"Running", "Blocked"}
       /\ \A t \in Elements(spawned[w]) : state[t] = "Ready"

\* Thread t is parked: it is stuck, or an instruction has completed since then.
ParkedSince(t, then) == Stuck(t) \/ then < progress

\* What the pool has seen of the instruction count, and what is on its way to it.
ParkedInv ==
  /\ seen <= progress /\ \A t \in Thread : blocked_at[t] <= progress
  /\ \A w \in Worker : epoch[w] <= progress
  /\ \A t \in Elements(queue) : state[t] = "Blocked" => ParkedSince(t, blocked_at[t])
  /\ \A w \in Worker :
       phase[w] = "return" /\ state[hand[w]] = "Blocked" => ParkedSince(hand[w], epoch[w])
  /\ \/ seen = progress
     \/ \E w \in Worker : phase[w] = "run" \/ (phase[w] = "return" /\ epoch[w] = progress)

\* Once a worker has reported a deadlock, or has found the pool empty, no thread runs any more.
EndsInv ==
  /\ shutdown => \E w \in Worker : result[w] = "deadlock"
  /\ \A w \in Worker :
       /\ result[w] = "deadlock" => shutdown /\ Busy = {} /\ \A t \in Live : Stuck(t)
       /\ phase[w] = "done" /\ result[w] = "ok" => shutdown \/ (queue = <<>> /\ Busy = {})

IInv ==
  /\ TypeOK /\ WorkersInv /\ PlacesInv /\ StatesInv /\ ParkedInv /\ EndsInv
  /\ NobodySleepsOnWork

=============================================================================
