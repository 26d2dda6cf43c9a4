--------------------------- MODULE VmThreadsProofs ---------------------------
(***************************************************************************)
(* Safety of the run loop, for every guest program, every number of        *)
(* channels and threads and every quantum.                                 *)
(*                                                                         *)
(* The thread queue is only ever changed by queueing a thread at the back, *)
(* by taking out the one that resumes, and by releasing blocked threads.   *)
(* QueueInv says what a queue must satisfy for the properties to hold, and *)
(* the first part of the module shows that each of these preserves it; the *)
(* second part is the inductive invariant.                                 *)
(***************************************************************************)
EXTENDS VmThreadsProps, SequenceTheorems, TLAPS

-----------------------------------------------------------------------------
(* Sequences. *)

\* Sequence r holds the elements of q except the one at k, each once.
HoldsOthers(r, q, k) ==
  /\ \A n \in DOMAIN r : \E m \in DOMAIN q \ {k} : r[n] = q[m]
  /\ \A m \in DOMAIN q \ {k} : \E n \in DOMAIN r : r[n] = q[m]
  /\ \A n1, n2 \in DOMAIN r : n1 # n2 =>
       \E m1, m2 \in DOMAIN q \ {k} : m1 # m2 /\ r[n1] = q[m1] /\ r[n2] = q[m2]

\* resume_next_ready_thread rotates the queue past the thread it takes out.
LEMMA RotatedPastHoldsOthers ==
  ASSUME NEW S, NEW q \in Seq(S), NEW k \in DOMAIN q
  PROVE  RotatedPast(q, k) \in Seq(S) /\ HoldsOthers(RotatedPast(q, k), q, k)
<1> DEFINE a == SubSeq(q, k + 1, Len(q))
           b == SubSeq(q, 1, k - 1)
           L == Len(q)
           r == RotatedPast(q, k)
<1>0. L \in Nat /\ k \in 1 .. L /\ DOMAIN q = 1 .. L
  BY LenProperties
<1>1. /\ a \in Seq(S) /\ Len(a) = L - k
      /\ \A n \in 1 .. L - k : a[n] = q[k + 1 + n - 1]
  BY <1>0, SubSeqProperties
<1>2. /\ b \in Seq(S) /\ Len(b) = k - 1
      /\ \A n \in 1 .. k - 1 : b[n] = q[1 + n - 1]
  BY <1>0, SubSeqProperties
<1>3. /\ r \in Seq(S) /\ Len(r) = Len(a) + Len(b)
      /\ \A n \in 1 .. Len(a) + Len(b) : r[n] = IF n <= Len(a) THEN a[n] ELSE b[n - Len(a)]
  <2>1. r = a \o b BY DEF RotatedPast
  <2> HIDE DEF a, b, r
  <2> QED BY <1>1, <1>2, <2>1, ConcatProperties
<1> HIDE DEF a, b, L, r
<1>5. Len(r) = L - 1 /\ DOMAIN r = 1 .. L - 1
  BY <1>0, <1>1, <1>2, <1>3, LenProperties
<1>6. \A n \in 1 .. L - 1 : r[n] = q[IF n <= L - k THEN k + n ELSE n - (L - k)]
  <2> SUFFICES ASSUME NEW n \in 1 .. L - 1
               PROVE  r[n] = q[IF n <= L - k THEN k + n ELSE n - (L - k)]
    OBVIOUS
  <2>1. CASE n <= L - k
    <3>1. r[n] = a[n] BY <1>0, <1>1, <1>2, <1>3, <2>1
    <3>2. a[n] = q[k + 1 + n - 1] BY <1>0, <1>1, <2>1
    <3>3. k + 1 + n - 1 = k + n BY <1>0
    <3> QED BY <2>1, <3>1, <3>2, <3>3
  <2>2. CASE ~(n <= L - k)
    <3>1. r[n] = b[n - (L - k)] BY <1>0, <1>1, <1>2, <1>3, <2>2
    <3>2. n - (L - k) \in 1 .. k - 1 BY <1>0, <2>2
    <3>3. b[n - (L - k)] = q[1 + (n - (L - k)) - 1] BY <1>2, <3>2
    <3>4. 1 + (n - (L - k)) - 1 = n - (L - k) BY <1>0
    <3> QED BY <2>2, <3>1, <3>3, <3>4
  <2> QED BY <2>1, <2>2
<1> DEFINE f(n) == IF n <= L - k THEN k + n ELSE n - (L - k)
           g(m) == IF m > k THEN m - k ELSE m + (L - k)
<1>7. \A n \in 1 .. L - 1 : f(n) \in 1 .. L /\ f(n) # k /\ r[n] = q[f(n)]
  BY <1>0, <1>6
<1>8. \A n1, n2 \in 1 .. L - 1 : n1 # n2 => f(n1) # f(n2)
  BY <1>0
<1>9. \A m \in 1 .. L : m # k => g(m) \in 1 .. L - 1 /\ f(g(m)) = m
  BY <1>0
<1> HIDE DEF f, g
<1>10. HoldsOthers(r, q, k)
  <2>1. \A n \in DOMAIN r : \E m \in DOMAIN q \ {k} : r[n] = q[m]
    BY <1>0, <1>5, <1>7
  <2>2. \A m \in DOMAIN q \ {k} : \E n \in DOMAIN r : r[n] = q[m]
    BY <1>0, <1>5, <1>7, <1>9
  <2>3. \A n1, n2 \in DOMAIN r : n1 # n2 =>
           \E m1, m2 \in DOMAIN q \ {k} : m1 # m2 /\ r[n1] = q[m1] /\ r[n2] = q[m2]
    BY <1>0, <1>5, <1>7, <1>8
  <2> QED BY <2>1, <2>2, <2>3 DEF HoldsOthers
<1> QED
  BY <1>3, <1>10 DEF r

\* VecDeque::remove, by which run_other_vm_thread takes its thread.
LEMMA WithoutHoldsOthers ==
  ASSUME NEW S, NEW q \in Seq(S), NEW k \in DOMAIN q
  PROVE  Without(q, k) \in Seq(S) /\ HoldsOthers(Without(q, k), q, k)
<1> DEFINE a == SubSeq(q, 1, k - 1)
           b == SubSeq(q, k + 1, Len(q))
           L == Len(q)
           r == Without(q, k)
<1>0. L \in Nat /\ k \in 1 .. L /\ DOMAIN q = 1 .. L
  BY LenProperties
<1>1. /\ a \in Seq(S) /\ Len(a) = k - 1
      /\ \A n \in 1 .. k - 1 : a[n] = q[1 + n - 1]
  BY <1>0, SubSeqProperties
<1>2. /\ b \in Seq(S) /\ Len(b) = L - k
      /\ \A n \in 1 .. L - k : b[n] = q[k + 1 + n - 1]
  BY <1>0, SubSeqProperties
<1>3. /\ r \in Seq(S) /\ Len(r) = Len(a) + Len(b)
      /\ \A n \in 1 .. Len(a) + Len(b) : r[n] = IF n <= Len(a) THEN a[n] ELSE b[n - Len(a)]
  <2>1. r = a \o b BY DEF Without
  <2> HIDE DEF a, b, r
  <2> QED BY <1>1, <1>2, <2>1, ConcatProperties
<1> HIDE DEF a, b, L, r
<1>5. Len(r) = L - 1 /\ DOMAIN r = 1 .. L - 1
  BY <1>0, <1>1, <1>2, <1>3, LenProperties
<1> DEFINE f(n) == IF n < k THEN n ELSE n + 1
           g(m) == IF m < k THEN m ELSE m - 1
<1>7. \A n \in 1 .. L - 1 : f(n) \in 1 .. L /\ f(n) # k /\ r[n] = q[f(n)]
  <2> SUFFICES ASSUME NEW n \in 1 .. L - 1
               PROVE  f(n) \in 1 .. L /\ f(n) # k /\ r[n] = q[f(n)]
    OBVIOUS
  <2>1. CASE n < k
    <3>1. r[n] = a[n] BY <1>0, <1>1, <1>2, <1>3, <2>1
    <3>2. a[n] = q[1 + n - 1] /\ 1 + n - 1 = n BY <1>0, <1>1, <2>1
    <3> QED BY <1>0, <2>1, <3>1, <3>2
  <2>2. CASE ~(n < k)
    <3>1. r[n] = b[n - (k - 1)] BY <1>0, <1>1, <1>2, <1>3, <2>2
    <3>2. n - (k - 1) \in 1 .. L - k BY <1>0, <2>2
    <3>3. b[n - (k - 1)] = q[k + 1 + (n - (k - 1)) - 1] BY <1>2, <3>2
    <3>4. k + 1 + (n - (k - 1)) - 1 = n + 1 BY <1>0
    <3> QED BY <1>0, <2>2, <3>1, <3>3, <3>4
  <2> QED BY <2>1, <2>2
<1>8. \A n1, n2 \in 1 .. L - 1 : n1 # n2 => f(n1) # f(n2)
  BY <1>0
<1>9. \A m \in 1 .. L : m # k => g(m) \in 1 .. L - 1 /\ f(g(m)) = m
  BY <1>0
<1> HIDE DEF f, g
<1>10. HoldsOthers(r, q, k)
  <2>1. \A n \in DOMAIN r : \E m \in DOMAIN q \ {k} : r[n] = q[m]
    BY <1>0, <1>5, <1>7
  <2>2. \A m \in DOMAIN q \ {k} : \E n \in DOMAIN r : r[n] = q[m]
    BY <1>0, <1>5, <1>7, <1>9
  <2>3. \A n1, n2 \in DOMAIN r : n1 # n2 =>
           \E m1, m2 \in DOMAIN q \ {k} : m1 # m2 /\ r[n1] = q[m1] /\ r[n2] = q[m2]
    BY <1>0, <1>5, <1>7, <1>8
  <2> QED BY <2>1, <2>2, <2>3 DEF HoldsOthers
<1> QED
  BY <1>3, <1>10 DEF r

-----------------------------------------------------------------------------
(* Queues. *)

\* Entry k leaves the queue: what remains is in order, and the thread it stood for joins
\* the ones the queue does not hold.
LEMMA TakeOut ==
  ASSUME NEW q, NEW away, NEW nx, NEW a, NEW pd, QueueInv(q, away, nx, a, pd),
         NEW k \in DOMAIN q, NEW r \in Seq(Suspended), HoldsOthers(r, q, k)
  PROVE  /\ QueueInv(r, away \cup {q[k].thread}, nx, a, pd)
         /\ Threads(q) = Threads(r) \cup {q[k].thread}
         /\ q[k].thread \in Thread /\ q[k].pid \in Thread
         /\ q[k].thread \notin away /\ q[k].thread < nx
<1>1. /\ \A n \in DOMAIN r : \E m \in DOMAIN q \ {k} : r[n] = q[m]
      /\ \A m \in DOMAIN q \ {k} : \E n \in DOMAIN r : r[n] = q[m]
      /\ \A n1, n2 \in DOMAIN r : n1 # n2 =>
           \E m1, m2 \in DOMAIN q \ {k} : m1 # m2 /\ r[n1] = q[m1] /\ r[n2] = q[m2]
  BY DEF HoldsOthers
<1>2. /\ q \in Seq(Suspended)
      /\ \A n, m \in DOMAIN q : n # m => q[n].thread # q[m].thread
      /\ \A n \in DOMAIN q : /\ q[n].thread \notin away
                             /\ q[n].thread < nx
                             /\ WellMarked(q[n], a, pd)
  BY DEF QueueInv
<1>3. q[k] \in Suspended
  BY <1>2, ElementOfSeq, LenProperties
<1>4. \A n, m \in DOMAIN r : n # m => r[n].thread # r[m].thread
  <2> SUFFICES ASSUME NEW n \in DOMAIN r, NEW m \in DOMAIN r, n # m
               PROVE  r[n].thread # r[m].thread
    OBVIOUS
  <2>1. PICK i, j \in DOMAIN q \ {k} : i # j /\ r[n] = q[i] /\ r[m] = q[j]
    BY <1>1
  <2> QED BY <1>2, <2>1
<1>5. \A n \in DOMAIN r : /\ r[n].thread \notin away \cup {q[k].thread}
                          /\ r[n].thread < nx
                          /\ WellMarked(r[n], a, pd)
  BY <1>1, <1>2
<1>6. Threads(q) = Threads(r) \cup {q[k].thread}
  BY <1>1 DEF Threads
<1> QED
  BY <1>2, <1>3, <1>4, <1>5, <1>6 DEF QueueInv, Suspended

\* push_back queues one more thread.
LEMMA AppendThreads ==
  ASSUME NEW q \in Seq(Suspended), NEW s \in Suspended
  PROVE  Threads(Append(q, s)) = Threads(q) \cup {s.thread}
<1> DEFINE r == Append(q, s)
<1>1. /\ r \in Seq(Suspended) /\ Len(r) = Len(q) + 1
      /\ \A n \in 1 .. Len(q) : r[n] = q[n]
      /\ r[Len(q) + 1] = s
  BY AppendProperties
<1>2. Len(q) \in Nat /\ DOMAIN q = 1 .. Len(q) /\ DOMAIN r = 1 .. Len(q) + 1
  BY <1>1, LenProperties
<1> HIDE DEF r
<1>3. \A n \in DOMAIN r : (n \in DOMAIN q /\ r[n] = q[n]) \/ (n = Len(q) + 1 /\ r[n] = s)
  BY <1>1, <1>2
<1>4. Len(q) + 1 \in DOMAIN r /\ \A n \in DOMAIN q : n \in DOMAIN r /\ n # Len(q) + 1
  BY <1>2
<1>5. Threads(r) = Threads(q) \cup {s.thread}
  BY <1>1, <1>2, <1>3, <1>4 DEF Threads
<1> QED
  BY <1>5 DEF r

\* The queue entry s stands for one of the threads of away, which then holds left.
Joins(s, away, left, nx, a, pd) ==
  /\ s \in Suspended /\ s.thread \in away /\ s.thread < nx
  /\ WellMarked(s, a, pd)
  /\ left \subseteq away /\ s.thread \notin left

\* push_back of a thread that gave up the VM keeps the queue in order.
LEMMA PutIn ==
  ASSUME NEW q, NEW away, NEW nx, NEW a, NEW pd, QueueInv(q, away, nx, a, pd),
         NEW s, NEW left, Joins(s, away, left, nx, a, pd)
  PROVE  /\ QueueInv(Append(q, s), left, nx, a, pd)
         /\ Threads(Append(q, s)) = Threads(q) \cup {s.thread}
         /\ Append(q, s) # <<>>
<1> DEFINE r == Append(q, s)
<1>0. /\ s \in Suspended /\ s.thread \in away /\ s.thread < nx
      /\ WellMarked(s, a, pd)
      /\ left \subseteq away /\ s.thread \notin left
  BY DEF Joins
<1>1. /\ q \in Seq(Suspended)
      /\ \A n, m \in DOMAIN q : n # m => q[n].thread # q[m].thread
      /\ \A n \in DOMAIN q : /\ q[n].thread \notin away
                             /\ q[n].thread < nx
                             /\ WellMarked(q[n], a, pd)
  BY DEF QueueInv
<1>2. /\ r \in Seq(Suspended) /\ r # <<>> /\ Len(r) = Len(q) + 1
      /\ \A n \in 1 .. Len(q) : r[n] = q[n]
      /\ r[Len(q) + 1] = s
  BY <1>0, <1>1, AppendProperties
<1>3. Len(q) \in Nat /\ DOMAIN q = 1 .. Len(q) /\ DOMAIN r = 1 .. Len(q) + 1
  BY <1>1, <1>2, LenProperties
<1> HIDE DEF r
<1>4. \A n \in DOMAIN r : (n \in DOMAIN q /\ r[n] = q[n]) \/ (n = Len(q) + 1 /\ r[n] = s)
  BY <1>2, <1>3
<1>6. Threads(r) = Threads(q) \cup {s.thread}
  BY <1>0, <1>1, AppendThreads DEF r
<1>7. \A n, m \in DOMAIN r : n # m => r[n].thread # r[m].thread
  <2> SUFFICES ASSUME NEW n \in DOMAIN r, NEW m \in DOMAIN r, n # m
               PROVE  r[n].thread # r[m].thread
    OBVIOUS
  <2>1. CASE n \in DOMAIN q /\ m \in DOMAIN q
    BY <1>1, <1>2, <1>3, <2>1
  <2>2. CASE n \notin DOMAIN q
    <3>1. r[n] = s /\ m \in DOMAIN q /\ r[m] = q[m] BY <1>4, <2>2
    <3> QED BY <1>0, <1>1, <3>1
  <2>3. CASE m \notin DOMAIN q
    <3>1. r[m] = s /\ n \in DOMAIN q /\ r[n] = q[n] BY <1>4, <2>3
    <3> QED BY <1>0, <1>1, <3>1
  <2> QED BY <2>1, <2>2, <2>3
<1>8. \A n \in DOMAIN r : /\ r[n].thread \notin left
                          /\ r[n].thread < nx
                          /\ WellMarked(r[n], a, pd)
  BY <1>0, <1>1, <1>4
<1>9. QueueInv(r, left, nx, a, pd)
  BY <1>2, <1>7, <1>8 DEF QueueInv
<1> QED
  BY <1>2, <1>6, <1>9 DEF r

\* The slots pd and pd2 differ on channel c at most.
SameBut(c, pd, pd2) == \A d \in Chan \ {c} : pd2[d] = pd[d]

\* unblock_channel wakes every thread the transfer can concern: those it leaves blocked
\* wait for another channel.
LEMMA Wake ==
  ASSUME NEW q, NEW away, NEW nx, NEW a, NEW pd, QueueInv(q, away, nx, a, pd),
         NEW c \in Chan, NEW pd2, SameBut(c, pd, pd2)
  PROVE  /\ QueueInv(Unblocked(q, c), away, nx, a, pd2)
         /\ Threads(Unblocked(q, c)) = Threads(q)
<1> DEFINE r == Unblocked(q, c)
<1>1. /\ q \in Seq(Suspended)
      /\ \A n, m \in DOMAIN q : n # m => q[n].thread # q[m].thread
      /\ \A n \in DOMAIN q : /\ q[n].thread \notin away
                             /\ q[n].thread < nx
                             /\ WellMarked(q[n], a, pd)
  BY DEF QueueInv
<1>2. Len(q) \in Nat /\ DOMAIN q = 1 .. Len(q) /\ \A n \in DOMAIN q : q[n] \in Suspended
  BY <1>1, LenProperties, ElementOfSeq
<1>3. DOMAIN r = DOMAIN q
  BY DEF Unblocked
<1>4. \A n \in DOMAIN q :
        /\ r[n] \in Suspended /\ r[n].thread = q[n].thread
        /\ \/ r[n].blocked_on = None
           \/ r[n] = q[n] /\ q[n].blocked_on \notin {c, NIL}
  BY <1>2 DEF Unblocked, Suspended
<1> HIDE DEF r
<1>5. r \in Seq(Suspended)
  <2>1. r = [n \in 1 .. Len(q) |-> r[n]]
    BY <1>2, <1>3 DEF r, Unblocked
  <2>2. \A n \in 1 .. Len(q) : r[n] \in Suspended
    BY <1>2, <1>4
  <2> QED BY <1>2, <2>1, <2>2, IsASeq
<1>6. \A n \in DOMAIN q : WellMarked(r[n], a, pd2)
  <2> SUFFICES ASSUME NEW n \in DOMAIN q, r[n].blocked_on # None
               PROVE  /\ a[r[n].thread] # None
                      /\ Waits(a[r[n].thread], r[n].blocked_on, pd2)
    BY DEF WellMarked
  <2>1. r[n] = q[n] /\ q[n].blocked_on \in Chan \ {c} /\ q[n].blocked_on # None
    BY <1>2, <1>4 DEF Suspended
  <2>2. a[q[n].thread] # None /\ Waits(a[q[n].thread], q[n].blocked_on, pd)
    BY <1>1, <2>1 DEF WellMarked
  <2>3. q[n].blocked_on # NIL
    BY <2>1, ConstantsAssumption
  <2> QED BY <2>1, <2>2, <2>3 DEF Waits, ReadyIn, SameBut
<1>7. Threads(r) = Threads(q)
  BY <1>3, <1>4 DEF Threads
<1>8. QueueInv(r, away, nx, a, pd2)
  BY <1>1, <1>3, <1>4, <1>5, <1>6 DEF QueueInv
<1> QED
  BY <1>7, <1>8 DEF r

\* Going from away, nx and a to away2, nx2 and a2 says nothing new of the queue.
Loosens(away, nx, a, away2, nx2, a2) ==
  /\ away2 \subseteq away \cup {None}
  /\ nx \in Nat /\ nx2 \in Nat /\ nx <= nx2
  /\ \A t \in Thread \ away : a2[t] = a[t]

\* What a thread outside the queue is stuck at does not matter to it.
LEMMA OthersMove ==
  ASSUME NEW q, NEW away, NEW nx, NEW a, NEW pd, QueueInv(q, away, nx, a, pd),
         NEW away2, NEW nx2, NEW a2, Loosens(away, nx, a, away2, nx2, a2)
  PROVE  QueueInv(q, away2, nx2, a2, pd)
<1>0. /\ q \in Seq(Suspended)
      /\ \A n \in DOMAIN q : /\ q[n].thread \notin away
                             /\ q[n].thread < nx
                             /\ WellMarked(q[n], a, pd)
  BY DEF QueueInv
<1>1. \A n \in DOMAIN q : /\ q[n].thread \in Thread \ away
                          /\ q[n].thread \in Nat /\ q[n].thread # None
  <2>1. \A n \in DOMAIN q : q[n] \in Suspended
    BY <1>0, ElementOfSeq, LenProperties
  <2> QED BY <1>0, <2>1, ConstantsAssumption DEF Suspended, Thread
<1>2. \A n \in DOMAIN q : WellMarked(q[n], a2, pd)
  BY <1>0, <1>1 DEF WellMarked, Loosens
<1>3. \A n \in DOMAIN q : q[n].thread \notin away2 /\ q[n].thread < nx2
  BY <1>0, <1>1 DEF Loosens
<1> QED
  BY <1>2, <1>3 DEF QueueInv

\* Thread t may be queued with the mark why.
MayCarry(t, why, a, pd) ==
  why \in Chan \cup {NIL, None} /\ (why # None => a[t] # None /\ Waits(a[t], why, pd))

\* suspend_and_rotate and suspend_as_blocked queue thread t, which was in the VM.
LEMMA Requeue ==
  ASSUME NEW q, NEW t \in Thread, NEW x, x # t, NEW nx \in Nat, t < nx, NEW a, NEW pd,
         QueueInv(q, {t, x}, nx, a, pd), TypeOK,
         NEW why, MayCarry(t, why, a, pd)
  PROVE  /\ QueueInv(Suspend(q, t, why), {x}, nx, a, pd)
         /\ Threads(Suspend(q, t, why)) = Threads(q) \cup {t}
         /\ Suspend(q, t, why) # <<>>
<1> DEFINE s == [thread |-> t, pid |-> current_pid, blocked_on |-> why]
           away == {t, x}
           left == {x}
<1>1. s \in Suspended /\ s.thread = t /\ s.blocked_on = why
  BY DEF TypeOK, Suspended, MayCarry
<1>2. WellMarked(s, a, pd)
  BY <1>1 DEF WellMarked, MayCarry
<1>3. Suspend(q, t, why) = Append(q, s) /\ left \subseteq away /\ s.thread \in away /\ s.thread \notin left
  BY <1>1 DEF Suspend
<1>4. QueueInv(q, away, nx, a, pd)
  OBVIOUS
<1>5. s.thread < nx
  BY <1>1
<1>7. Joins(s, away, left, nx, a, pd)
  BY <1>1, <1>2, <1>3, <1>5 DEF Joins
<1> HIDE DEF s, away, left
<1>6. /\ QueueInv(Append(q, s), left, nx, a, pd)
      /\ Threads(Append(q, s)) = Threads(q) \cup {s.thread}
      /\ Append(q, s) # <<>>
  BY <1>4, <1>7, PutIn
<1> QED
  BY <1>1, <1>3, <1>6 DEF left

-----------------------------------------------------------------------------
(* Changes of the running thread. *)

\* The state after a step in which the threads of T are somewhere.
Settled(T) ==
  /\ QueueInv(queue', {cur', parked'}, next_pid', at', pending')
  /\ cur' \in Thread /\ current_pid' \in Thread
  /\ halted' \in BOOLEAN
  /\ quantum' \in 0 .. THREAD_QUANTUM
  /\ parked' \in Thread \cup {None}
  /\ slice' \in 0 .. YIELD_QUANTUM - 1
  /\ cur' # parked' /\ cur' < next_pid'
  /\ parked' # None => parked' < next_pid'
  /\ halted' => parked' = None
  /\ Threads(queue') \cup {cur'} \cup ({parked'} \ {None}) = T

\* resume_next_ready_thread with nobody parked.
LEMMA ResumeTakes ==
  ASSUME NEW q, NEW nx, NEW a, NEW pd, QueueInv(q, {None}, nx, a, pd), ResumeNextReady(q)
  PROVE  /\ QueueInv(queue', {cur', None}, nx, a, pd)
         /\ Threads(queue') \cup {cur'} = Threads(q)
         /\ cur' \in Thread /\ current_pid' \in Thread /\ cur' < nx
         /\ halted' = FALSE
<1>1. PICK k \in DOMAIN q : /\ queue' = RotatedPast(q, k)
                            /\ cur' = q[k].thread
                            /\ current_pid' = q[k].pid
                            /\ halted' = FALSE
  BY DEF ResumeNextReady
<1>2. q \in Seq(Suspended)
  BY DEF QueueInv
<1>3. queue' \in Seq(Suspended) /\ HoldsOthers(queue', q, k)
  BY <1>1, <1>2, RotatedPastHoldsOthers
<1>4. /\ QueueInv(queue', {None} \cup {q[k].thread}, nx, a, pd)
      /\ Threads(q) = Threads(queue') \cup {q[k].thread}
      /\ q[k].thread \in Thread /\ q[k].pid \in Thread
      /\ q[k].thread < nx
  BY <1>3, TakeOut
<1>5. {None} \cup {q[k].thread} = {cur', None}
  BY <1>1
<1> QED
  BY <1>1, <1>4, <1>5

\* run counts the instruction, or rotates at the end of the quantum (vm.rs:660-668),
\* without losing the thread it was running.
LEMMA RetireInRunSettles ==
  ASSUME TypeOK, next_pid' \in Nat,
         NEW q, NEW t \in Thread, t < next_pid', NEW halt \in BOOLEAN,
         QueueInv(q, {t, None}, next_pid', at', pending'),
         RetireInRun(q, t, halt)
  PROVE  Settled(Threads(q) \cup {t})
<1>0. t # None /\ parked' = None /\ slice' = 0 /\ slice' \in 0 .. YIELD_QUANTUM - 1
  BY ConstantsAssumption DEF RetireInRun
<1>1. CASE quantum + 1 >= THREAD_QUANTUM /\ q # <<>>
  <2> DEFINE r == Suspend(q, t, None)
  <2>1. quantum' = 0 /\ ResumeNextReady(r)
    BY <1>1 DEF RetireInRun
  <2>4. QueueInv(r, {None}, next_pid', at', pending') /\ Threads(r) = Threads(q) \cup {t}
    BY <1>0, Requeue DEF MayCarry
  <2> HIDE DEF r
  <2>5. /\ QueueInv(queue', {cur', None}, next_pid', at', pending')
        /\ Threads(queue') \cup {cur'} = Threads(r)
        /\ cur' \in Thread /\ current_pid' \in Thread /\ cur' < next_pid'
        /\ halted' = FALSE
    BY <2>1, <2>4, ResumeTakes
  <2>6. quantum' \in 0 .. THREAD_QUANTUM
    BY <2>1, ConstantsAssumption
  <2>7. cur' # None
    BY <2>5, ConstantsAssumption
  <2> QED
    BY <1>0, <2>4, <2>5, <2>6, <2>7 DEF Settled
<1>2. CASE ~(quantum + 1 >= THREAD_QUANTUM /\ q # <<>>)
  <2>1. /\ quantum' = IF quantum < THREAD_QUANTUM THEN quantum + 1 ELSE quantum
        /\ queue' = q /\ cur' = t /\ halted' = halt /\ current_pid' = current_pid
    BY <1>2 DEF RetireInRun
  <2>2. quantum' \in 0 .. THREAD_QUANTUM
    BY <2>1, ConstantsAssumption DEF TypeOK
  <2>3. current_pid' \in Thread
    BY <2>1 DEF TypeOK
  <2> QED
    BY <1>0, <2>1, <2>2, <2>3 DEF Settled
<1> QED
  BY <1>1, <1>2

\* The lent-to thread s goes back to the queue and the reader takes over.
LEMMA ReturnSettles ==
  ASSUME TypeOK, ~halted, next_pid' \in Nat, parked # None, parked < next_pid',
         NEW q, QueueInv(q, {parked, None}, next_pid', at', pending'),
         ReturnToReader(q)
  PROVE  Settled(Threads(q) \cup {parked})
<1>1. /\ queue' = q /\ cur' = parked /\ parked' = None /\ slice' = 0
      /\ current_pid' = current_pid /\ quantum' = quantum /\ halted' = halted
  BY DEF ReturnToReader
<1>2. /\ parked \in Thread /\ current_pid \in Thread /\ quantum \in 0 .. THREAD_QUANTUM
      /\ halted \in BOOLEAN
  BY DEF TypeOK
<1>3. slice' \in 0 .. YIELD_QUANTUM - 1
  BY <1>1, ConstantsAssumption
<1> QED
  BY <1>1, <1>2, <1>3 DEF Settled

\* run_thread_slice counts the instruction, or ends the slice.
LEMMA RetireInSliceSettles ==
  ASSUME TypeOK, Positions, ~halted, next_pid' \in Nat, next_pid <= next_pid', parked # None,
         NEW q, QueueInv(q, {cur, parked}, next_pid', at', pending'),
         RetireInSlice(q)
  PROVE  Settled(Threads(q) \cup {cur, parked})
<1>0. /\ cur \in Thread /\ parked \in Thread /\ next_pid \in Nat
      /\ cur # parked /\ cur < next_pid' /\ parked < next_pid'
  BY ConstantsAssumption DEF TypeOK, Positions, Thread
<1>1. CASE slice + 1 = YIELD_QUANTUM
  <2> DEFINE r == Suspend(q, cur, None)
  <2>1. ReturnToReader(r)
    BY <1>1 DEF RetireInSlice
  <2>2. QueueInv(r, {parked}, next_pid', at', pending') /\ Threads(r) = Threads(q) \cup {cur}
    BY <1>0, Requeue DEF MayCarry
  <2> HIDE DEF r
  <2>3. Loosens({parked}, next_pid', at', {parked, None}, next_pid', at')
    BY DEF Loosens
  <2>4. QueueInv(r, {parked, None}, next_pid', at', pending')
    BY <2>2, <2>3, OthersMove
  <2>5. Settled(Threads(r) \cup {parked})
    BY <1>0, <2>1, <2>4, ReturnSettles
  <2>6. Threads(r) \cup {parked} = Threads(q) \cup {cur, parked}
    BY <2>2
  <2> QED
    BY <2>5, <2>6
<1>2. CASE slice + 1 # YIELD_QUANTUM
  <2>1. /\ slice' = slice + 1 /\ queue' = q /\ cur' = cur /\ current_pid' = current_pid
        /\ quantum' = quantum /\ halted' = halted /\ parked' = parked
    BY <1>2 DEF RetireInSlice
  <2>2. slice' \in 0 .. YIELD_QUANTUM - 1
    BY <1>2, <2>1, ConstantsAssumption DEF TypeOK
  <2>3. parked # None
    OBVIOUS
  <2>4. Threads(q) \cup {cur, parked} = Threads(queue') \cup {cur'} \cup ({parked'} \ {None})
    BY <2>1, <2>3
  <2> QED
    BY <1>0, <2>1, <2>2, <2>4 DEF Settled, TypeOK
<1> QED
  BY <1>1, <1>2

\* Whichever loop is running fetches the next instruction, or gives the VM to another
\* thread, without losing one.
LEMMA RetireSettles ==
  ASSUME TypeOK, Positions, ~halted, next_pid' \in Nat, next_pid <= next_pid',
         NEW q, QueueInv(q, {cur, parked}, next_pid', at', pending'),
         NEW inNested \in BOOLEAN, Retire(q, inNested)
  PROVE  /\ Settled(Threads(q) \cup {cur} \cup ({parked} \ {None}))
         /\ at' \in [Thread -> Reachable \cup {None}]
         /\ nested' \in [Thread -> BOOLEAN]
         /\ result' = result
<1>0. /\ cur \in Thread /\ next_pid \in Nat
      /\ cur # parked /\ cur < next_pid' /\ (parked # None => parked < next_pid')
  BY ConstantsAssumption DEF TypeOK, Positions, Thread
<1>1. /\ at' \in [Thread -> Reachable \cup {None}]
      /\ nested' \in [Thread -> BOOLEAN]
      /\ result' = result
  BY DEF Retire, TypeOK
<1> DEFINE T == Threads(q) \cup {cur} \cup ({parked} \ {None})
<1>2. CASE inNested
  <2>1. /\ queue' = q /\ cur' = cur /\ current_pid' = current_pid /\ slice' = slice
        /\ quantum' = quantum /\ halted' = halted /\ parked' = parked
    BY <1>2 DEF Retire, RetireInNestedLoop
  <2>2. Settled(T)
    BY <1>0, <2>1 DEF Settled, TypeOK
  <2> QED
    BY <1>1, <2>2
<1>3. CASE ~inNested /\ parked = None
  <2>1. RetireInRun(q, cur, FALSE)
    BY <1>3 DEF Retire
  <2>2. QueueInv(q, {cur, None}, next_pid', at', pending')
    BY <1>3
  <2>3. Settled(Threads(q) \cup {cur})
    BY <1>0, <2>1, <2>2, RetireInRunSettles
  <2>4. Threads(q) \cup {cur} = T
    BY <1>3
  <2> QED
    BY <1>1, <2>3, <2>4
<1>4. CASE ~inNested /\ parked # None
  <2>1. RetireInSlice(q)
    BY <1>4 DEF Retire
  <2>2. Settled(Threads(q) \cup {cur, parked})
    BY <1>4, <2>1, RetireInSliceSettles
  <2>3. Threads(q) \cup {cur, parked} = T
    BY <1>4
  <2> QED
    BY <1>1, <2>2, <2>3
<1> QED
  BY <1>2, <1>3, <1>4

-----------------------------------------------------------------------------
(* The inductive invariant. *)

\* The variables Settled does not speak of.
RestTyped ==
  /\ at' \in [Thread -> Reachable \cup {None}]
  /\ nested' \in [Thread -> BOOLEAN]
  /\ next_pid' \in 2 .. MaxThreads + 1
  /\ pending' \in [Chan -> Thread \cup {None}]
  /\ wait_records' \in Seq(Thread)
  /\ exited' \subseteq Thread /\ finished' \subseteq Thread /\ recorded' \subseteq Thread
  /\ finished' \subseteq 1 .. next_pid' - 1

\* Everybody who is alive is placed and the run goes on.
LEMMA SettledIsInv ==
  ASSUME Settled(Live'), RestTyped, result' = "running"
  PROVE  IInv'
<1>1. TypeOK'
  BY DEF Settled, RestTyped, TypeOK, QueueInv
<1>2. QueueInv(queue', {cur', parked'}, next_pid', at', pending')
  BY DEF Settled
<1>3. Positions'
  BY DEF Settled, Positions, RestTyped
<1>4. DeadlockIsReal'
  BY DEF DeadlockIsReal
<1> QED
  BY <1>1, <1>2, <1>3, <1>4 DEF IInv

\* The threads an instruction finds, when it is dispatched.
LEMMA Placed ==
  ASSUME IInv, result = "running"
  PROVE  /\ TypeOK /\ Positions /\ next_pid \in Nat /\ cur \in Thread
         /\ QueueInv(queue, {cur, parked}, next_pid, at, pending)
         /\ Live = Threads(queue) \cup {cur} \cup ({parked} \ {None})
BY DEF IInv, TypeOK, Positions

\* An instruction whose only effect on the queue is that it is complete.
LEMMA Completes ==
  ASSUME IInv, result = "running", ~halted, NEW inNested \in BOOLEAN, Retire(queue, inNested),
         UNCHANGED <<next_pid, pending, finished>>,
         wait_records' \in Seq(Thread), exited' \subseteq Thread, recorded' \subseteq Thread
  PROVE  IInv'
<1>1. Loosens({cur, parked}, next_pid, at, {cur, parked}, next_pid', at')
  BY Placed DEF Loosens, Retire, TypeOK
<1>2. QueueInv(queue, {cur, parked}, next_pid', at', pending')
  BY <1>1, Placed, OthersMove
<1>0. TypeOK /\ Positions /\ next_pid' \in Nat /\ next_pid <= next_pid'
  BY Placed
<1>3. /\ Settled(Threads(queue) \cup {cur} \cup ({parked} \ {None}))
      /\ at' \in [Thread -> Reachable \cup {None}]
      /\ nested' \in [Thread -> BOOLEAN]
      /\ result' = result
  BY <1>0, <1>2, RetireSettles
<1>4. Live' = Threads(queue) \cup {cur} \cup ({parked} \ {None})
  BY Placed DEF Live
<1>5. RestTyped
  BY <1>3, Placed DEF RestTyped, Positions, TypeOK
<1> QED
  BY <1>3, <1>4, <1>5, SettledIsInv

\* A transfer on channel c, by an opcode or by Tk.
LEMMA Transfers ==
  ASSUME IInv, result = "running", ~halted, NEW c \in Chan, NEW v \in Thread \cup {None},
         pending' = [pending EXCEPT ![c] = v],
         Retire(Unblocked(queue, c), nested[cur]),
         UNCHANGED <<next_pid, wait_records, history>>
  PROVE  IInv'
<1> DEFINE q == Unblocked(queue, c)
<1>1. Loosens({cur, parked}, next_pid, at, {cur, parked}, next_pid', at')
  BY Placed DEF Loosens, Retire, TypeOK
<1>2. QueueInv(queue, {cur, parked}, next_pid', at', pending)
  BY <1>1, Placed, OthersMove
<1>3. SameBut(c, pending, pending')
  BY Placed DEF TypeOK, SameBut
<1>4. /\ QueueInv(q, {cur, parked}, next_pid', at', pending')
      /\ Threads(q) = Threads(queue)
  BY <1>2, <1>3, Wake
<1> HIDE DEF q
<1>5. nested[cur] \in BOOLEAN /\ Retire(q, nested[cur])
  BY Placed DEF TypeOK, q
<1>0. TypeOK /\ Positions /\ next_pid' \in Nat /\ next_pid <= next_pid'
  BY Placed
<1>6. /\ Settled(Threads(q) \cup {cur} \cup ({parked} \ {None}))
      /\ at' \in [Thread -> Reachable \cup {None}]
      /\ nested' \in [Thread -> BOOLEAN]
      /\ result' = result
  BY <1>0, <1>4, <1>5, RetireSettles
<1>7. Live' = Threads(q) \cup {cur} \cup ({parked} \ {None})
  BY <1>4, Placed DEF Live, history
<1>8. RestTyped
  BY <1>6, Placed DEF RestTyped, Positions, TypeOK, history
<1> QED
  BY <1>6, <1>7, <1>8, SettledIsInv

\* op_spawn: the child is a thread nobody has heard of.
LEMMA Spawns ==
  ASSUME IInv, NEW i, Spawn(i)
  PROVE  IInv'
<1> DEFINE s == [thread |-> next_pid, pid |-> next_pid, blocked_on |-> None]
           q == Append(queue, s)
<1>0. /\ result = "running" /\ ~halted /\ next_pid \in Thread /\ next_pid' = next_pid + 1
      /\ pending' = pending /\ UNCHANGED <<wait_records, history>>
      /\ Retire(q, nested[cur])
  BY Placed DEF Spawn, Dispatch, Thread, TypeOK
<1>1. /\ TypeOK /\ Positions /\ next_pid \in Nat /\ next_pid' \in Nat /\ next_pid <= next_pid'
      /\ cur \in Thread /\ cur # next_pid /\ parked # next_pid
      /\ nested[cur] \in BOOLEAN
  BY <1>0, Placed, ConstantsAssumption DEF Positions, TypeOK, Thread
<1> DEFINE both == {cur, parked, next_pid}
<1>2. QueueInv(queue, both, next_pid', at', pending')
  <2>1. QueueInv(queue, {cur, parked}, next_pid, at, pending)
    BY <1>0, Placed
  <2>2. QueueInv(queue, {cur, parked, next_pid}, next_pid, at, pending)
    <3>1. queue \in Seq(Suspended) /\ \A n \in DOMAIN queue : queue[n] \in Suspended
      BY <2>1, ElementOfSeq, LenProperties DEF QueueInv
    <3>2. \A n \in DOMAIN queue : queue[n].thread < next_pid
      BY <2>1 DEF QueueInv
    <3>3. \A n \in DOMAIN queue : queue[n].thread \in Nat
      BY <3>1 DEF Suspended, Thread
    <3>4. \A n \in DOMAIN queue : queue[n].thread # next_pid
      BY <1>1, <3>2, <3>3
    <3> QED BY <2>1, <3>4 DEF QueueInv
  <2>3. Loosens({cur, parked, next_pid}, next_pid, at, {cur, parked, next_pid}, next_pid', at')
    BY <1>0, <1>1 DEF Loosens, Retire, TypeOK
  <2>4. QueueInv(queue, {cur, parked, next_pid}, next_pid', at', pending)
    BY <2>2, <2>3, OthersMove
  <2> QED BY <1>0, <2>4
<1> DEFINE left == {cur, parked}
<1>4. s.thread = next_pid /\ s.blocked_on = None /\ s \in Suspended
  BY <1>0 DEF Suspended
<1>3. Joins(s, both, left, next_pid', at', pending')
  <2> HIDE DEF s
  <2> QED BY <1>0, <1>1, <1>4 DEF Joins, WellMarked
<1> HIDE DEF s, both, left
<1>5. QueueInv(q, left, next_pid', at', pending') /\ Threads(q) = Threads(queue) \cup {s.thread}
  BY <1>2, <1>3, PutIn
<1>6. QueueInv(q, {cur, parked}, next_pid', at', pending') /\ Retire(q, nested[cur])
  BY <1>0, <1>5 DEF left
<1>7. Threads(q) = Threads(queue) \cup {next_pid}
  BY <1>4, <1>5
<1> HIDE DEF q
<1>8. /\ Settled(Threads(q) \cup {cur} \cup ({parked} \ {None}))
      /\ at' \in [Thread -> Reachable \cup {None}]
      /\ nested' \in [Thread -> BOOLEAN]
      /\ result' = result
  BY <1>0, <1>1, <1>6, RetireSettles
<1>9. next_pid \notin finished
  BY <1>1 DEF Positions
<1>10. Live' = Threads(q) \cup {cur} \cup ({parked} \ {None})
  <2>1. Live = Threads(queue) \cup {cur} \cup ({parked} \ {None})
    BY <1>0, Placed
  <2>2. Live' = Live \cup {next_pid}
    <3>1. finished' = finished
      BY <1>0 DEF history
    <3>2. 1 .. next_pid' - 1 = (1 .. next_pid - 1) \cup {next_pid}
      BY <1>0, <1>1 DEF Thread
    <3> QED BY <1>9, <3>1, <3>2 DEF Live
  <2> QED BY <1>7, <2>1, <2>2
<1>11. RestTyped
  <2>1. finished' \subseteq 1 .. next_pid' - 1
    BY <1>0, <1>1 DEF Positions, history
  <2>2. next_pid' \in 2 .. MaxThreads + 1
    BY <1>0, <1>1, ConstantsAssumption DEF Thread
  <2> QED BY <1>0, <1>1, <1>8, <2>1, <2>2 DEF RestTyped, TypeOK, history
<1> QED
  BY <1>0, <1>8, <1>10, <1>11, SettledIsInv

\* run gives up, with a fault or otherwise, and leaves everything where it was.
LEMMA Aborts ==
  ASSUME IInv, result = "running", NEW why \in {"ok", "fault"}, Abort(why),
         UNCHANGED <<at, next_pid, pending, wait_records, history>>
  PROVE  IInv'
<1>1. TypeOK' /\ Positions'
  BY DEF IInv, TypeOK, Positions, Live, Abort, history
<1>2. QueueInv(queue', {cur', parked'}, next_pid', at', pending')
  BY DEF IInv, Abort
<1>3. DeadlockIsReal'
  BY DEF DeadlockIsReal, Abort
<1> QED
  BY <1>1, <1>2, <1>3 DEF IInv

\* run_other_vm_thread takes a runnable thread out of the queue and parks the reader.
LEMMA Lends ==
  ASSUME IInv, result = "running", ~halted, NEW i \in Reachable, CanLend, LendOsThread(i),
         UNCHANGED <<next_pid, pending, wait_records, history>>
  PROVE  IInv'
<1>1. PICK k \in DOMAIN queue : /\ queue' = Without(queue, k)
                                /\ cur' = queue[k].thread
                                /\ parked' = cur
                                /\ slice' = 0
                                /\ at' = [at EXCEPT ![cur] = i]
                                /\ UNCHANGED <<current_pid, nested, halted, quantum, result>>
  BY DEF LendOsThread
<1>2. /\ TypeOK /\ Positions /\ next_pid \in Nat /\ cur \in Thread /\ parked = None
      /\ cur < next_pid
  BY Placed DEF CanLend, Positions
<1> DEFINE A == {cur, None}
<1>3. QueueInv(queue, A, next_pid, at, pending)
  BY <1>2, Placed
<1>4. Loosens(A, next_pid, at, A, next_pid, at')
  BY <1>1, <1>2 DEF Loosens, TypeOK
<1>5. QueueInv(queue, A, next_pid, at', pending)
  BY <1>3, <1>4, OthersMove
<1>6. queue \in Seq(Suspended)
  BY <1>3 DEF QueueInv
<1>7. queue' \in Seq(Suspended) /\ HoldsOthers(queue', queue, k)
  BY <1>1, <1>6, WithoutHoldsOthers
<1> DEFINE B == A \cup {queue[k].thread}
<1> HIDE DEF A
<1>8. /\ QueueInv(queue', B, next_pid, at', pending)
      /\ Threads(queue) = Threads(queue') \cup {queue[k].thread}
      /\ queue[k].thread \in Thread
      /\ queue[k].thread \notin A /\ queue[k].thread < next_pid
  BY <1>5, <1>7, TakeOut
<1>9. Loosens(B, next_pid, at', {cur', parked'}, next_pid, at')
  BY <1>1, <1>2 DEF Loosens, A
<1> HIDE DEF B
<1>10. QueueInv(queue', {cur', parked'}, next_pid, at', pending)
  BY <1>8, <1>9, OthersMove
<1>11. Live' = Threads(queue') \cup {cur'} \cup ({parked'} \ {None})
  <2>1. Live' = Live
    BY DEF Live, history
  <2>2. Live = Threads(queue) \cup {cur} \cup ({parked} \ {None})
    BY Placed
  <2>3. cur # None
    BY <1>2, ConstantsAssumption
  <2> QED BY <1>1, <1>2, <1>8, <2>1, <2>2, <2>3
<1>12. Settled(Live')
  <2>1. slice' \in 0 .. YIELD_QUANTUM - 1
    BY <1>1, ConstantsAssumption
  <2>2. cur' # parked' /\ cur' < next_pid' /\ parked' < next_pid'
    BY <1>1, <1>2, <1>8 DEF A
  <2> QED
    BY <1>1, <1>2, <1>8, <1>10, <1>11, <2>1, <2>2 DEF Settled, TypeOK
<1>13. RestTyped
  BY <1>1, <1>2 DEF RestTyped, Positions, TypeOK, history
<1> QED
  BY <1>1, <1>12, <1>13, SettledIsInv

\* A thread that carries the mark of the instruction it repeats is stuck.
LEMMA WaitsIsStuck ==
  ASSUME NEW i, i # None, NEW why, NEW pd, Waits(i, why, pd)
  PROVE  StuckAt(i, pd)
<1>1. CASE why \in Chan
  BY <1>1, ConstantsAssumption DEF Waits, StuckAt, WaitsForChannel, Entries, ReadyIn
<1>2. CASE why \notin Chan
  BY <1>2 DEF Waits, StuckAt, WaitsForChannel, Entries, ReadyIn
<1> QED
  BY <1>1, <1>2

\* The blocked threads of a queue are stuck.
LEMMA BlockedAreStuck ==
  ASSUME NEW q, NEW away, NEW nx, NEW a, NEW pd, QueueInv(q, away, nx, a, pd)
  PROVE  /\ \A n \in DOMAIN q : ~Runnable(q[n]) => StuckAt(a[q[n].thread], pd)
         /\ ~SomeRunnable(q) => \A t \in Threads(q) : StuckAt(a[t], pd)
<1>1. \A n \in DOMAIN q : ~Runnable(q[n]) => StuckAt(a[q[n].thread], pd)
  <2> SUFFICES ASSUME NEW n \in DOMAIN q, ~Runnable(q[n])
               PROVE  StuckAt(a[q[n].thread], pd)
    OBVIOUS
  <2>1. a[q[n].thread] # None /\ Waits(a[q[n].thread], q[n].blocked_on, pd)
    BY DEF QueueInv, WellMarked, Runnable
  <2> QED
    BY <2>1, WaitsIsStuck
<1> QED
  BY <1>1 DEF SomeRunnable, Threads

\* The thread in the VM goes to the back of the queue with the mark why.
LEMMA RequeueCur ==
  ASSUME TypeOK, cur \in Thread, parked # cur, next_pid \in Nat, cur < next_pid,
         NEW why, MayCarry(cur, why, at', pending),
         QueueInv(queue, {cur, parked}, next_pid, at', pending)
  PROVE  /\ QueueInv(Suspend(queue, cur, why), {parked}, next_pid, at', pending)
         /\ Threads(Suspend(queue, cur, why)) = Threads(queue) \cup {cur}
<1>1. QueueInv(Suspend(queue, cur, why), {parked}, next_pid, at', pending)
  BY Requeue
<1>2. Threads(Suspend(queue, cur, why)) = Threads(queue) \cup {cur}
  <2>1. queue \in Seq(Suspended)
    BY DEF QueueInv
  <2>2. [thread |-> cur, pid |-> current_pid, blocked_on |-> why] \in Suspended
    BY DEF TypeOK, MayCarry, Suspended
  <2> QED
    BY <2>1, <2>2, AppendThreads DEF Suspend
<1> QED
  BY <1>1, <1>2

\* suspend_as_blocked, and the deadlock and the fault that replace it.
LEMMA Blocks ==
  ASSUME IInv, result = "running", ~halted, NEW i \in Reachable,
         NEW why \in Chan \cup {NIL}, Waits(i, why, pending), Block(i, why),
         UNCHANGED <<next_pid, pending, wait_records, history>>
  PROVE  IInv'
<1>1. /\ TypeOK /\ Positions /\ next_pid \in Nat /\ cur \in Thread
      /\ cur # parked /\ cur < next_pid /\ (parked # None => parked < next_pid)
  BY Placed DEF Positions
<1>2. i # None /\ None \notin Thread
  BY ConstantsAssumption DEF Reachable, Instruction
<1>3. CASE nested[cur]
  <2>1. Abort("fault") /\ at' = at
    BY <1>3 DEF Block
  <2> QED BY <2>1, Aborts
<1> DEFINE A == {cur, parked}
<1>4. CASE ~nested[cur]
  <2>1. at' = [at EXCEPT ![cur] = i]
    BY <1>4 DEF Block
  <2>2. at' \in [Thread -> Reachable \cup {None}] /\ at'[cur] = i
    BY <1>1, <2>1 DEF TypeOK
  <2>3. Loosens(A, next_pid, at, A, next_pid, at')
    BY <1>1, <2>1 DEF Loosens, TypeOK
  <2>4. QueueInv(queue, A, next_pid, at', pending)
    <3>1. QueueInv(queue, A, next_pid, at, pending)
      BY Placed
    <3> HIDE DEF A
    <3> QED BY <2>3, <3>1, OthersMove
  <2>5. at'[cur] # None /\ Waits(at'[cur], why, pending)
    BY <1>2, <2>2
  <2> DEFINE r == Suspend(queue, cur, why)
  <2>6. QueueInv(r, {parked}, next_pid, at', pending) /\ Threads(r) = Threads(queue) \cup {cur}
    <3>1. MayCarry(cur, why, at', pending) /\ QueueInv(queue, {cur, parked}, next_pid, at', pending)
      BY <2>4, <2>5 DEF MayCarry
    <3>2. cur \in Thread /\ parked # cur /\ next_pid \in Nat /\ cur < next_pid /\ TypeOK
      BY <1>1
    <3> QED BY <3>1, <3>2, RequeueCur
  <2>7. Live' = Threads(queue) \cup {cur} \cup ({parked} \ {None})
    BY Placed DEF Live, history
  <2>8. CASE parked = None /\ ~SomeRunnable(queue)
    <3>1. /\ result' = "deadlock"
          /\ UNCHANGED <<cur, current_pid, nested, queue, halted, quantum, parked, slice>>
      BY <1>4, <2>8 DEF Block, Abort
    <3>2. TypeOK' /\ Positions'
      BY <1>1, <2>2, <3>1 DEF TypeOK, Positions, Live, history
    <3>3. QueueInv(queue', {cur', parked'}, next_pid', at', pending')
      BY <2>4, <3>1
    <3>4. StuckAt(at'[cur], pending')
      BY <2>5, WaitsIsStuck
    <3>5. \A t \in Threads(queue) : StuckAt(at'[t], pending')
      BY <2>4, <2>8, BlockedAreStuck
    <3>6. DeadlockIsReal'
      BY <2>7, <2>8, <3>4, <3>5 DEF DeadlockIsReal, Stuck
    <3> QED BY <3>2, <3>3, <3>6 DEF IInv
  <2>9. CASE parked = None /\ SomeRunnable(queue)
    <3>1. /\ ResumeNextReady(r)
          /\ UNCHANGED <<nested, quantum, parked, slice, result>>
      BY <1>4, <2>9 DEF Block
    <3>2. QueueInv(r, {None}, next_pid, at', pending)
      BY <2>6, <2>9
    <3> HIDE DEF r
    <3>3. /\ QueueInv(queue', {cur', None}, next_pid, at', pending)
          /\ Threads(queue') \cup {cur'} = Threads(r)
          /\ cur' \in Thread /\ current_pid' \in Thread /\ cur' < next_pid
          /\ halted' = FALSE
      BY <3>1, <3>2, ResumeTakes
    <3>4. Settled(Live')
      BY <1>1, <1>2, <2>6, <2>7, <2>9, <3>1, <3>3 DEF Settled, TypeOK
    <3>5. RestTyped
      BY <1>1, <2>2, <3>1 DEF RestTyped, Positions, TypeOK, history
    <3> QED BY <3>1, <3>4, <3>5, SettledIsInv
  <2>10. CASE parked # None
    <3>1. ReturnToReader(r) /\ UNCHANGED <<nested, result>>
      BY <1>4, <2>10 DEF Block
    <3> HIDE DEF r
    <3>2. Loosens({parked}, next_pid, at', {parked, None}, next_pid, at')
      BY <1>1 DEF Loosens
    <3>3. QueueInv(r, {parked, None}, next_pid, at', pending)
      BY <2>6, <3>2, OthersMove
    <3>4. Settled(Threads(r) \cup {parked})
      <4>1. next_pid' \in Nat /\ parked < next_pid'
        BY <1>1, <2>10
      <4>2. QueueInv(r, {parked, None}, next_pid', at', pending')
        BY <3>3
      <4> QED BY <1>1, <2>10, <3>1, <4>1, <4>2, ReturnSettles
    <3>5. Threads(r) \cup {parked} = Live'
      BY <2>6, <2>7, <2>10
    <3>6. RestTyped
      BY <1>1, <2>2, <3>1 DEF RestTyped, Positions, TypeOK, history
    <3> QED BY <3>1, <3>4, <3>5, <3>6, SettledIsInv
  <2> QED BY <2>8, <2>9, <2>10
<1> QED
  BY <1>3, <1>4

\* The fault of a lent-to thread reaches the reader, whose run loop goes on with it.
LEMMA FaultsInReader ==
  ASSUME IInv, result = "running", ~halted, parked # None,
         NEW i \in Reachable, FaultInReader(i),
         UNCHANGED <<next_pid, pending, wait_records, history>>
  PROVE  IInv'
<1>1. /\ TypeOK /\ Positions /\ next_pid \in Nat /\ cur \in Thread /\ parked \in Thread
      /\ parked # cur /\ cur < next_pid /\ parked < next_pid
  BY Placed DEF Positions, TypeOK
<1> DEFINE left == IF nested[cur] THEN [op |-> "mcall"] ELSE i
           r == Suspend(queue, cur, None)
<1>2. /\ RetireInRun(r, parked, FALSE)
      /\ at' = [at EXCEPT ![cur] = left, ![parked] = None]
      /\ nested' = [nested EXCEPT ![cur] = FALSE, ![parked] = FALSE]
      /\ result' = result
  BY DEF FaultInReader
<1>3. left \in Reachable
  BY DEF Reachable
<1>4. /\ at' \in [Thread -> Reachable \cup {None}]
      /\ nested' \in [Thread -> BOOLEAN]
  BY <1>1, <1>2, <1>3 DEF TypeOK
<1>5. Loosens({cur, parked}, next_pid, at, {cur, parked}, next_pid, at')
  BY <1>1, <1>2 DEF Loosens, TypeOK
<1>6. QueueInv(queue, {cur, parked}, next_pid, at', pending)
  BY <1>5, Placed, OthersMove
<1>7. QueueInv(r, {parked}, next_pid, at', pending) /\ Threads(r) = Threads(queue) \cup {cur}
  <2>1. MayCarry(cur, None, at', pending)
    BY DEF MayCarry
  <2> QED BY <1>1, <1>6, <2>1, RequeueCur
<1> HIDE DEF r
<1>8. Loosens({parked}, next_pid, at', {parked, None}, next_pid, at')
  BY <1>1 DEF Loosens
<1>9. QueueInv(r, {parked, None}, next_pid, at', pending)
  BY <1>7, <1>8, OthersMove
<1>10. Settled(Threads(r) \cup {parked})
  <2>1. QueueInv(r, {parked, None}, next_pid', at', pending')
    BY <1>9
  <2>2. next_pid' \in Nat /\ parked < next_pid'
    BY <1>1
  <2> QED BY <1>1, <1>2, <2>1, <2>2, RetireInRunSettles
<1>11. Threads(r) \cup {parked} = Live'
  BY <1>7, Placed DEF Live, history
<1>12. RestTyped
  BY <1>1, <1>4 DEF RestTyped, Positions, TypeOK, history
<1> QED
  BY <1>2, <1>10, <1>11, <1>12, SettledIsInv

\* raise_exception, with a handler and without one, in run and in a slice.
LEMMA Raises ==
  ASSUME IInv, result = "running", ~halted, NEW i \in Reachable, Raise(i),
         UNCHANGED <<next_pid, pending, wait_records, history>>
  PROVE  IInv'
<1>0. /\ finished' = finished /\ wait_records' \in Seq(Thread)
      /\ exited' \subseteq Thread /\ recorded' \subseteq Thread
      /\ nested[cur] \in BOOLEAN
  BY Placed DEF TypeOK, history
<1>1. CASE Retire(queue, nested[cur])
  BY <1>0, <1>1, Completes
<1>2. CASE Retire(queue, FALSE)
  BY <1>0, <1>2, Completes
<1>3. CASE parked # None /\ FaultInReader(i)
  BY <1>3, FaultsInReader
<1>4. CASE Abort("fault") /\ UNCHANGED at
  BY <1>4, Aborts
<1> QED
  BY <1>1, <1>2, <1>3, <1>4 DEF Raise

\* op_exit and op_ret from the last frame, in run, in a slice and in a nested call.
LEMMA Exits ==
  ASSUME IInv, result = "running", ~halted, NEW i \in Reachable, Exit(i)
  PROVE  IInv'
<1>0. /\ TypeOK /\ Positions /\ next_pid \in Nat /\ cur \in Thread
      /\ cur # parked /\ cur < next_pid /\ (parked # None => parked < next_pid)
      /\ UNCHANGED <<pending, next_pid, wait_records, recorded>>
      /\ exited' \subseteq Thread /\ recorded' \subseteq Thread /\ wait_records' \in Seq(Thread)
  BY Placed DEF Positions, Exit, TypeOK
<1>1. CASE nested[cur]
  BY <1>0, <1>1, Completes DEF Exit
<1>2. CASE ~nested[cur]
  <2>1. at' = [at EXCEPT ![cur] = None] /\ nested' = nested /\ result' = result
    BY <1>2 DEF Exit
  <2>2. at' \in [Thread -> Reachable \cup {None}]
    BY <1>0, <2>1 DEF TypeOK
  <2>3. Loosens({cur, parked}, next_pid, at, {cur, parked, None}, next_pid, at')
    BY <1>0, <2>1 DEF Loosens, TypeOK
  <2>4. QueueInv(queue, {cur, parked, None}, next_pid, at', pending)
    BY <2>3, Placed, OthersMove
  <2>5. QueueInv(queue, {cur, parked, None}, next_pid', at', pending') /\ next_pid' \in Nat
    BY <1>0, <2>4
  <2>6. CASE parked = None
    <3>1. RetireInRun(queue, cur, TRUE) /\ finished' = finished
      BY <1>2, <2>6 DEF Exit
    <3>2. QueueInv(queue, {cur, None}, next_pid', at', pending') /\ cur < next_pid'
      <4>1. {cur, parked, None} = {cur, None}
        BY <2>6
      <4> QED BY <1>0, <2>5, <4>1
    <3>3. Settled(Threads(queue) \cup {cur})
      BY <1>0, <2>5, <3>1, <3>2, RetireInRunSettles
    <3>4. Threads(queue) \cup {cur} = Live'
      BY <1>0, <2>6, <3>1, Placed DEF Live
    <3>5. RestTyped
      BY <1>0, <2>1, <2>2, <3>1 DEF RestTyped, Positions, TypeOK
    <3> QED BY <2>1, <3>3, <3>4, <3>5, SettledIsInv
  <2>7. CASE parked # None
    <3>1. ReturnToReader(queue) /\ finished' = finished \cup {cur}
      BY <1>2, <2>7 DEF Exit
    <3>2. QueueInv(queue, {parked, None}, next_pid', at', pending') /\ parked < next_pid'
      <4>1. Loosens({cur, parked, None}, next_pid', at', {parked, None}, next_pid', at')
        BY <2>5 DEF Loosens
      <4> QED BY <1>0, <2>5, <2>7, <4>1, OthersMove
    <3>3. Settled(Threads(queue) \cup {parked})
      BY <1>0, <2>5, <2>7, <3>1, <3>2, ReturnSettles
    <3>4. Threads(queue) \cup {parked} = Live'
      <4>1. cur \notin Threads(queue)
        BY Placed DEF QueueInv, Threads
      <4>2. Live = Threads(queue) \cup {cur} \cup {parked}
        BY <2>7, Placed
      <4>3. Live' = Live \ {cur}
        BY <1>0, <3>1 DEF Live
      <4> QED BY <1>0, <4>1, <4>2, <4>3
    <3>5. RestTyped
      <4>1. finished' \subseteq Thread /\ finished' \subseteq 1 .. next_pid' - 1
        BY <1>0, <3>1 DEF Positions, TypeOK, Thread
      <4> QED BY <1>0, <2>1, <2>2, <4>1 DEF RestTyped, TypeOK
    <3> QED BY <2>1, <3>3, <3>4, <3>5, SettledIsInv
  <2> QED BY <2>6, <2>7
<1> QED
  BY <1>1, <1>2

\* The turn of run that disposes of a thread.
LEMMA FinishesHalted ==
  ASSUME IInv, FinishHalted
  PROVE  IInv'
<1>0. /\ result = "running" /\ halted
      /\ wait_records' = Append(wait_records, current_pid)
      /\ finished' = finished \cup {cur}
      /\ recorded' = recorded \cup {cur}
      /\ UNCHANGED <<at, nested, next_pid, pending, quantum, parked, slice, exited>>
  BY DEF FinishHalted
<1>1. /\ TypeOK /\ Positions /\ next_pid \in Nat /\ cur \in Thread /\ current_pid \in Thread
      /\ cur < next_pid /\ parked = None /\ cur # None
  BY <1>0, Placed, ConstantsAssumption DEF Positions, TypeOK
<1>2. /\ wait_records' \in Seq(Thread)
      /\ finished' \subseteq Thread /\ recorded' \subseteq Thread
      /\ finished' \subseteq 1 .. next_pid' - 1
  <2>1. wait_records \in Seq(Thread)
    BY <1>1 DEF TypeOK
  <2>2. wait_records' \in Seq(Thread)
    BY <1>0, <1>1, <2>1, AppendProperties
  <2>3. finished' \subseteq Thread /\ recorded' \subseteq Thread
    BY <1>0, <1>1 DEF TypeOK
  <2>4. cur \in 1 .. next_pid' - 1
    BY <1>0, <1>1 DEF Thread
  <2>5. finished' \subseteq 1 .. next_pid' - 1
    BY <1>0, <1>1, <2>4 DEF Positions
  <2> QED BY <2>2, <2>3, <2>5
<1>3. QueueInv(queue, {cur, parked}, next_pid, at, pending)
  BY <1>0, Placed
<1>4. Loosens({cur, parked}, next_pid, at, {None}, next_pid, at)
  BY <1>1 DEF Loosens
<1>5. QueueInv(queue, {None}, next_pid, at, pending)
  BY <1>3, <1>4, OthersMove
<1>6. Live' = Threads(queue)
  <2>1. Live = Threads(queue) \cup {cur}
    BY <1>0, <1>1, Placed
  <2>2. cur \notin Threads(queue)
    BY <1>3 DEF QueueInv, Threads
  <2>3. Live' = Live \ {cur}
    BY <1>0, <1>1 DEF Live
  <2> QED BY <2>1, <2>2, <2>3
<1>7. CASE SomeRunnable(queue)
  <2>1. ResumeNextReady(queue) /\ result' = result
    BY <1>7 DEF FinishHalted
  <2>2. /\ QueueInv(queue', {cur', None}, next_pid, at, pending)
        /\ Threads(queue') \cup {cur'} = Threads(queue)
        /\ cur' \in Thread /\ current_pid' \in Thread /\ cur' < next_pid
        /\ halted' = FALSE
    BY <1>5, <2>1, ResumeTakes
  <2>3. cur' # None
    BY <2>2, ConstantsAssumption
  <2>4. Settled(Live')
    BY <1>0, <1>1, <1>6, <2>2, <2>3 DEF Settled, TypeOK
  <2>5. RestTyped
    BY <1>0, <1>1, <1>2 DEF RestTyped, TypeOK
  <2> QED
    BY <1>0, <2>1, <2>4, <2>5, SettledIsInv
<1>8. CASE ~SomeRunnable(queue)
  <2>1. /\ result' = IF queue = <<>> THEN "ok" ELSE "deadlock"
        /\ UNCHANGED <<queue, cur, current_pid, halted>>
    BY <1>8 DEF FinishHalted
  <2>2. TypeOK' /\ Positions'
    BY <1>0, <1>1, <1>2, <2>1 DEF TypeOK, Positions
  <2>3. QueueInv(queue', {cur', parked'}, next_pid', at', pending')
    BY <1>0, <1>3, <2>1
  <2>4. \A t \in Threads(queue) : StuckAt(at[t], pending)
    BY <1>5, <1>8, BlockedAreStuck
  <2>5. DeadlockIsReal'
    BY <1>0, <1>6, <2>4 DEF DeadlockIsReal, Stuck
  <2> QED
    BY <2>2, <2>3, <2>5 DEF IInv
<1> QED
  BY <1>7, <1>8

\* op_send, op_recv.
LEMMA ChannelOps ==
  ASSUME IInv, NEW i \in Reachable, ChannelOp(i)
  PROVE  IInv'
<1> DEFINE e == [chan |-> i.chan, send |-> (i.op = "send")]
<1>0. /\ result = "running" /\ ~halted /\ i.op \in {"send", "recv"}
      /\ UNCHANGED <<next_pid, wait_records, history>>
  BY DEF ChannelOp, Dispatch
<1>1. i.chan \in Chan \cup {NIL}
  BY <1>0, ConstantsAssumption DEF Reachable, Instruction
<1>2. CASE i.chan = NIL /\ Raise(i) /\ UNCHANGED pending
  BY <1>0, <1>2, Raises
<1>3. CASE i.chan # NIL /\ EntryReady(e) /\ Transfer(e)
  <2> DEFINE v == IF e.send THEN cur ELSE None
  <2>1. i.chan \in Chan /\ v \in Thread \cup {None}
    BY <1>0, <1>1, <1>3, Placed
  <2>2. /\ pending' = [pending EXCEPT ![i.chan] = v]
        /\ Retire(Unblocked(queue, i.chan), nested[cur])
    BY <1>3 DEF Transfer
  <2> HIDE DEF v
  <2> QED BY <1>0, <2>1, <2>2, Transfers
<1>4. CASE i.chan # NIL /\ ~EntryReady(e) /\ Block(i, i.chan) /\ UNCHANGED pending
  <2>1. i.chan \in Chan
    BY <1>1, <1>4
  <2>2. Waits(i, i.chan, pending)
    BY <1>0, <1>4, <2>1 DEF Waits, ReadyIn, EntryReady
  <2> QED BY <1>0, <1>4, <2>1, <2>2, Blocks
<1> QED
  BY <1>2, <1>3, <1>4 DEF ChannelOp

\* op_alt, op_nbalt.
LEMMA Alts ==
  ASSUME IInv, NEW i \in Reachable, Alt(i)
  PROVE  IInv'
<1>0. /\ result = "running" /\ ~halted /\ i.op \in {"alt", "nbalt"}
      /\ UNCHANGED <<next_pid, wait_records, history>>
  BY DEF Alt, Dispatch
<1>1. i.table \in Seq(AltEntry)
  BY <1>0, ConstantsAssumption DEF Reachable, Instruction
<1>2. CASE TableFault(i.table) /\ Raise(i) /\ UNCHANGED pending
  BY <1>0, <1>2, Raises
<1>3. CASE /\ ~TableFault(i.table)
           /\ \E n \in DOMAIN i.table : IsFirstReady(i.table, n) /\ Transfer(i.table[n])
  <2>1. PICK n \in DOMAIN i.table : Transfer(i.table[n])
    BY <1>3
  <2> DEFINE e == i.table[n]
             v == IF e.send THEN cur ELSE None
             c == e.chan
  <2>2. e \in AltEntry
    BY <1>1, ElementOfSeq, LenProperties
  <2>3. c \in Chan /\ v \in Thread \cup {None}
    BY <1>0, <1>3, <2>2, Placed DEF TableFault, AltEntry
  <2>4. /\ pending' = [pending EXCEPT ![c] = v]
        /\ Retire(Unblocked(queue, c), nested[cur])
    BY <2>1 DEF Transfer
  <2> HIDE DEF v, c
  <2> QED BY <1>0, <2>3, <2>4, Transfers
<1>4. CASE ~TableFault(i.table) /\ ~SomeReady(i.table) /\ UNCHANGED pending /\ i.op = "alt"
  <2>1. Block(i, NIL) \/ \E n \in DOMAIN i.table : IsFirstReady(i.table, n)
    BY <1>4 DEF Alt
  <2>2. Block(i, NIL)
    BY <1>4, <2>1 DEF SomeReady, IsFirstReady
  <2>3. Waits(i, NIL, pending)
    BY <1>4, ConstantsAssumption DEF Waits, ReadyIn, EntryReady, SomeReady
  <2> QED BY <1>0, <1>4, <2>2, <2>3, Blocks
<1>5. CASE ~TableFault(i.table) /\ ~SomeReady(i.table) /\ UNCHANGED pending /\ i.op = "nbalt"
  <2>1. Retire(queue, nested[cur]) \/ \E n \in DOMAIN i.table : IsFirstReady(i.table, n)
    BY <1>5 DEF Alt
  <2>2. Retire(queue, nested[cur])
    BY <1>5, <2>1 DEF SomeReady, IsFirstReady
  <2>3. /\ nested[cur] \in BOOLEAN /\ finished' = finished /\ wait_records' \in Seq(Thread)
        /\ exited' \subseteq Thread /\ recorded' \subseteq Thread
    BY <1>0, Placed DEF TypeOK, history
  <2> QED BY <1>0, <1>5, <2>2, <2>3, Completes
<1> QED
  BY <1>0, <1>2, <1>3, <1>4, <1>5 DEF Alt

\* The instructions that complete, lend, or raise and touch no channel.
LEMMA OtherOps ==
  ASSUME IInv, NEW i \in Reachable,
         RaiseOp(i) \/ Other(i) \/ Mcall(i) \/ NestedReturn(i) \/ Read(i) \/ WaitRead(i)
  PROVE  IInv'
<1>0. /\ result = "running" /\ ~halted
      /\ UNCHANGED <<next_pid, pending, history>>
      /\ wait_records' \in Seq(Thread)
  <2>1. result = "running" /\ ~halted /\ UNCHANGED <<next_pid, pending, history>>
    BY DEF RaiseOp, Other, Mcall, NestedReturn, Read, WaitRead, Dispatch
  <2>2. wait_records \in Seq(Thread)
    BY <2>1, Placed DEF TypeOK
  <2>3. wait_records' = wait_records \/ (wait_records # <<>> /\ wait_records' = Tail(wait_records))
    BY DEF RaiseOp, Other, Mcall, NestedReturn, Read, WaitRead
  <2> QED BY <2>1, <2>2, <2>3, HeadTailProperties
<1>1. /\ nested[cur] \in BOOLEAN /\ finished' = finished
      /\ exited' \subseteq Thread /\ recorded' \subseteq Thread
  BY <1>0, Placed DEF TypeOK, history
<1>2. CASE \E b \in BOOLEAN : Retire(queue, b)
  BY <1>0, <1>1, <1>2, Completes
<1>3. CASE CanLend /\ LendOsThread(i) /\ UNCHANGED wait_records
  BY <1>0, <1>3, Lends
<1>4. CASE Raise(i) /\ UNCHANGED wait_records
  BY <1>0, <1>4, Raises
<1>5. CASE RaiseOp(i)
  BY <1>4, <1>5 DEF RaiseOp
<1>6. CASE Other(i) \/ Mcall(i) \/ NestedReturn(i)
  BY <1>1, <1>2, <1>6 DEF Other, Mcall, NestedReturn
<1>7. CASE Read(i)
  BY <1>1, <1>2, <1>3, <1>7 DEF Read
<1>8. CASE WaitRead(i)
  BY <1>1, <1>2, <1>3, <1>8 DEF WaitRead
<1> QED
  BY <1>5, <1>6, <1>7, <1>8

-----------------------------------------------------------------------------
(* The theorems. *)

\* VmState::with_args starts with one thread and an empty queue.
LEMMA InitIInv == Init => IInv
<1> SUFFICES ASSUME Init PROVE IInv
  OBVIOUS
<1>1. /\ cur = 1 /\ current_pid = 1 /\ next_pid = 2 /\ queue = <<>> /\ parked = None
      /\ slice = 0 /\ quantum = 0 /\ halted = FALSE /\ result = "running"
      /\ wait_records = <<>> /\ exited = {} /\ finished = {} /\ recorded = {}
      /\ at = [t \in Thread |-> None] /\ nested = [t \in Thread |-> FALSE]
      /\ pending = [c \in Chan |-> None]
  BY DEF Init
<1>2. 1 \in Thread /\ 2 \in 2 .. MaxThreads + 1 /\ 0 \in 0 .. YIELD_QUANTUM - 1 /\ 1 # None
  BY ConstantsAssumption DEF Thread
<1>3. queue \in Seq(Suspended) /\ wait_records \in Seq(Thread) /\ DOMAIN queue = {}
  BY <1>1
<1>4. TypeOK
  <2>1. /\ at \in [Thread -> Reachable \cup {None}] /\ nested \in [Thread -> BOOLEAN]
        /\ pending \in [Chan -> Thread \cup {None}]
    BY <1>1
  <2>2. quantum \in 0 .. THREAD_QUANTUM /\ slice \in 0 .. YIELD_QUANTUM - 1
        /\ next_pid \in 2 .. MaxThreads + 1
    BY <1>1, <1>2, ConstantsAssumption
  <2> QED BY <1>1, <1>2, <1>3, <2>1, <2>2 DEF TypeOK
<1>5. QueueInv(queue, {cur, parked}, next_pid, at, pending)
  BY <1>3 DEF QueueInv
<1>6. Positions
  BY <1>1, <1>2, <1>3 DEF Positions, Live, Threads
<1>7. DeadlockIsReal
  BY <1>1 DEF DeadlockIsReal
<1> QED
  BY <1>4, <1>5, <1>6, <1>7 DEF IInv

\* Every instruction, and every turn of run, preserves the invariant: one step per action.
LEMMA StepIInv == IInv /\ [Next]_vars => IInv'
<1> SUFFICES ASSUME IInv, [Next]_vars PROVE IInv'
  OBVIOUS
<1>1. CASE UNCHANGED vars
  BY <1>1 DEF vars, IInv, TypeOK, QueueInv, Positions, Live, Threads, WellMarked,
              DeadlockIsReal, Stuck
<1>2. CASE FinishHalted
  BY <1>2, FinishesHalted
<1>3. CASE \E i \in Reachable : Step(i)
  <2>1. PICK i \in Reachable : Step(i)
    BY <1>3
  <2>2. CASE ChannelOp(i)
    BY <2>2, ChannelOps
  <2>3. CASE Alt(i)
    BY <2>3, Alts
  <2>4. CASE TkSend(i)
    <3>1. /\ result = "running" /\ ~halted /\ i.chan \in Chan /\ cur \in Thread
          /\ pending' = [pending EXCEPT ![i.chan] = cur]
          /\ Retire(Unblocked(queue, i.chan), nested[cur])
          /\ UNCHANGED <<next_pid, wait_records, history>>
      BY <2>4, Placed, ConstantsAssumption DEF TkSend, Dispatch, Reachable, Instruction
    <3> QED BY <3>1, Transfers
  <2>5. CASE Spawn(i)
    BY <2>5, Spawns
  <2>6. CASE Exit(i)
    BY <2>6, Exits DEF Exit, Dispatch
  <2>7. CASE RaiseOp(i) \/ Other(i) \/ Mcall(i) \/ NestedReturn(i) \/ Read(i) \/ WaitRead(i)
    BY <2>7, OtherOps
  <2> QED
    BY <2>1, <2>2, <2>3, <2>4, <2>5, <2>6, <2>7 DEF Step
<1> QED
  BY <1>1, <1>2, <1>3 DEF Next, Returned

\* The run loop keeps its queue, its marks and its threads in order, whatever the guest
\* does: IInv is an invariant.
THEOREM RunLoopInvariant == Spec => []IInv
<1> QED
  BY InitIInv, StepIInv, PTL DEF Spec

\* Every variable of the run loop keeps its type; in particular the counters of the two
\* quanta stay within them.
THEOREM TypeCorrect == Spec => []TypeOK
<1>1. IInv => TypeOK
  BY DEF IInv
<1> QED
  BY <1>1, RunLoopInvariant, PTL

\* unblock_channel loses no wake-up: a thread still marked as blocked could not perform
\* its send, receive or alt.
THEOREM NoLostWakeUp == Spec => []BlockedCannotProceed
<1>1. IInv => BlockedCannotProceed
  <2> SUFFICES ASSUME IInv PROVE BlockedCannotProceed
    OBVIOUS
  <2>1. QueueInv(queue, {cur, parked}, next_pid, at, pending)
    BY DEF IInv
  <2> QED
    BY <2>1, BlockedAreStuck DEF BlockedCannotProceed, Stuck
<1> QED
  BY <1>1, RunLoopInvariant, PTL

\* deadlock_fault is only ever raised when no live thread could do anything.
THEOREM DeadlocksAreReal == Spec => []DeadlockIsReal
<1>1. IInv => DeadlockIsReal
  BY DEF IInv
<1> QED
  BY <1>1, RunLoopInvariant, PTL

\* Rotating, blocking, lending and unblocking neither lose nor duplicate a thread.
THEOREM ThreadsAreConserved == Spec => []NoThreadLostOrDuplicated
<1>1. IInv => NoThreadLostOrDuplicated
  <2> SUFFICES ASSUME IInv PROVE NoThreadLostOrDuplicated
    OBVIOUS
  <2>1. QueueInv(queue, {cur, parked}, next_pid, at, pending) /\ Positions
    BY DEF IInv
  <2> QED
    BY <2>1 DEF NoThreadLostOrDuplicated, QueueInv, Positions, Threads
<1> QED
  BY <1>1, RunLoopInvariant, PTL

-----------------------------------------------------------------------------
(* Refinement: the abstract threads of GuestThreads.                         *)

\* What a thread at instruction i waits for, as GuestThreads sees it.
Asks(i) == IF i # None /\ WaitsForChannel(i) THEN Entries(i) ELSE None

Waiting == [t \in Thread |-> Asks(at[t])]

\* A thread whose halted flag is set has executed exit, and is at no instruction; a reader
\* that has lent the OS thread is at its read.
Resting ==
  /\ halted => at[cur] = None
  /\ parked # None => at[parked] # None /\ at[parked].op \in {"read", "waitread"}

\* What the loops do with the flag and the loan when an instruction is complete.
LEMMA RetireRests ==
  ASSUME TypeOK, ~ halted, NEW q, NEW inNested, Retire(q, inNested)
  PROVE  /\ at' = [at EXCEPT ![cur] = None] /\ result' = result
         /\ ~ halted' /\ parked' \in {parked, None}
<1>1. at' = [at EXCEPT ![cur] = None] /\ result' = result
  BY DEF Retire
<1>2. CASE inNested
  BY <1>2 DEF Retire, RetireInNestedLoop
<1>3. CASE ~ inNested /\ parked = None
  BY <1>3 DEF Retire, RetireInRun, ResumeNextReady
<1>4. CASE ~ inNested /\ parked # None
  BY <1>4 DEF Retire, RetireInSlice, ReturnToReader
<1> QED
  BY <1>1, <1>2, <1>3, <1>4

\* What an instruction does with the flag, the loan and the instructions threads are at.
LEMMA StepRests ==
  ASSUME IInv, Resting, NEW i \in Reachable, Step(i)
  PROVE  Resting'
<1>1. /\ result = "running" /\ ~ halted
  BY DEF Step, ChannelOp, Alt, TkSend, Spawn, Exit, RaiseOp, Other, Mcall, NestedReturn, Read,
         WaitRead, Dispatch
<1>2. /\ TypeOK /\ cur \in Thread /\ cur # parked /\ at \in [Thread -> Reachable \cup {None}]
      /\ parked \in Thread \cup {None} /\ None \notin Thread
  BY <1>1, Placed, ConstantsAssumption DEF Positions, TypeOK
<1>3. ASSUME NEW x, at' = [at EXCEPT ![cur] = x], ~ halted', parked' \in {parked, None}
      PROVE  Resting'
  <2>1. parked' # None => parked' = parked /\ parked \in Thread \ {cur}
    BY <1>2, <1>3
  <2>2. parked' # None => at'[parked'] = at[parked']
    BY <1>2, <1>3, <2>1
  <2> QED
    BY <1>3, <2>1, <2>2 DEF Resting
<1>4. ASSUME NEW q, NEW b, Retire(q, b)
      PROVE  Resting'
  <2>1. at' = [at EXCEPT ![cur] = None] /\ ~ halted' /\ parked' \in {parked, None}
    BY <1>1, <1>2, <1>4, RetireRests
  <2> QED
    BY <1>3, <2>1
<1>5. ASSUME at' = at, NEW why, Abort(why)
      PROVE  Resting'
  BY <1>1, <1>5 DEF Abort, Resting
<1>6. ASSUME NEW why, Block(i, why)
      PROVE  Resting'
  <2>1. CASE nested[cur]
    BY <1>5, <1>6, <2>1 DEF Block
  <2>2. CASE ~ nested[cur]
    <3>1. at' = [at EXCEPT ![cur] = i]
      BY <1>6, <2>2 DEF Block
    <3>2. ~ halted' /\ parked' \in {parked, None}
      BY <1>1, <1>6, <2>2 DEF Block, Abort, ResumeNextReady, ReturnToReader
    <3> QED
      BY <1>3, <3>1, <3>2
  <2> QED
    BY <2>1, <2>2
<1>7. ASSUME Raise(i)
      PROVE  Resting'
  <2>1. CASE FaultInReader(i)
    <3>1. ~ halted' /\ parked' = None
      BY <2>1 DEF FaultInReader, RetireInRun, ResumeNextReady
    <3> QED
      BY <3>1 DEF Resting
  <2> QED
    BY <1>4, <1>5, <1>7, <2>1 DEF Raise
<1>8. ASSUME LendOsThread(i), i.op \in {"read", "waitread"}
      PROVE  Resting'
  <2>1. at' = [at EXCEPT ![cur] = i] /\ parked' = cur /\ halted' = halted
    BY <1>8 DEF LendOsThread
  <2>2. at'[parked'] = i /\ i # None
    BY <1>2, <1>8, <2>1, ConstantsAssumption DEF Reachable, Instruction
  <2> QED
    BY <1>1, <1>8, <2>1, <2>2 DEF Resting
<1>9. CASE ChannelOp(i)
  BY <1>4, <1>6, <1>7, <1>9 DEF ChannelOp, Transfer
<1>10. CASE Alt(i)
  BY <1>4, <1>6, <1>7, <1>10 DEF Alt, Transfer
<1>11. CASE TkSend(i) \/ Spawn(i) \/ Other(i) \/ Mcall(i) \/ NestedReturn(i)
  BY <1>4, <1>11 DEF TkSend, Spawn, Other, Mcall, NestedReturn
<1>12. CASE RaiseOp(i)
  BY <1>7, <1>12 DEF RaiseOp
<1>13. CASE Read(i) \/ WaitRead(i)
  BY <1>4, <1>8, <1>13 DEF Read, WaitRead
<1>14. CASE Exit(i)
  <2>1. CASE nested[cur]
    BY <1>4, <1>14, <2>1 DEF Exit
  <2>2. CASE ~ nested[cur] /\ parked # None
    <3>0. at' = [at EXCEPT ![cur] = None] /\ ReturnToReader(queue)
      BY <1>14, <2>2 DEF Exit
    <3>1. at' = [at EXCEPT ![cur] = None] /\ ~ halted' /\ parked' = None
      BY <1>1, <3>0 DEF ReturnToReader
    <3> QED
      BY <1>3, <3>1
  <2>3. CASE ~ nested[cur] /\ parked = None
    <3>1. /\ at' = [at EXCEPT ![cur] = None] /\ parked' = None
          /\ halted' => cur' = cur
      BY <1>1, <1>14, <2>3 DEF Exit, RetireInRun, ResumeNextReady
    <3>2. at'[cur] = None
      BY <1>2, <3>1
    <3> QED
      BY <3>1, <3>2 DEF Resting
  <2> QED
    BY <2>1, <2>2, <2>3
<1> QED
  BY <1>9, <1>10, <1>11, <1>12, <1>13, <1>14 DEF Step

\* Flag and loan agree with the instructions threads are at in every state.
LEMMA RestingInvariant == Spec => []Resting
<1>1. Init => Resting
  BY DEF Init, Resting
<1>2. IInv /\ Resting /\ [Next]_vars => Resting'
  <2> SUFFICES ASSUME IInv, Resting, [Next]_vars
               PROVE  Resting'
    OBVIOUS
  <2>1. CASE UNCHANGED vars
    BY <2>1 DEF vars, Resting
  <2>2. CASE FinishHalted
    BY <2>2 DEF FinishHalted, ResumeNextReady, Resting
  <2>3. ASSUME NEW i \in Reachable, Step(i)
        PROVE  Resting'
    BY <2>3, StepRests
  <2> QED
    BY <2>1, <2>2, <2>3 DEF Next, Returned
<1> QED
  BY <1>1, <1>2, RunLoopInvariant, PTL DEF Spec

\* A step that GuestThreads does not see.
LEMMA Unseen ==
  ASSUME UNCHANGED <<next_pid, finished, Waiting, pending, result>>
  PROVE  UNCHANGED Guest!vars
BY DEF Guest!vars, Waiting, Asks

\* An instruction that waits for channels asks for transfers, and None is not a set of them.
LEMMA AsksTransfers ==
  ASSUME NEW i \in Reachable, WaitsForChannel(i)
  PROVE  i # None /\ Entries(i) \subseteq Guest!Transfer /\ Entries(i) # None
<1>1. i \in Program /\ i \in Instruction /\ i # None
  BY ConstantsAssumption DEF Reachable, WaitsForChannel
<1>2. CASE i.op \in {"send", "recv"} /\ i.chan # NIL
  <2>1. i.chan \in Chan
    BY <1>1, <1>2 DEF Instruction
  <2>2. Entries(i) \subseteq [chan : Chan, send : BOOLEAN]
    BY <1>2, <2>1 DEF Entries
  <2> QED
    BY <1>1, <2>2, ConstantsAssumption DEF Guest!Transfer
<1>3. CASE i.op = "alt" /\ ~TableFault(i.table)
  <2>1. i.table \in Seq(AltEntry)
    BY <1>1, <1>3 DEF Instruction
  <2>2. \A n \in DOMAIN i.table : i.table[n] \in AltEntry
    BY <2>1, LenProperties, ElementOfSeq
  <2>3. \A n \in DOMAIN i.table : i.table[n].chan # NIL
    BY <1>3 DEF TableFault
  <2>4. Entries(i) \subseteq [chan : Chan, send : BOOLEAN]
    BY <1>3, <2>2, <2>3 DEF Entries, AltEntry
  <2> QED
    BY <1>1, <2>4, ConstantsAssumption DEF Guest!Transfer
<1> QED
  BY <1>2, <1>3 DEF WaitsForChannel

\* What a thread waits for moves with the instruction its pc rests on.
LEMMA WaitingMoves ==
  ASSUME TypeOK, NEW t \in Thread, NEW x, at' = [at EXCEPT ![t] = x]
  PROVE  Waiting' = [Waiting EXCEPT ![t] = Asks(x)] /\ Waiting[t] = Asks(at[t])
<1>1. at'[t] = x /\ \A u \in Thread \ {t} : at'[u] = at[u]
  BY DEF TypeOK
<1>2. /\ Waiting = [u \in Thread |-> Asks(at[u])] /\ Waiting' = [u \in Thread |-> Asks(at'[u])]
  BY DEF Waiting, Asks, WaitsForChannel, Entries
<1> HIDE DEF Asks, Waiting
<1> QED
  BY <1>1, <1>2

\* The thread in the VM is alive, and GuestThreads has the same live threads.
LEMMA CurIsLive ==
  ASSUME IInv, result = "running"
  PROVE  cur \in Guest!Thread /\ cur \in Guest!Live /\ Guest!Live = Live
BY Placed DEF Guest!Thread, Guest!Live, Thread, Live

\* The same after a step.
LEMMA CurIsLiveNext ==
  ASSUME IInv', result' = "running"
  PROVE  cur' \in Live'
BY DEF IInv, Positions

\* A stuck thread is stuck in the abstract.
LEMMA StuckRefinesNext ==
  ASSUME IInv', NEW t \in Thread, Stuck(t)'
  PROVE  Guest!Stuck(t)'
<1>1. /\ at'[t] \in Reachable /\ at'[t] # None /\ WaitsForChannel(at'[t])
      /\ \A e \in Entries(at'[t]) : ~ReadyIn(pending', e)
  BY DEF IInv, TypeOK, Stuck, StuckAt, WaitsForChannel, Entries, ReadyIn
<1>2. Entries(at'[t]) # None
  BY <1>1, AsksTransfers
<1>3. Waiting'[t] = Entries(at'[t])
  BY <1>1 DEF Waiting, Asks
<1> QED
  BY <1>1, <1>2, <1>3 DEF Guest!Stuck, Guest!Ready, ReadyIn, Waiting, Asks

\* A deadlock that is reported is one GuestThreads may declare.
LEMMA DeadlockRefines ==
  ASSUME IInv', result' \in {"running", "deadlock"}
  PROVE  Guest!MayEnd
<1>1. CASE result' = "deadlock"
  <2>0. next_pid' \in 2 .. MaxThreads + 1 /\ MaxThreads \in Nat
    BY ConstantsAssumption DEF IInv, TypeOK
  <2>1. \A t \in Live' : t \in Thread /\ Stuck(t)'
    <3>1. \A t \in Live' : t \in Thread
      <4>1. Live' \subseteq 1 .. next_pid' - 1
        BY DEF Live
      <4>2. ASSUME NEW n \in 2 .. MaxThreads + 1
            PROVE  1 .. n - 1 \subseteq 1 .. MaxThreads
        BY <2>0
      <4>3. 1 .. next_pid' - 1 \subseteq 1 .. MaxThreads
        BY <2>0, <4>2
      <4> QED
        BY <4>1, <4>3 DEF Thread
    <3>2. \A t \in Live' : Stuck(t)'
      BY <1>1 DEF IInv, DeadlockIsReal
    <3> QED
      BY <3>1, <3>2
  <2>2. \A t \in Live' : Guest!Stuck(t)'
    BY <2>1, StuckRefinesNext
  <2>3. Guest!Live' = Live'
    BY DEF Live, Guest!Live
  <2> QED
    BY <1>1, <2>2, <2>3 DEF Guest!MayEnd
<1> QED
  BY <1>1 DEF Guest!MayEnd

\* A complete instruction that asked for no channel, and changed nothing threads share
\* through channels, is not seen.
LEMMA RetireUnseen ==
  ASSUME IInv, result = "running", NEW i \in Reachable, at[cur] \in {None, i},
         ~ WaitsForChannel(i), NEW q, NEW inNested, Retire(q, inNested)
  PROVE  /\ Waiting' = Waiting /\ Waiting[cur] = None /\ result' = result
         /\ UNCHANGED <<next_pid, finished, pending>> => UNCHANGED Guest!vars
<1>1. at' = [at EXCEPT ![cur] = None] /\ result' = result
  BY DEF Retire
<1>2. Waiting' = [Waiting EXCEPT ![cur] = Asks(None)] /\ Waiting[cur] = Asks(at[cur])
  BY <1>1, Placed, WaitingMoves
<1>3. Asks(None) = None /\ Asks(at[cur]) = None
  BY DEF Asks
<1>4. Waiting' = Waiting
  BY <1>2, <1>3 DEF Waiting
<1> QED
  BY <1>1, <1>2, <1>3, <1>4, Unseen

\* An exception nobody handles.
LEMMA AbortRefines ==
  ASSUME result = "running", Abort("fault"), UNCHANGED <<at, next_pid, finished, pending>>
  PROVE  Guest!Next
<1>1. Waiting' = Waiting
  BY DEF Waiting, Asks, WaitsForChannel, Entries
<1>2. Guest!Fault
  BY <1>1 DEF Abort, Guest!Fault, Waiting, Asks
<1> QED
  BY <1>2 DEF Guest!Next

\* An exception: a handler takes it, or a waiting read fails with it, or the run ends.
LEMMA RaiseRefines ==
  ASSUME IInv, Resting, result = "running", NEW i \in Reachable, at[cur] \in {None, i},
         ~ WaitsForChannel(i), Raise(i), UNCHANGED <<next_pid, finished, pending>>
  PROVE  [Guest!Next]_Guest!vars
<1>1. CASE Retire(queue, nested[cur]) \/ Retire(queue, FALSE)
  BY <1>1, RetireUnseen
<1>2. CASE Abort("fault") /\ UNCHANGED at
  BY <1>2, AbortRefines
<1>3. CASE parked # None /\ FaultInReader(i)
  <2> DEFINE left == IF nested[cur] THEN [op |-> "mcall"] ELSE i
  <2>1. at' = [at EXCEPT ![cur] = left, ![parked] = None] /\ result' = result
    BY <1>3 DEF FaultInReader
  <2>2. TypeOK /\ cur \in Thread /\ parked \in Thread /\ cur # parked
    BY <1>3, Placed DEF TypeOK, Positions
  <2>3. ~ WaitsForChannel(left) /\ ~ WaitsForChannel(at[parked])
    BY <1>3 DEF WaitsForChannel, Resting
  <2> HIDE DEF left
  <2>4. at'[cur] = left /\ at'[parked] = None /\ \A t \in Thread \ {cur, parked} : at'[t] = at[t]
    BY <2>1, <2>2 DEF TypeOK
  <2>5. \A t \in Thread : Asks(at'[t]) = Asks(at[t])
    BY <2>3, <2>4 DEF Asks
  <2>6. Waiting' = [t \in Thread |-> Asks(at'[t])]
    BY DEF Waiting, Asks, WaitsForChannel, Entries
  <2>7. Waiting' = Waiting
    BY <2>5, <2>6 DEF Waiting
  <2> QED
    BY <2>1, <2>7, Unseen
<1> QED
  BY <1>1, <1>2, <1>3 DEF Raise

\* A transfer serves a waiting thread, or one that did not have to wait.
LEMMA TransferRefines ==
  ASSUME IInv, result = "running", NEW i \in Reachable, at[cur] \in {None, i},
         NEW e \in Entries(i), e \in Guest!Transfer, EntryReady(e), Transfer(e),
         UNCHANGED <<next_pid, finished>>
  PROVE  Guest!Next
<1>1. /\ at' = [at EXCEPT ![cur] = None] /\ result' = result
      /\ pending' = [pending EXCEPT ![e.chan] = IF e.send THEN cur ELSE None]
  BY DEF Transfer, Retire
<1>2. Waiting' = [Waiting EXCEPT ![cur] = None] /\ Waiting[cur] = Asks(at[cur])
  BY <1>1, Placed, WaitingMoves DEF Asks
<1>3. Guest!Perform(cur, e)
  BY <1>1, <1>2 DEF Guest!Perform, Guest!Ready, EntryReady, Waiting, Asks
<1>4. cur \in Guest!Thread /\ cur \in Guest!Live
  BY CurIsLive
<1>5. CASE Waiting[cur] = None
  <2>1. Guest!Communicate(cur)
    BY <1>3, <1>4, <1>5 DEF Guest!Communicate, Waiting, Asks
  <2> QED
    BY <1>4, <2>1 DEF Guest!Next
<1>6. CASE Waiting[cur] # None
  <2>1. e \in Waiting[cur]
    BY <1>2, <1>6 DEF Asks
  <2>2. Guest!Complete(cur)
    BY <1>3, <1>4, <1>6, <2>1 DEF Guest!Complete, Waiting, Asks
  <2> QED
    BY <1>4, <2>2 DEF Guest!Next
<1> QED
  BY <1>5, <1>6

\* An instruction that finds no transfer it asks for possible: the thread waits, or goes on
\* waiting, or the run ends because of it.
LEMMA BlockRefines ==
  ASSUME IInv, IInv', result = "running", NEW i \in Reachable, at[cur] \in {None, i},
         WaitsForChannel(i), \A e \in Entries(i) : ~ EntryReady(e),
         NEW why, Block(i, why), UNCHANGED <<next_pid, finished, pending>>
  PROVE  [Guest!Next]_Guest!vars
<1>1. CASE nested[cur]
  BY <1>1, AbortRefines DEF Block
<1>2. CASE ~ nested[cur]
  <2>1. at' = [at EXCEPT ![cur] = i] /\ result' \in {"running", "deadlock"}
    BY <1>2 DEF Block, Abort
  <2>2. i # None /\ Entries(i) \subseteq Guest!Transfer /\ Entries(i) # None
    BY AsksTransfers
  <2>3. Waiting' = [Waiting EXCEPT ![cur] = Entries(i)] /\ Waiting[cur] = Asks(at[cur])
    BY <2>1, <2>2, Placed, WaitingMoves DEF Asks
  <2>4. Guest!MayEnd
    BY <2>1, DeadlockRefines
  <2>5. cur \in Guest!Thread /\ cur \in Guest!Live
    BY CurIsLive
  <2>6. CASE at[cur] = None
    <3>1. Waiting[cur] = None
      BY <2>3, <2>6 DEF Asks
    <3>2. \A e \in Entries(i) : ~ Guest!Ready(e)
      BY DEF EntryReady, Guest!Ready
    <3>3. PICK t \in Guest!Thread : t = cur
      BY <2>5
    <3>4. Guest!Wait(t)
      BY <2>2, <2>3, <2>4, <2>5, <3>1, <3>2, <3>3 DEF Guest!Wait, Waiting, Asks
    <3>5. Guest!Next
      BY <3>4 DEF Guest!Next
    <3> QED
      BY <3>5
  <2>7. CASE at[cur] # None
    <3>1. Waiting' = Waiting
      BY <2>3, <2>7 DEF Asks, Waiting
    <3>2. Guest!StillWaits
      BY <2>4, <3>1 DEF Guest!StillWaits, Waiting, Asks
    <3> QED
      BY <3>2 DEF Guest!Next
  <2> QED
    BY <2>6, <2>7
<1> QED
  BY <1>1, <1>2

\* A read that lends the OS thread moves no channel.
LEMMA LendRefines ==
  ASSUME IInv, result = "running", NEW i \in Reachable, at[cur] \in {None, i},
         i.op \in {"read", "waitread"}, LendOsThread(i),
         UNCHANGED <<next_pid, finished, pending>>
  PROVE  UNCHANGED Guest!vars
<1>1. at' = [at EXCEPT ![cur] = i] /\ result' = result
  BY DEF LendOsThread
<1>2. Waiting' = [Waiting EXCEPT ![cur] = Asks(i)] /\ Waiting[cur] = Asks(at[cur])
  BY <1>1, Placed, WaitingMoves
<1>3. Asks(i) = None /\ Asks(at[cur]) = None
  BY DEF Asks, WaitsForChannel
<1>4. Waiting' = Waiting
  BY <1>2, <1>3 DEF Waiting
<1> QED
  BY <1>1, <1>4, Unseen

\* A thread leaves the abstract threads when the VM disposes of it.
LEMMA FinishRefines ==
  ASSUME IInv, IInv', result = "running", Waiting[cur] = None, Waiting' = Waiting,
         finished' = finished \cup {cur}, UNCHANGED <<next_pid, pending>>,
         \/ result' \in {"running", "deadlock"} /\ Live' # {}
         \/ result' = "ok" /\ Live' = {}
  PROVE  Guest!Next
<1>1. cur \in Guest!Thread /\ cur \in Guest!Live
  BY CurIsLive
<1>2. Guest!Live' = Live'
  BY DEF Live, Guest!Live
<1>3. Guest!Finish(cur)
  <2>1. CASE result' \in {"running", "deadlock"} /\ Live' # {}
    <3>1. Guest!MayEnd
      BY <2>1, DeadlockRefines
    <3> QED
      BY <1>1, <1>2, <2>1, <3>1 DEF Guest!Finish, Waiting, Asks
  <2>2. CASE result' = "ok" /\ Live' = {}
    BY <1>1, <1>2, <2>2 DEF Guest!Finish, Waiting, Asks
  <2> QED
    BY <2>1, <2>2
<1> QED
  BY <1>1, <1>3 DEF Guest!Next

\* exit: in a nested call the thread goes on, in run it is disposed of by a later turn.
LEMMA ExitRefines ==
  ASSUME IInv, IInv', NEW i \in Reachable, Exit(i), at[cur] \in {None, i}
  PROVE  [Guest!Next]_Guest!vars
<1>1. /\ i.op = "exit" /\ result = "running" /\ UNCHANGED <<pending, next_pid>>
      /\ ~ WaitsForChannel(i)
  BY DEF Exit, Dispatch, WaitsForChannel
<1>2. CASE nested[cur]
  BY <1>1, <1>2, RetireUnseen DEF Exit
<1>3. CASE ~ nested[cur]
  <2>1. at' = [at EXCEPT ![cur] = None] /\ result' = result
    BY <1>3 DEF Exit
  <2>2. Waiting' = [Waiting EXCEPT ![cur] = Asks(None)] /\ Waiting[cur] = Asks(at[cur])
    BY <1>1, <2>1, Placed, WaitingMoves
  <2>3. Asks(None) = None /\ Asks(at[cur]) = None
    BY <1>1 DEF Asks
  <2>4. Waiting' = Waiting /\ Waiting[cur] = None
    BY <2>2, <2>3 DEF Waiting
  <2>5. CASE parked = None
    BY <1>1, <1>3, <2>1, <2>4, <2>5, Unseen DEF Exit
  <2>6. CASE parked # None
    <3>1. finished' = finished \cup {cur}
      BY <1>3, <2>6 DEF Exit
    <3>2. Live' # {} /\ result' = "running"
      BY <1>1, <2>1, CurIsLiveNext
    <3> QED
      BY <1>1, <2>4, <3>1, <3>2, FinishRefines
  <2> QED
    BY <2>5, <2>6
<1> QED
  BY <1>2, <1>3

\* The turn of run that finds the flag.
LEMMA FinishHaltedRefines ==
  ASSUME IInv, IInv', Resting, FinishHalted
  PROVE  Guest!Next
<1>1. /\ result = "running" /\ halted /\ finished' = finished \cup {cur}
      /\ UNCHANGED <<at, next_pid, pending>>
  BY DEF FinishHalted
<1>2. Waiting' = Waiting
  BY <1>1 DEF Waiting, Asks, WaitsForChannel, Entries
<1>3. Waiting[cur] = None
  BY <1>1, Placed DEF Resting, Waiting, Asks
<1>4. CASE SomeRunnable(queue)
  <2>1. result' = "running"
    BY <1>1, <1>4 DEF FinishHalted
  <2> QED
    BY <1>1, <1>2, <1>3, <2>1, CurIsLiveNext, FinishRefines
<1>5. CASE ~ SomeRunnable(queue)
  <2>1. result' = IF queue = <<>> THEN "ok" ELSE "deadlock"
    BY <1>5 DEF FinishHalted
  <2>2. Live' = Threads(queue)
    <3>1. Live' = Live \ {cur}
      BY <1>1 DEF Live
    <3>2. Live = Threads(queue) \cup {cur} /\ cur \notin Threads(queue)
      BY <1>1, Placed DEF Positions, QueueInv, Threads
    <3> QED
      BY <3>1, <3>2
  <2>3. queue \in Seq(Suspended)
    BY <1>1, Placed DEF TypeOK
  <2>4. Threads(queue) = {} <=> queue = <<>>
    <3>1. DOMAIN queue = 1 .. Len(queue) /\ Len(queue) \in Nat
      BY <2>3, LenProperties
    <3>2. Threads(queue) = {} <=> DOMAIN queue = {}
      BY DEF Threads
    <3>3. Len(queue) = 0 <=> queue = <<>>
      BY <2>3, EmptySeq
    <3> QED
      BY <3>1, <3>2, <3>3
  <2> QED
    BY <1>1, <1>2, <1>3, <2>1, <2>2, <2>4, FinishRefines
<1> QED
  BY <1>4, <1>5

\* An instruction is a step of the abstract threads, or is not seen.
LEMMA StepRefines ==
  ASSUME IInv, IInv', Resting, NEW i \in Reachable, i.op # "tksend", Step(i)
  PROVE  [Guest!Next]_Guest!vars
<1>1. /\ result = "running" /\ at[cur] \in {None, i}
  BY DEF Step, ChannelOp, Alt, TkSend, Spawn, Exit, RaiseOp, Other, Mcall, NestedReturn, Read,
         WaitRead, Dispatch
<1>2. CASE ChannelOp(i)
  <2> DEFINE e == [chan |-> i.chan, send |-> (i.op = "send")]
  <2>1. i.op \in {"send", "recv"} /\ UNCHANGED <<next_pid, finished>>
    BY <1>2 DEF ChannelOp, history
  <2>2. CASE i.chan = NIL /\ Raise(i) /\ UNCHANGED pending
    <3>1. ~ WaitsForChannel(i)
      BY <2>1, <2>2 DEF WaitsForChannel
    <3> QED
      BY <1>1, <2>1, <2>2, <3>1, RaiseRefines
  <2>3. ASSUME i.chan # NIL
        PROVE  WaitsForChannel(i) /\ Entries(i) = {e} /\ e \in Guest!Transfer
    <3>1. WaitsForChannel(i) /\ Entries(i) = {e}
      BY <2>1, <2>3 DEF WaitsForChannel, Entries
    <3> QED
      BY <3>1, AsksTransfers
  <2>4. CASE i.chan # NIL /\ EntryReady(e) /\ Transfer(e)
    BY <1>1, <2>1, <2>3, <2>4, TransferRefines
  <2>5. CASE i.chan # NIL /\ ~ EntryReady(e) /\ Block(i, i.chan) /\ UNCHANGED pending
    BY <1>1, <2>1, <2>3, <2>5, BlockRefines
  <2> QED
    BY <1>2, <2>2, <2>4, <2>5 DEF ChannelOp
<1>3. CASE Alt(i)
  <2>1. i.op \in {"alt", "nbalt"} /\ UNCHANGED <<next_pid, finished>>
    BY <1>3 DEF Alt, history
  <2>2. CASE TableFault(i.table) /\ Raise(i) /\ UNCHANGED pending
    <3>1. ~ WaitsForChannel(i)
      BY <2>1, <2>2 DEF WaitsForChannel
    <3> QED
      BY <1>1, <2>1, <2>2, <3>1, RaiseRefines
  <2>3. Entries(i) = {i.table[n] : n \in DOMAIN i.table}
    BY <2>1 DEF Entries
  <2>4. ASSUME ~ TableFault(i.table), NEW n \in DOMAIN i.table
        PROVE  i.table[n] \in Guest!Transfer
    <3>1. i \in Instruction
      BY <2>1, ConstantsAssumption DEF Reachable
    <3>2. i.table \in Seq(AltEntry)
      BY <2>1, <3>1 DEF Instruction
    <3>3. i.table[n] \in AltEntry /\ i.table[n].chan # NIL
      BY <2>4, <3>2, LenProperties, ElementOfSeq DEF TableFault
    <3> QED
      BY <3>3 DEF AltEntry, Guest!Transfer
  <2>5. ASSUME ~ TableFault(i.table), NEW n \in DOMAIN i.table,
               IsFirstReady(i.table, n), Transfer(i.table[n])
        PROVE  Guest!Next
    <3>1. i.table[n] \in Entries(i) /\ i.table[n] \in Guest!Transfer /\ EntryReady(i.table[n])
      BY <2>3, <2>4, <2>5 DEF IsFirstReady
    <3> QED
      BY <1>1, <2>1, <2>5, <3>1, TransferRefines
  <2>6. CASE /\ ~ TableFault(i.table) /\ ~ SomeReady(i.table) /\ i.op = "alt"
             /\ Block(i, NIL) /\ UNCHANGED pending
    <3>1. WaitsForChannel(i) /\ \A e \in Entries(i) : ~ EntryReady(e)
      BY <2>3, <2>6 DEF WaitsForChannel, SomeReady
    <3> QED
      BY <1>1, <2>1, <2>6, <3>1, BlockRefines
  <2>7. CASE i.op = "nbalt" /\ Retire(queue, nested[cur]) /\ UNCHANGED pending
    <3>1. ~ WaitsForChannel(i)
      BY <2>7 DEF WaitsForChannel
    <3> QED
      BY <1>1, <2>1, <2>7, <3>1, RetireUnseen
  <2> QED
    BY <1>3, <2>1, <2>2, <2>5, <2>6, <2>7 DEF Alt
<1>4. CASE Spawn(i)
  <2>1. /\ i.op = "spawn" /\ next_pid <= MaxThreads /\ next_pid' = next_pid + 1
        /\ UNCHANGED <<pending, finished>>
    BY <1>4 DEF Spawn, history
  <2>2. ~ WaitsForChannel(i)
    BY <2>1 DEF WaitsForChannel
  <2>3. PICK q : Retire(q, nested[cur])
    BY <1>4 DEF Spawn
  <2>4. Waiting' = Waiting /\ result' = result
    BY <1>1, <2>2, <2>3, RetireUnseen
  <2>5. next_pid \in Nat /\ MaxThreads \in Nat
    BY <1>1, Placed, ConstantsAssumption
  <2>6. next_pid - 1 < MaxThreads /\ next_pid' - 1 = next_pid - 1 + 1
    BY <2>1, <2>5
  <2>7. Guest!Spawn
    BY <1>1, <2>1, <2>4, <2>6 DEF Guest!Spawn, Waiting, Asks
  <2> QED
    BY <2>7 DEF Guest!Next
<1>5. CASE Exit(i)
  BY <1>1, <1>5, ExitRefines
<1>6. CASE RaiseOp(i)
  <2>1. Raise(i) /\ UNCHANGED <<next_pid, finished, pending>> /\ ~ WaitsForChannel(i)
    BY <1>6 DEF RaiseOp, WaitsForChannel, history
  <2> QED
    BY <1>1, <2>1, RaiseRefines
<1>7. CASE Other(i) \/ Mcall(i) \/ NestedReturn(i)
  <2>1. /\ UNCHANGED <<next_pid, finished, pending>> /\ ~ WaitsForChannel(i)
        /\ \E b \in BOOLEAN \cup {nested[cur]} : Retire(queue, b)
    BY <1>7 DEF Other, Mcall, NestedReturn, WaitsForChannel, history
  <2> QED
    BY <1>1, <2>1, RetireUnseen
<1>8. CASE Read(i) \/ WaitRead(i)
  <2>1. /\ UNCHANGED <<next_pid, finished, pending>> /\ ~ WaitsForChannel(i)
        /\ i.op \in {"read", "waitread"}
        /\ Retire(queue, nested[cur]) \/ LendOsThread(i)
    BY <1>8 DEF Read, WaitRead, WaitsForChannel, history
  <2> QED
    BY <1>1, <2>1, RetireUnseen, LendRefines
<1> QED
  BY <1>2, <1>3, <1>4, <1>5, <1>6, <1>7, <1>8 DEF Step, TkSend

\* VmState::run implements threads over one-place channels (their steps; that a thread that
\* waits is served is a liveness property): every behaviour of the run loop, whatever the
\* guest program, the quanta and the number of channels, is one of GuestThreads, as long as no
\* Tk command writes a channel behind its senders' back.
THEOREM RunLoopRefinesGuestThreads ==
  ASSUME \A i \in Program : i.op # "tksend"
  PROVE  Spec => Guest!Init /\ [][Guest!Next]_Guest!vars
<1>1. Init => Guest!Init
  <2> SUFFICES ASSUME Init
               PROVE  Guest!Init
    OBVIOUS
  <2>1. /\ at = [t \in Thread |-> None] /\ next_pid = 2 /\ finished = {}
        /\ pending = [c \in Chan |-> None] /\ result = "running"
    BY DEF Init
  <2>2. Waiting = [t \in Thread |-> None]
    BY <2>1 DEF Waiting, Asks
  <2>3. next_pid - 1 \in 1 .. MaxThreads
    BY <2>1, ConstantsAssumption
  <2> QED
    BY <2>1, <2>2, <2>3 DEF Guest!Init, Guest!Thread, Thread, Waiting, Asks
<1>2. IInv /\ IInv' /\ Resting /\ [Next]_vars => [Guest!Next]_Guest!vars
  <2> SUFFICES ASSUME IInv, IInv', Resting, [Next]_vars
               PROVE  [Guest!Next]_Guest!vars
    OBVIOUS
  <2>1. CASE UNCHANGED vars
    <3>1. UNCHANGED <<next_pid, finished, at, pending, result>>
      BY <2>1 DEF vars
    <3>2. Waiting' = Waiting
      BY <3>1 DEF Waiting, Asks, WaitsForChannel, Entries
    <3> QED
      BY <3>1, <3>2, Unseen
  <2>2. CASE FinishHalted
    BY <2>2, FinishHaltedRefines
  <2>3. ASSUME NEW i \in Reachable, Step(i)
        PROVE  [Guest!Next]_Guest!vars
    <3>1. i.op # "tksend"
      BY DEF Reachable
    <3> QED
      BY <2>3, <3>1, StepRefines
  <2> QED
    BY <2>1, <2>2, <2>3 DEF Next, Returned
<1> QED
  BY <1>1, <1>2, RunLoopInvariant, RestingInvariant, PTL DEF Spec

-----------------------------------------------------------------------------
(* Payloads.                                                                 *)

\* No sender and no alt replaces the payload of a slot that is taken: op_send looks at the
\* slot it writes, and so does the alt that selects a send.  (send_to_named_channel, which
\* does not look, is excluded by the assumption.)
THEOREM PayloadsArrive ==
  ASSUME \A i \in Program : i.op # "tksend"
  PROVE  Spec => NoPayloadOverwritten
<1> DEFINE Kept == \A c \in Chan : pending[c] # None => pending'[c] \in {pending[c], None}
<1>1. ASSUME TypeOK, UNCHANGED pending
      PROVE  Kept
  BY <1>1
<1>2. ASSUME TypeOK, NEW e, EntryReady(e), Transfer(e)
      PROVE  Kept
  <2>1. pending' = [pending EXCEPT ![e.chan] = IF e.send THEN cur ELSE None]
    BY <1>2 DEF Transfer
  <2>2. e.send => pending[e.chan] = None
    BY <1>2 DEF EntryReady
  <2> QED
    BY <1>2, <2>1, <2>2 DEF TypeOK
<1>3. TypeOK /\ [Next]_vars => [Kept]_vars
  <2> SUFFICES ASSUME TypeOK, Next
               PROVE  Kept \/ UNCHANGED vars
    OBVIOUS
  <2>1. ASSUME NEW i \in Reachable, Step(i)
        PROVE  Kept
    <3>1. i.op # "tksend"
      BY DEF Reachable
    <3>2. CASE ChannelOp(i)
      BY <1>1, <1>2, <3>2 DEF ChannelOp
    <3>3. CASE Alt(i)
      BY <1>1, <1>2, <3>3 DEF Alt, IsFirstReady
    <3>4. CASE UNCHANGED pending
      BY <1>1, <3>4
    <3>5. \/ ChannelOp(i) \/ Alt(i) \/ UNCHANGED pending
      BY <2>1, <3>1 DEF Step, TkSend, Spawn, Exit, RaiseOp, Other, Mcall, NestedReturn, Read,
                        WaitRead
    <3> QED
      BY <3>2, <3>3, <3>4, <3>5
  <2>2. CASE FinishHalted
    BY <1>1, <2>2 DEF FinishHalted
  <2> QED
    BY <2>1, <2>2 DEF Next, Returned
<1> QED
  BY <1>3, TypeCorrect, PTL DEF Spec, NoPayloadOverwritten

=============================================================================
