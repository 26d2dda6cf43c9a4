-------------------------- MODULE ThreadPoolProofs --------------------------
(***************************************************************************)
(* Proofs about the preemptive pool of ThreadPool.                         *)
(***************************************************************************)
EXTENDS ThreadPoolProps, Integers, Induction, FiniteSetTheorems, SequenceTheorems

-----------------------------------------------------------------------------
(* Queues without repetition.                                                *)

\* A thread at the end of a queue.
LEMMA AppendedElements ==
  ASSUME NEW S, NEW s \in Seq(S), NEW e \in S
  PROVE  /\ Append(s, e) \in Seq(S)
         /\ Elements(Append(s, e)) = Elements(s) \cup {e}
         /\ NoRepeats(s) /\ e \notin Elements(s) => NoRepeats(Append(s, e))
<1> DEFINE a == Append(s, e)
<1>1. /\ a \in Seq(S) /\ Len(a) = Len(s) + 1 /\ Len(s) \in Nat
      /\ \A n \in 1 .. Len(s) : a[n] = s[n]
      /\ a[Len(s) + 1] = e
  BY AppendProperties, LenProperties
<1>2. DOMAIN a = 1 .. Len(s) + 1 /\ DOMAIN s = 1 .. Len(s)
  BY <1>1, LenProperties
<1> HIDE DEF a
<1>3. \A n \in 1 .. Len(s) + 1 : n \in 1 .. Len(s) \/ n = Len(s) + 1
  BY <1>1
<1>4. \A n \in 1 .. Len(s) : n \in 1 .. Len(s) + 1 /\ n # Len(s) + 1
  BY <1>1
<1>5. Elements(a) = Elements(s) \cup {e}
  <2>1. ASSUME NEW x \in Elements(a)
        PROVE  x \in Elements(s) \cup {e}
    BY <1>1, <1>2, <1>3 DEF Elements
  <2>2. ASSUME NEW x \in Elements(s)
        PROVE  x \in Elements(a)
    BY <1>1, <1>2, <1>4 DEF Elements
  <2>3. e \in Elements(a)
    <3>1. Len(s) + 1 \in 1 .. Len(s) + 1
      BY <1>1
    <3> QED
      BY <1>1, <1>2, <3>1 DEF Elements
  <2> QED
    BY <2>1, <2>2, <2>3
<1>6. ASSUME NoRepeats(s), e \notin Elements(s)
      PROVE  NoRepeats(a)
  <2>1. \A n \in 1 .. Len(s) : s[n] # e
    BY <1>2, <1>6 DEF Elements
  <2> SUFFICES ASSUME NEW n \in DOMAIN a, NEW m \in DOMAIN a, a[n] = a[m]
               PROVE  n = m
    BY DEF NoRepeats
  <2>2. CASE n \in 1 .. Len(s) /\ m \in 1 .. Len(s)
    BY <1>1, <1>2, <1>6, <2>2 DEF NoRepeats
  <2>3. CASE n = Len(s) + 1 \/ m = Len(s) + 1
    BY <1>1, <1>2, <1>3, <2>1, <2>3
  <2> QED
    BY <1>2, <1>3, <2>2, <2>3
<1> QED
  BY <1>1, <1>5, <1>6 DEF a

\* One queue behind another.
LEMMA JoinedElements ==
  ASSUME NEW S, NEW s \in Seq(S), NEW r \in Seq(S)
  PROVE  /\ s \o r \in Seq(S)
         /\ Elements(s \o r) = Elements(s) \cup Elements(r)
         /\ NoRepeats(s) /\ NoRepeats(r) /\ Elements(s) \cap Elements(r) = {}
              => NoRepeats(s \o r)
<1> DEFINE a == s \o r
           p == Len(s)
           q == Len(r)
<1>1. /\ a \in Seq(S) /\ Len(a) = p + q /\ p \in Nat /\ q \in Nat
      /\ \A n \in 1 .. p + q : a[n] = IF n <= p THEN s[n] ELSE r[n - p]
  BY ConcatProperties, LenProperties
<1>2. DOMAIN a = 1 .. p + q /\ DOMAIN s = 1 .. p /\ DOMAIN r = 1 .. q
  BY <1>1, LenProperties
<1> HIDE DEF a, p, q
<1>3. ASSUME NEW n \in 1 .. p + q
      PROVE  \/ n \in 1 .. p /\ a[n] = s[n]
             \/ n - p \in 1 .. q /\ n \notin 1 .. p /\ a[n] = r[n - p]
  BY <1>1
<1>4. ASSUME NEW n \in 1 .. p
      PROVE  n \in 1 .. p + q /\ a[n] = s[n]
  BY <1>1
<1>5. ASSUME NEW n \in 1 .. q
      PROVE  n + p \in 1 .. p + q /\ a[n + p] = r[n]
  <2>1. n + p \in 1 .. p + q /\ ~ (n + p <= p) /\ n + p - p = n
    BY <1>1
  <2> QED
    BY <1>1, <2>1
<1>6. Elements(a) = Elements(s) \cup Elements(r)
  <2>1. ASSUME NEW x \in Elements(a)
        PROVE  x \in Elements(s) \cup Elements(r)
    BY <1>2, <1>3 DEF Elements
  <2>2. ASSUME NEW x \in Elements(s)
        PROVE  x \in Elements(a)
    BY <1>2, <1>4 DEF Elements
  <2>3. ASSUME NEW x \in Elements(r)
        PROVE  x \in Elements(a)
    BY <1>2, <1>5 DEF Elements
  <2> QED
    BY <2>1, <2>2, <2>3
<1>7. ASSUME NoRepeats(s), NoRepeats(r), Elements(s) \cap Elements(r) = {}
      PROVE  NoRepeats(a)
  <2> SUFFICES ASSUME NEW n \in DOMAIN a, NEW m \in DOMAIN a, a[n] = a[m]
               PROVE  n = m
    BY DEF NoRepeats
  <2>1. \A i \in 1 .. p, j \in 1 .. q : s[i] # r[j]
    BY <1>2, <1>7 DEF Elements
  <2>2. n \in 1 .. p + q /\ m \in 1 .. p + q
    BY <1>2
  <2>3. CASE n \in 1 .. p /\ m \in 1 .. p
    BY <1>2, <1>4, <1>7, <2>3 DEF NoRepeats
  <2>4. CASE n \notin 1 .. p /\ m \notin 1 .. p
    <3>1. n - p = m - p
      BY <1>2, <1>3, <1>7, <2>2, <2>4 DEF NoRepeats
    <3> QED
      BY <1>1, <2>2, <3>1
  <2>5. CASE n \in 1 .. p /\ m \notin 1 .. p
    BY <1>3, <2>1, <2>2, <2>5
  <2>6. CASE n \notin 1 .. p /\ m \in 1 .. p
    BY <1>3, <2>1, <2>2, <2>6
  <2> QED
    BY <2>3, <2>4, <2>5, <2>6
<1> QED
  BY <1>1, <1>6, <1>7 DEF a

\* A queue from which one thread is taken.
LEMMA RemovedElements ==
  ASSUME NEW S, NEW s \in Seq(S), NEW k \in DOMAIN s, NoRepeats(s)
  PROVE  LET r == SubSeq(s, 1, k - 1) \o SubSeq(s, k + 1, Len(s))
         IN  /\ r \in Seq(S)
             /\ Elements(r) = Elements(s) \ {s[k]}
             /\ NoRepeats(r)
<1> DEFINE p == SubSeq(s, 1, k - 1)
           q == SubSeq(s, k + 1, Len(s))
           l == Len(s)
<1>1. DOMAIN s = 1 .. l /\ l \in Nat /\ k \in 1 .. l
  BY LenProperties
<1>2. \A i \in 1 .. l : s[i] \in S
  BY <1>1, ElementOfSeq
<1>3. /\ p \in Seq(S) /\ Len(p) = k - 1 /\ \A i \in 1 .. k - 1 : p[i] = s[i]
  <2> DEFINE one == 1
             last == k - 1
  <2>1. one \in Int /\ last \in Int /\ \A i \in one .. last : s[i] \in S
    BY <1>1, <1>2
  <2> HIDE DEF one, last
  <2>2. /\ SubSeq(s, one, last) \in Seq(S)
        /\ Len(SubSeq(s, one, last)) = IF one <= last THEN last - one + 1 ELSE 0
        /\ \A i \in 1 .. last - one + 1 : SubSeq(s, one, last)[i] = s[one + i - 1]
    BY <2>1, SubSeqProperties
  <2> QED
    BY <1>1, <2>2 DEF one, last
<1>4. /\ q \in Seq(S) /\ Len(q) = l - k /\ \A i \in 1 .. l - k : q[i] = s[k + i]
  <2> DEFINE first == k + 1
  <2>1. first \in Int /\ l \in Int /\ \A i \in first .. l : s[i] \in S
    BY <1>1, <1>2
  <2>3. /\ q \in Seq(S)
        /\ Len(q) = IF first <= l THEN l - first + 1 ELSE 0
        /\ \A i \in 1 .. l - first + 1 : q[i] = s[first + i - 1]
    <3> HIDE DEF first
    <3>1. q = SubSeq(s, first, l)
      BY DEF first
    <3> HIDE DEF q, l
    <3> QED
      BY <2>1, <3>1, SubSeqProperties
  <2>4. \A i \in 1 .. l - k : first + i - 1 = k + i
    BY <1>1
  <2> HIDE DEF q
  <2> QED
    BY <1>1, <2>3, <2>4
<1>5. DOMAIN p = 1 .. k - 1 /\ DOMAIN q = 1 .. l - k
  BY <1>3, <1>4, LenProperties
<1> HIDE DEF p, q, l
<1>6. /\ p \o q \in Seq(S) /\ Elements(p \o q) = Elements(p) \cup Elements(q)
      /\ NoRepeats(p) /\ NoRepeats(q) /\ Elements(p) \cap Elements(q) = {} => NoRepeats(p \o q)
  BY <1>3, <1>4, JoinedElements
<1>7. Elements(p) = {s[i] : i \in 1 .. k - 1}
  BY <1>3, <1>5 DEF Elements
<1>8. Elements(q) = {s[i] : i \in k + 1 .. l}
  <2>1. \A i \in k + 1 .. l : i - k \in 1 .. l - k /\ k + (i - k) = i
    BY <1>1
  <2>2. \A i \in 1 .. l - k : k + i \in k + 1 .. l
    BY <1>1
  <2> QED
    BY <1>4, <1>5, <2>1, <2>2 DEF Elements
<1>9. \A i, j \in 1 .. l : s[i] = s[j] => i = j
  BY <1>1 DEF NoRepeats
<1>10. NoRepeats(p) /\ NoRepeats(q)
  <2>1. NoRepeats(p)
    <3>1. \A i \in 1 .. k - 1 : i \in 1 .. l
      BY <1>1
    <3> QED
      BY <1>3, <1>5, <1>9, <3>1 DEF NoRepeats
  <2>2. NoRepeats(q)
    <3>1. \A i \in 1 .. l - k : k + i \in 1 .. l
      BY <1>1
    <3>2. \A i, j \in 1 .. l - k : k + i = k + j => i = j
      BY <1>1
    <3> QED
      BY <1>4, <1>5, <1>9, <3>1, <3>2 DEF NoRepeats
  <2> QED
    BY <2>1, <2>2
<1>11. Elements(p) \cap Elements(q) = {}
  <2>1. \A i \in 1 .. k - 1, j \in k + 1 .. l : i \in 1 .. l /\ j \in 1 .. l /\ i # j
    BY <1>1
  <2> QED
    BY <1>7, <1>8, <1>9, <2>1
<1>12. Elements(p) \cup Elements(q) = Elements(s) \ {s[k]}
  <2>1. \A i \in 1 .. l : i \in 1 .. k - 1 \/ i \in k + 1 .. l \/ i = k
    BY <1>1
  <2>2. \A i \in 1 .. l : i \in 1 .. k - 1 \/ i \in k + 1 .. l => i # k
    BY <1>1
  <2>3. 1 .. k - 1 \subseteq 1 .. l /\ k + 1 .. l \subseteq 1 .. l
    BY <1>1
  <2>4. Elements(s) = {s[i] : i \in 1 .. l}
    BY <1>1 DEF Elements
  <2> QED
    BY <1>1, <1>7, <1>8, <1>9, <2>1, <2>2, <2>3, <2>4
<1> QED
  BY <1>6, <1>10, <1>11, <1>12 DEF p, q, l

\* The threads that are retained are those that have not exited, each as often as before.
LEMMA RetainedElements ==
  ASSUME NEW q \in Seq(Thread), NoRepeats(q)
  PROVE  /\ Retained(q) \in Seq(Thread)
         /\ Elements(Retained(q)) = {t \in Elements(q) : state[t] # "Exited"}
         /\ NoRepeats(Retained(q))
<1> DEFINE N == Len(q)
           Step(x, n) == IF state[q[n]] # "Exited" THEN Append(x, q[n]) ELSE x
           Is(f) == f = [n \in 0 .. N |-> IF n = 0 THEN <<>> ELSE Step(f[n - 1], n)]
           keep == CHOOSE f : Is(f)
           B == Seq(Thread)
<1>1. N \in Nat /\ DOMAIN q = 1 .. N /\ \A n \in 1 .. N : q[n] \in Thread
  BY LenProperties, ElementOfSeq
<1>2. \A x \in B, n \in 1 .. N : Step(x, n) \in B
  BY <1>1, AppendedElements
<1>3. \E f : Is(f)
  <2> DEFINE g == [n \in 1 .. N |-> [x \in B |-> Step(x, n)]]
             b == <<>>
  <2>1. b \in B
    BY EmptySeq
  <2> HIDE DEF B, Step, b
  <2>2. g \in Steps(N, B)
    BY <1>2 DEF Steps
  <2>3. PICK f : IsRun(f, N, B, b, g)
    <3> HIDE DEF g, N
    <3> QED
      BY <1>1, <2>1, <2>2, RecursionExists
  <2>4. \A n \in 1 .. N : f[n - 1] \in B
    BY <1>1, <2>3 DEF IsRun
  <2>5. \A n \in 1 .. N : f[n] = Step(f[n - 1], n)
    BY <2>3, <2>4 DEF IsRun
  <2>6. f = [n \in 0 .. N |-> IF n = 0 THEN b ELSE Step(f[n - 1], n)]
    BY <1>1, <2>3, <2>5 DEF IsRun
  <2> QED
    BY <2>6 DEF b
<1>4. Is(keep)
  BY <1>3
<1>5. Retained(q) = keep[N]
  BY DEF Retained
<1> HIDE DEF Step, keep
<1>6. keep[0] = <<>> /\ \A n \in 1 .. N : keep[n] = Step(keep[n - 1], n)
  BY <1>1, <1>4
<1> HIDE DEF N
<1> DEFINE Upto(n) == {q[i] : i \in 1 .. n}
           Right(n) ==
             /\ keep[n] \in Seq(Thread) /\ NoRepeats(keep[n])
             /\ Elements(keep[n]) = {t \in Upto(n) : state[t] # "Exited"}
           C == {n \in 0 .. N : Right(n)}
<1>7. 0 \in C
  <2>1. Upto(0) = {}
    OBVIOUS
  <2>2. DOMAIN <<>> = {}
    OBVIOUS
  <2>3. Elements(<<>>) = {} /\ NoRepeats(<<>>)
    BY <2>2 DEF Elements, NoRepeats
  <2>4. <<>> \in Seq(Thread)
    BY EmptySeq
  <2> HIDE DEF Upto
  <2>5. Right(0)
    BY <1>6, <2>1, <2>3, <2>4
  <2> QED
    BY <1>1, <2>5
<1>8. ASSUME NEW n \in 0 .. N - 1, n \in C
      PROVE  n + 1 \in C
  <2> DEFINE x == keep[n]
             y == keep[n + 1]
             e == q[n + 1]
  <2>1. n + 1 \in 1 .. N /\ n + 1 \in 0 .. N /\ n + 1 - 1 = n
    BY <1>1
  <2>2. y = IF state[e] # "Exited" THEN Append(x, e) ELSE x
    BY <1>6, <2>1 DEF Step
  <2>3. Right(n)
    BY <1>8
  <2>4. Upto(n + 1) = Upto(n) \cup {e}
    <3>1. \A i : i \in 1 .. n + 1 <=> i \in 1 .. n \/ i = n + 1
      BY <1>1
    <3> QED
      BY <3>1
  <2>5. e \notin Upto(n)
    <3>1. \A i \in 1 .. n : i \in 1 .. N /\ i # n + 1
      BY <1>1
    <3> QED
      BY <1>1, <2>1, <3>1 DEF NoRepeats
  <2>6. e \in Thread
    BY <1>1, <2>1
  <2>7. Right(n + 1)
    <3> HIDE DEF x, y, e, Upto
    <3>1. CASE state[e] # "Exited"
      <4>1. x \in Seq(Thread) /\ e \notin Elements(x) /\ NoRepeats(x)
        BY <2>3, <2>5 DEF x
      <4>2. y = Append(x, e)
        BY <2>2, <3>1
      <4>3. y \in Seq(Thread) /\ NoRepeats(y) /\ Elements(y) = Elements(x) \cup {e}
        BY <2>6, <4>1, <4>2, AppendedElements
      <4> QED
        BY <2>3, <2>4, <3>1, <4>3 DEF x, y
    <3>2. CASE state[e] = "Exited"
      BY <2>2, <2>3, <2>4, <3>2 DEF x, y
    <3> QED
      BY <3>1, <3>2
  <2> QED
    BY <2>1, <2>7
<1> HIDE DEF C
<1>9. N \in C
  <2>1. 0 .. N \subseteq C
    BY <1>1, <1>7, <1>8, BoundedInduction
  <2> QED
    BY <1>1, <2>1
<1>10. Right(N)
  BY <1>9 DEF C
<1>11. Upto(N) = Elements(q)
  BY <1>1 DEF Elements
<1> QED
  BY <1>5, <1>10, <1>11

-----------------------------------------------------------------------------
(* Instructions.                                                             *)

\* What an instruction of thread t on worker w does to everything but the thread itself, and
\* how the quantum goes on or ends.
Effect(w, t) ==
  /\ UNCHANGED <<queue, running, seen, shutdown, blocked_at, hand>>
  /\ \A u \in Thread \ {t} : at'[u] = at[u] /\ state'[u] = state[u]
  /\ \A v \in Worker \ {w} :
       /\ phase'[v] = phase[v] /\ count'[v] = count[v] /\ epoch'[v] = epoch[v]
       /\ result'[v] = result[v]
  /\ progress <= progress' /\ (pending' # pending => progress < progress')
  /\ halted \subseteq halted' /\ halted' \subseteq halted \cup {t}
  /\ \/ born' = born /\ spawned' = spawned
     \/ /\ born' = born + 1 /\ born + 1 \in Thread
        /\ spawned' = [spawned EXCEPT ![w] = Append(@, born + 1)]
  /\ result'[w] \in {result[w], "fault"}
  /\ \/ /\ phase'[w] = "run" /\ holder' = w /\ count'[w] < DEFAULT_QUANTA
        /\ state'[t] = state[t] /\ t \notin halted' /\ result'[w] = result[w] /\ epoch'[w] = epoch[w]
     \/ /\ phase'[w] = "return" /\ holder' = None /\ epoch'[w] = progress'
        /\ \/ state'[t] = state[t]
           \/ state'[t] = "Blocked" /\ Stuck(t)' /\ t \notin halted'

\* Facts about the constants that the steps need.
LEMMA Constants ==
  /\ MaxThreads \in Nat /\ MaxInstr \in Nat /\ DEFAULT_QUANTA \in Nat \ {0}
  /\ None \notin Worker /\ None \notin Thread /\ None \notin Program
  /\ Initial \in Nat /\ Initial >= 1 /\ Initial <= MaxThreads
BY PoolConstants

\* The worker that runs has the lock, and its thread is not over.
LEMMA Runner ==
  ASSUME TypeOK, WorkersInv, PlacesInv, StatesInv, NEW w \in Worker, phase[w] = "run"
  PROVE  /\ hand[w] \in Thread /\ hand[w] \notin halted /\ state[hand[w]] = "Running"
         /\ holder = w /\ count[w] < DEFAULT_QUANTA /\ result[w] = "ok"
         /\ born \in 1 .. MaxThreads
<1> DEFINE t == hand[w]
<1>1. t \in Thread /\ state[t] = "Running" /\ holder = w /\ count[w] < DEFAULT_QUANTA
  BY DEF TypeOK, WorkersInv, StatesInv
<1>2. t \notin halted
  <2> SUFFICES ASSUME t \in halted
               PROVE  FALSE
    OBVIOUS
  <2>1. PICK v \in Worker : hand[v] = t /\ phase[v] = "return"
    BY <1>1 DEF StatesInv
  <2>2. v # w
    BY <2>1
  <2>3. t \in Held(v) /\ t \in Held(w)
    BY <1>1, <2>1, Constants DEF Held
  <2> QED
    BY <2>2, <2>3 DEF PlacesInv
<1>3. result[w] = "ok"
  BY DEF WorkersInv
<1>4. born \in 1 .. MaxThreads
  BY Constants DEF TypeOK
<1> QED
  BY <1>1, <1>2, <1>3, <1>4

\* An instruction that completes.
LEMMA RetireEffect ==
  ASSUME TypeOK, WorkersInv, PlacesInv, StatesInv, NEW w \in Worker, NEW t, phase[w] = "run",
         t = hand[w], retired[t] < MaxInstr, Retire(w, t), UNCHANGED <<poolVars, hand>>,
         pending' \in [Chan -> Thread \cup {None}], halted \subseteq halted',
         halted' \subseteq halted \cup {t},
         \/ UNCHANGED <<born, spawned>>
         \/ /\ born < MaxThreads /\ born' = born + 1
            /\ spawned' = [spawned EXCEPT ![w] = Append(@, born + 1)]
  PROVE  Effect(w, t) /\ TypeOK'
<1>1. /\ t \in Thread /\ t \notin halted /\ state[t] = "Running" /\ holder = w
      /\ count[w] < DEFAULT_QUANTA /\ result[w] = "ok" /\ born \in 1 .. MaxThreads
  BY Runner
<1>2. /\ at' = [at EXCEPT ![t] = None] /\ retired' = [retired EXCEPT ![t] = retired[t] + 1]
      /\ progress' = progress + 1 /\ count' = [count EXCEPT ![w] = count[w] + 1]
      /\ state' = state /\ blocked_at' = blocked_at /\ result' = result
      /\ queue' = queue /\ running' = running /\ seen' = seen /\ shutdown' = shutdown
      /\ hand' = hand
  BY DEF Retire, poolVars
<1>3. \/ /\ holder' = None /\ epoch' = [epoch EXCEPT ![w] = progress']
         /\ phase' = [phase EXCEPT ![w] = "return"]
      \/ /\ holder' = holder /\ epoch' = epoch /\ phase' = phase
         /\ count[w] + 1 # DEFAULT_QUANTA /\ t \notin halted'
  BY <1>2 DEF Retire, Release, GoTo
<1>4. /\ at \in [Thread -> Program \cup {None}] /\ retired \in [Thread -> 0 .. MaxInstr]
      /\ progress \in Nat /\ count \in [Worker -> 0 .. DEFAULT_QUANTA]
      /\ epoch \in [Worker -> Nat] /\ spawned \in [Worker -> Seq(Thread)]
      /\ phase \in [Worker -> {"pick", "wait", "lock", "run", "return", "notify", "done"}]
      /\ holder \in Worker \cup {None} /\ halted \subseteq Thread /\ born \in Initial .. MaxThreads
  BY DEF TypeOK
<1>5. \/ born' = born /\ spawned' = spawned
      \/ /\ born' = born + 1 /\ born + 1 \in Thread
         /\ spawned' = [spawned EXCEPT ![w] = Append(spawned[w], born + 1)]
  BY <1>1, Constants DEF Thread
<1>6. count[w] + 1 \in 0 .. DEFAULT_QUANTA /\ retired[t] + 1 \in 0 .. MaxInstr
  BY <1>1, <1>4, Constants
<1>7. at' \in [Thread -> Program \cup {None}] /\ retired' \in [Thread -> 0 .. MaxInstr]
  BY <1>2, <1>4, <1>6
<1>8. count' \in [Worker -> 0 .. DEFAULT_QUANTA] /\ progress' \in Nat
  BY <1>2, <1>4, <1>6
<1>9. /\ epoch' \in [Worker -> Nat] /\ holder' \in Worker \cup {None}
      /\ phase' \in [Worker -> {"pick", "wait", "lock", "run", "return", "notify", "done"}]
  BY <1>3, <1>4, <1>8
<1>10. spawned' \in [Worker -> Seq(Thread)] /\ born' \in Initial .. MaxThreads
  <2>1. CASE born' = born /\ spawned' = spawned
    BY <1>4, <2>1
  <2>2. CASE /\ born' = born + 1 /\ born + 1 \in Thread
             /\ spawned' = [spawned EXCEPT ![w] = Append(spawned[w], born + 1)]
    <3>1. Append(spawned[w], born + 1) \in Seq(Thread)
      BY <1>4, <2>2, AppendedElements
    <3>2. born + 1 \in Initial .. MaxThreads
      BY <1>4, <2>2, Constants DEF Thread
    <3> QED
      BY <1>4, <2>2, <3>1, <3>2
  <2> QED
    BY <1>5, <2>1, <2>2
<1>11. halted' \subseteq Thread
  BY <1>1, <1>4
<1>12. TypeOK'
  BY <1>2, <1>7, <1>8, <1>9, <1>10, <1>11 DEF TypeOK
<1>13. \A u \in Thread \ {t} : at'[u] = at[u] /\ state'[u] = state[u]
  BY <1>2, <1>4
<1>14. \A v \in Worker \ {w} :
         /\ phase'[v] = phase[v] /\ count'[v] = count[v] /\ epoch'[v] = epoch[v]
         /\ result'[v] = result[v]
  BY <1>2, <1>3, <1>4
<1>15. \/ /\ phase'[w] = "run" /\ holder' = w /\ count'[w] < DEFAULT_QUANTA /\ t \notin halted'
          /\ epoch'[w] = epoch[w]
       \/ phase'[w] = "return" /\ holder' = None /\ epoch'[w] = progress'
  <2>1. CASE /\ holder' = None /\ epoch' = [epoch EXCEPT ![w] = progress']
             /\ phase' = [phase EXCEPT ![w] = "return"]
    BY <1>4, <2>1
  <2>2. CASE /\ holder' = holder /\ epoch' = epoch /\ phase' = phase
             /\ count[w] + 1 # DEFAULT_QUANTA /\ t \notin halted'
    <3>1. count'[w] = count[w] + 1
      BY <1>2, <1>4
    <3>2. count'[w] < DEFAULT_QUANTA
      BY <1>6, <2>2, <3>1, Constants
    <3> QED
      BY <1>1, <2>2, <3>2
  <2> QED
    BY <1>3, <2>1, <2>2
<1>16. progress <= progress' /\ progress < progress'
  BY <1>2, <1>4
<1> QED
  BY <1>2, <1>5, <1>12, <1>13, <1>14, <1>15, <1>16 DEF Effect

\* An instruction that ends the quantum and does not complete: the thread is parked, or fails.
LEMMA StopEffect ==
  ASSUME TypeOK, WorkersInv, PlacesInv, StatesInv, NEW w \in Worker, NEW t, NEW i \in Program,
         phase[w] = "run", t = hand[w], Stop(w, t, i), UNCHANGED <<poolVars, hand>>,
         UNCHANGED <<halted, born, spawned, pending>>,
         \/ /\ state' = [state EXCEPT ![t] = "Blocked"] /\ result' = result
            /\ i.op = "alt" /\ \A n \in DOMAIN i.table : ~ Ready(i.table[n])
         \/ state' = state /\ result' = [result EXCEPT ![w] = "fault"]
  PROVE  Effect(w, t) /\ TypeOK'
<1>1. /\ t \in Thread /\ t \notin halted /\ state[t] = "Running" /\ holder = w
      /\ result[w] = "ok"
  BY Runner
<1>2. /\ at' = [at EXCEPT ![t] = i] /\ retired' = retired
      /\ progress' = progress /\ count' = count /\ blocked_at' = blocked_at
      /\ holder' = None /\ epoch' = [epoch EXCEPT ![w] = progress']
      /\ phase' = [phase EXCEPT ![w] = "return"]
      /\ queue' = queue /\ running' = running /\ seen' = seen /\ shutdown' = shutdown
      /\ hand' = hand /\ halted' = halted /\ born' = born /\ spawned' = spawned
      /\ pending' = pending
  BY DEF Stop, Release, GoTo, poolVars
<1>3. /\ at \in [Thread -> Program \cup {None}] /\ progress \in Nat
      /\ epoch \in [Worker -> Nat]
      /\ phase \in [Worker -> {"pick", "wait", "lock", "run", "return", "notify", "done"}]
      /\ state \in [Thread -> {"Ready", "Running", "Blocked", "Exited"}]
      /\ result \in [Worker -> {"ok", "fault", "deadlock"}]
  BY DEF TypeOK
<1>4. /\ at' \in [Thread -> Program \cup {None}] /\ epoch' \in [Worker -> Nat]
      /\ phase' \in [Worker -> {"pick", "wait", "lock", "run", "return", "notify", "done"}]
      /\ state' \in [Thread -> {"Ready", "Running", "Blocked", "Exited"}]
      /\ result' \in [Worker -> {"ok", "fault", "deadlock"}]
      /\ holder' \in Worker \cup {None} /\ progress' \in Nat
  BY <1>1, <1>2, <1>3
<1>5. TypeOK'
  BY <1>2, <1>4 DEF TypeOK
<1>6. \A u \in Thread \ {t} : at'[u] = at[u] /\ state'[u] = state[u]
  BY <1>2, <1>3
<1>7. \A v \in Worker \ {w} :
        /\ phase'[v] = phase[v] /\ count'[v] = count[v] /\ epoch'[v] = epoch[v]
        /\ result'[v] = result[v]
  BY <1>2, <1>3
<1>8. phase'[w] = "return" /\ epoch'[w] = progress' /\ progress <= progress'
  BY <1>2, <1>3
<1>9. \/ state'[t] = state[t]
      \/ state'[t] = "Blocked" /\ Stuck(t)' /\ t \notin halted'
  <2>1. CASE /\ state' = [state EXCEPT ![t] = "Blocked"] /\ result' = result
             /\ i.op = "alt" /\ \A n \in DOMAIN i.table : ~ Ready(i.table[n])
    <3>1. state'[t] = "Blocked" /\ at'[t] = i /\ i # None
      BY <1>1, <1>2, <1>3, <2>1, Constants
    <3>2. \A n \in DOMAIN i.table : ~ (Ready(i.table[n])')
      BY <1>2, <2>1 DEF Ready
    <3>3. Stuck(t)'
      BY <2>1, <3>1, <3>2 DEF Stuck, WaitsForChannel, Entries
    <3> QED
      BY <1>1, <1>2, <3>1, <3>3
  <2> QED
    BY <2>1
<1>10. result'[w] \in {result[w], "fault"}
  BY <1>3
<1> QED
  BY <1>2, <1>5, <1>6, <1>7, <1>8, <1>9, <1>10 DEF Effect

\* Every instruction, and the end of the code.
LEMMA RunEffect ==
  ASSUME TypeOK, WorkersInv, PlacesInv, StatesInv, NEW w \in Worker, Run(w)
  PROVE  phase[w] = "run" /\ Effect(w, hand[w]) /\ TypeOK'
<1>1. ASSUME NEW t \in Thread, RunOffTheEnd(w, t)
      PROVE  phase[w] = "run" /\ Effect(w, hand[w]) /\ TypeOK'
  <2>1. /\ phase[w] = "run" /\ t = hand[w]
        /\ halted' = halted \cup {t} /\ holder' = None
        /\ epoch' = [epoch EXCEPT ![w] = progress'] /\ phase' = [phase EXCEPT ![w] = "return"]
        /\ queue' = queue /\ running' = running /\ seen' = seen /\ shutdown' = shutdown
        /\ state' = state /\ blocked_at' = blocked_at /\ at' = at /\ retired' = retired
        /\ progress' = progress /\ born' = born /\ pending' = pending /\ hand' = hand
        /\ count' = count /\ spawned' = spawned /\ result' = result
    BY <1>1 DEF RunOffTheEnd, Release, GoTo, poolVars
  <2>2. /\ epoch \in [Worker -> Nat] /\ progress \in Nat /\ halted \subseteq Thread
        /\ phase \in [Worker -> {"pick", "wait", "lock", "run", "return", "notify", "done"}]
    BY DEF TypeOK
  <2>3. /\ epoch' \in [Worker -> Nat] /\ holder' \in Worker \cup {None}
        /\ phase' \in [Worker -> {"pick", "wait", "lock", "run", "return", "notify", "done"}]
        /\ halted' \subseteq Thread
    BY <2>1, <2>2
  <2>4. TypeOK'
    BY <2>1, <2>3 DEF TypeOK
  <2>5. \A v \in Worker \ {w} :
          /\ phase'[v] = phase[v] /\ count'[v] = count[v] /\ epoch'[v] = epoch[v]
          /\ result'[v] = result[v]
    BY <2>1, <2>2
  <2>6. phase'[w] = "return" /\ epoch'[w] = progress' /\ progress <= progress'
    BY <2>1, <2>2
  <2>7. Effect(w, t)
    BY <2>1, <2>5, <2>6 DEF Effect
  <2> QED
    BY <2>1, <2>4, <2>7
<1>2. ASSUME NEW t \in Thread, NEW i \in Program, ChannelOp(w, t, i)
      PROVE  phase[w] = "run" /\ Effect(w, hand[w]) /\ TypeOK'
  <2>1. /\ phase[w] = "run" /\ t = hand[w] /\ retired[t] < MaxInstr /\ UNCHANGED <<poolVars, hand>>
        /\ UNCHANGED <<halted, born, spawned>>
    BY <1>2 DEF ChannelOp, Dispatch
  <2>2. CASE \E n \in DOMAIN i.table :
               /\ pending' = [pending EXCEPT ![i.table[n].chan] =
                                IF i.table[n].send THEN t ELSE None]
               /\ Retire(w, t)
    <3>1. PICK n \in DOMAIN i.table : 
               /\ pending' = [pending EXCEPT ![i.table[n].chan] =
                                IF i.table[n].send THEN t ELSE None]
               /\ Retire(w, t)
      BY <2>2
    <3>2. (IF i.table[n].send THEN t ELSE None) \in Thread \cup {None}
      OBVIOUS
    <3>3. pending' \in [Chan -> Thread \cup {None}]
      BY <3>1, <3>2 DEF TypeOK
    <3>4. halted \subseteq halted' /\ halted' \subseteq halted \cup {t}
      BY <2>1
    <3> QED
      BY <2>1, <3>1, <3>3, <3>4, RetireEffect
  <2>3. CASE UNCHANGED pending /\ Retire(w, t)
    <3>1. pending' \in [Chan -> Thread \cup {None}]
      BY <2>3 DEF TypeOK
    <3>2. halted \subseteq halted' /\ halted' \subseteq halted \cup {t}
      BY <2>1
    <3> QED
      BY <2>1, <2>3, <3>1, <3>2, RetireEffect
  <2>4. CASE /\ UNCHANGED pending /\ i.op # "nbalt" /\ \A n \in DOMAIN i.table : ~Ready(i.table[n])
             /\ Stop(w, t, i)
             /\ state' = [state EXCEPT ![t] = "Blocked"]
             /\ UNCHANGED result
    <3>1. i.op = "alt"
      BY <1>2, <2>4 DEF ChannelOp
    <3>2. UNCHANGED <<halted, born, spawned, pending>>
      BY <2>1, <2>4
    <3> QED
      BY <2>1, <2>4, <3>1, <3>2, StopEffect
  <2> QED
    BY <1>2, <2>2, <2>3, <2>4 DEF ChannelOp
<1>3. ASSUME NEW t \in Thread, NEW i \in Program,
             Spawn(w, t, i) \/ Exit(w, t, i) \/ Other(w, t, i) \/ (Fault(w, t, i) /\ Retire(w, t))
      PROVE  phase[w] = "run" /\ Effect(w, hand[w]) /\ TypeOK'
  <2>1. /\ phase[w] = "run" /\ t = hand[w] /\ retired[t] < MaxInstr /\ UNCHANGED <<poolVars, hand>>
        /\ Retire(w, t) /\ pending' = pending
    BY <1>3 DEF Spawn, Exit, Other, Fault, Dispatch
  <2>2. \/ UNCHANGED <<born, spawned>>
        \/ /\ born < MaxThreads /\ born' = born + 1
           /\ spawned' = [spawned EXCEPT ![w] = Append(@, born + 1)]
    BY <1>3 DEF Spawn, Exit, Other, Fault
  <2>3. halted \subseteq halted' /\ halted' \subseteq halted \cup {t}
    BY <1>3 DEF Spawn, Exit, Other, Fault
  <2>4. pending' \in [Chan -> Thread \cup {None}]
    BY <2>1 DEF TypeOK
  <2> QED
    BY <2>1, <2>2, <2>3, <2>4, RetireEffect
<1>4. ASSUME NEW t \in Thread, NEW i \in Program, Fault(w, t, i), ~ Retire(w, t)
      PROVE  phase[w] = "run" /\ Effect(w, hand[w]) /\ TypeOK'
  <2>1. /\ phase[w] = "run" /\ t = hand[w] /\ UNCHANGED <<poolVars, hand>>
        /\ Stop(w, t, i) /\ UNCHANGED <<halted, born, spawned, pending>>
        /\ state' = state /\ result' = [result EXCEPT ![w] = "fault"]
    BY <1>4 DEF Fault, Dispatch
  <2> QED
    BY <2>1, StopEffect
<1> QED
  BY <1>1, <1>2, <1>3, <1>4 DEF Run

-----------------------------------------------------------------------------
(* Part of the invariant by part, a step within a quantum.                   *)

\* What the other parts need of the workers.
LEMMA Hands ==
  ASSUME TypeOK, WorkersInv, NEW w \in Worker
  PROVE  /\ hand[w] \in Thread \cup {None}
         /\ phase[w] \in {"lock", "run", "return"} => hand[w] \in Thread
         /\ phase[w] \notin {"lock", "run", "return"} => hand[w] = None /\ spawned[w] = <<>>
         /\ spawned[w] \in Seq(Thread)
BY DEF TypeOK, WorkersInv

\* The workers and the lock.
LEMMA RunWorkers ==
  ASSUME TypeOK, TypeOK', WorkersInv, PlacesInv, StatesInv, NEW w \in Worker, phase[w] = "run",
         Effect(w, hand[w])
  PROVE  WorkersInv'
<1>1. /\ holder = w /\ result[w] = "ok" /\ hand[w] # None
  BY Runner, Constants
<1>2. hand' = hand /\ Busy' = Busy /\ running' = running
  BY DEF Effect, Busy
<1>3. running' = Cardinality(Busy')
  BY <1>2 DEF WorkersInv
<1>4. ASSUME NEW v \in Worker
      PROVE  /\ hand'[v] # None <=> phase'[v] \in {"lock", "run", "return"}
             /\ phase'[v] = "run" <=> holder' = v
             /\ phase'[v] = "run" => count'[v] < DEFAULT_QUANTA
             /\ phase'[v] \notin {"run", "return"} => count'[v] = 0 /\ spawned'[v] = <<>>
             /\ result'[v] # "ok" => phase'[v] \in {"return", "notify", "done"}
  <2>1. CASE v = w
    BY <1>1, <1>2, <2>1, Constants DEF Effect
  <2>2. CASE v # w
    <3>1. /\ phase'[v] = phase[v] /\ count'[v] = count[v] /\ result'[v] = result[v]
          /\ spawned'[v] = spawned[v] /\ hand'[v] = hand[v] /\ holder' \in {w, None}
      BY <1>2, <2>2 DEF Effect, TypeOK
    <3>2. phase[v] # "run" /\ holder' # v
      BY <1>1, <2>2, <3>1, Constants DEF WorkersInv
    <3> QED
      BY <3>1, <3>2 DEF WorkersInv
  <2> QED
    BY <2>1, <2>2
<1> QED
  BY <1>3, <1>4 DEF WorkersInv

\* Where the threads are: one that is spawned is in the hands of the worker.
LEMMA RunPlaces ==
  ASSUME TypeOK, TypeOK', WorkersInv, PlacesInv, StatesInv, NEW w \in Worker, phase[w] = "run",
         Effect(w, hand[w])
  PROVE  PlacesInv'
<1>1. /\ queue' = queue /\ hand' = hand /\ halted \subseteq halted'
      /\ hand[w] \in Thread /\ born \in 1 .. MaxThreads /\ MaxThreads \in Nat
  BY Runner, Constants DEF Effect
<1>2. CASE born' = born /\ spawned' = spawned
  <2>1. \A v \in Worker : Held(v)' = Held(v)
    BY <1>1, <1>2 DEF Held, Elements
  <2> QED
    BY <1>1, <1>2, <2>1 DEF PlacesInv, Elements, NoRepeats
<1>3. CASE /\ born' = born + 1 /\ born + 1 \in Thread
           /\ spawned' = [spawned EXCEPT ![w] = Append(spawned[w], born + 1)]
  <2> DEFINE new == born + 1
  <2>1. /\ new \notin 1 .. born /\ 1 .. born \subseteq 1 .. new /\ new \in 1 .. new
        /\ \A t \in 1 .. new : t \in 1 .. born \/ t = new
    BY <1>1
  <2>2. /\ spawned[w] \in Seq(Thread) /\ spawned'[w] = Append(spawned[w], new)
        /\ \A v \in Worker \ {w} : spawned'[v] = spawned[v]
    BY <1>3 DEF TypeOK
  <2>3. new \in Thread /\ new # None
    BY <1>3, Constants
  <2> HIDE DEF new
  <2>4. \A v \in Worker : Held(v) \subseteq 1 .. born /\ NoRepeats(spawned[v])
    BY DEF PlacesInv
  <2>5. Elements(spawned[w]) \subseteq Held(w)
    <3>1. None \notin Elements(spawned[w])
      <4>1. \A n \in DOMAIN spawned[w] : spawned[w][n] \in Thread
        BY <2>2, LenProperties, ElementOfSeq
      <4> QED
        BY <4>1, Constants DEF Elements
    <3> QED
      BY <3>1 DEF Held
  <2>6. new \notin Elements(spawned[w])
    BY <2>1, <2>4, <2>5
  <2>7. /\ Elements(Append(spawned[w], new)) = Elements(spawned[w]) \cup {new}
        /\ NoRepeats(Append(spawned[w], new))
    BY <2>2, <2>3, <2>4, <2>6, AppendedElements
  <2>8. /\ Elements(spawned[w])' = Elements(spawned[w]) \cup {new}
        /\ NoRepeats(spawned[w])'
    <3>1. /\ Elements(spawned'[w]) = Elements(spawned[w]) \cup {new}
          /\ NoRepeats(spawned'[w])
      BY <2>2, <2>7
    <3> QED
      BY <3>1 DEF Elements, NoRepeats
  <2>9. Held(w)' = Held(w) \cup {new}
    BY <1>1, <2>3, <2>8 DEF Held
  <2>10. \A v \in Worker \ {w} : Held(v)' = Held(v)
    BY <1>1, <2>2 DEF Held, Elements
  <2>11. born' = new
    BY <1>3 DEF new
  <2>12. Elements(queue)' = Elements(queue) /\ (NoRepeats(queue)' <=> NoRepeats(queue))
    BY <1>1 DEF Elements, NoRepeats
  <2>13. new \notin Elements(queue) /\ new # hand[w]
    <3>1. hand[w] \in Held(w)
      BY <1>1, Constants DEF Held
    <3> QED
      BY <2>1, <2>4, <3>1 DEF PlacesInv
  <2>14. \A v \in Worker : /\ Held(v)' \subseteq 1 .. new /\ Held(v)' \cap Elements(queue) = {}
                           /\ \A u \in Worker \ {v} : Held(u)' \cap Held(v)' = {}
    <3>1. \A v \in Worker : /\ Held(v) \subseteq 1 .. born /\ Held(v) \cap Elements(queue) = {}
                            /\ \A u \in Worker \ {v} : Held(u) \cap Held(v) = {}
      BY DEF PlacesInv
    <3> QED
      BY <2>1, <2>9, <2>10, <2>13, <3>1
  <2>15. \A v \in Worker : NoRepeats(spawned[v])' /\ hand'[v] \notin Elements(spawned[v])'
    <3>1. \A v \in Worker : NoRepeats(spawned[v]) /\ hand[v] \notin Elements(spawned[v])
      BY DEF PlacesInv
    <3> SUFFICES ASSUME NEW v \in Worker
                 PROVE  NoRepeats(spawned[v])' /\ hand'[v] \notin Elements(spawned[v])'
      OBVIOUS
    <3>2. CASE v = w
      BY <1>1, <2>8, <2>13, <3>1, <3>2
    <3>3. CASE v # w
      <4>1. spawned'[v] = spawned[v]
        BY <2>2, <3>3
      <4> QED
        BY <1>1, <3>1, <4>1 DEF NoRepeats, Elements
    <3> QED
      BY <3>2, <3>3
  <2>16. \A t \in 1 .. new : t \in halted' \/ t \in Elements(queue) \/ \E v \in Worker : t \in Held(v)'
    <3> SUFFICES ASSUME NEW t \in 1 .. new
                 PROVE  t \in halted' \/ t \in Elements(queue) \/ \E v \in Worker : t \in Held(v)'
      OBVIOUS
    <3>1. CASE t = new
      BY <2>9, <3>1
    <3>2. CASE t \in 1 .. born
      <4>1. t \in halted \/ t \in Elements(queue) \/ \E v \in Worker : t \in Held(v)
        BY <3>2 DEF PlacesInv
      <4> QED
        BY <1>1, <2>9, <2>10, <4>1
    <3> QED
      BY <2>1, <3>1, <3>2
  <2>17. NoRepeats(queue)' /\ Elements(queue) \subseteq 1 .. new
    BY <2>1, <2>12 DEF PlacesInv
  <2> QED
    BY <2>11, <2>12, <2>14, <2>15, <2>16, <2>17 DEF PlacesInv
<1> QED
  BY <1>2, <1>3 DEF Effect

\* A thread in a worker's hands is in no other place.
LEMMA Apart ==
  ASSUME TypeOK, PlacesInv, NEW w \in Worker, hand[w] \in Thread
  PROVE  /\ hand[w] \in 1 .. born /\ hand[w] \notin Elements(queue)
         /\ hand[w] \notin Elements(spawned[w])
         /\ \A v \in Worker \ {w} : hand[v] # hand[w] /\ hand[w] \notin Elements(spawned[v])
<1>1. hand[w] \in Held(w)
  BY Constants DEF Held
<1>2. \A v \in Worker : \A t \in Thread : t = hand[v] \/ t \in Elements(spawned[v]) => t \in Held(v)
  BY Constants DEF Held
<1> QED
  BY <1>1, <1>2 DEF PlacesInv

\* The threads that are spawned are threads.
LEMMA SpawnedThreads ==
  ASSUME TypeOK, NEW w \in Worker
  PROVE  Elements(spawned[w]) \subseteq Thread
<1>1. spawned[w] \in Seq(Thread)
  BY DEF TypeOK
<1>2. \A n \in DOMAIN spawned[w] : spawned[w][n] \in Thread
  BY <1>1, LenProperties, ElementOfSeq
<1> QED
  BY <1>2 DEF Elements

\* VmThread::state.
LEMMA RunStates ==
  ASSUME TypeOK, TypeOK', WorkersInv, PlacesInv, StatesInv, NEW w \in Worker, phase[w] = "run",
         Effect(w, hand[w])
  PROVE  StatesInv'
<1> DEFINE t == hand[w]
<1>1. /\ t \in Thread /\ t \notin halted /\ state[t] = "Running" /\ born \in 1 .. MaxThreads
      /\ MaxThreads \in Nat
  BY Runner, Constants
<1>2. /\ t \in 1 .. born /\ t \notin Elements(queue) /\ t \notin Elements(spawned[w])
      /\ \A v \in Worker \ {w} : hand[v] # t /\ t \notin Elements(spawned[v])
  BY <1>1, Apart
<1>3. /\ Elements(queue)' = Elements(queue) /\ hand' = hand
      /\ \A u \in Thread \ {t} : state'[u] = state[u]
      /\ halted \subseteq halted' /\ halted' \subseteq halted \cup {t}
      /\ \A v \in Worker \ {w} : phase'[v] = phase[v]
  BY DEF Effect, Elements
<1>4. \A u \in Thread : u > born' => state'[u] = "Ready" /\ u \notin halted'
  <2>1. born' \in Nat /\ born <= born'
    BY <1>1 DEF Effect
  <2>2. \A u \in Thread : u > born' => u > born /\ u # t
    BY <1>1, <1>2, <2>1 DEF Thread
  <2> QED
    BY <1>1, <1>3, <2>2 DEF StatesInv
<1>5. state'[t] = "Running" \/ (state'[t] = "Blocked" /\ t \notin halted')
  BY <1>1 DEF Effect
<1>6. \A u \in Thread : state'[u] = "Exited" => u \in halted'
  BY <1>1, <1>3, <1>5 DEF StatesInv
<1>7. \A u \in halted' : state'[u] = "Exited" \/ \E v \in Worker : hand'[v] = u /\ phase'[v] = "return"
  <2>1. CASE t \in halted'
    <3>1. phase'[w] = "return" /\ hand'[w] = t
      BY <1>3, <2>1 DEF Effect
    <3>2. ASSUME NEW u \in halted, u # t
          PROVE  state'[u] = "Exited" \/ \E v \in Worker : hand'[v] = u /\ phase'[v] = "return"
      <4>1. u \in Thread
        BY <3>2 DEF TypeOK
      <4> QED
        BY <1>1, <1>3, <3>2, <4>1 DEF StatesInv
    <3> QED
      BY <1>3, <3>1, <3>2
  <2>2. ASSUME NEW u \in halted
        PROVE  state'[u] = "Exited" \/ \E v \in Worker : hand'[v] = u /\ phase'[v] = "return"
    <3>1. u # t /\ u \in Thread
      BY <1>1 DEF TypeOK
    <3> QED
      BY <1>1, <1>3, <3>1 DEF StatesInv
  <2> QED
    BY <1>3, <2>1, <2>2
<1>8. \A u \in Elements(queue) : state'[u] # "Running"
  <2>1. \A u \in Elements(queue) : u \in Thread
    BY <1>1 DEF PlacesInv, Thread
  <2> QED
    BY <1>2, <1>3, <2>1 DEF StatesInv
<1>9. ASSUME NEW v \in Worker
      PROVE  /\ phase'[v] \in {"lock", "run"} => state'[hand'[v]] = "Running"
             /\ phase'[v] = "return" => state'[hand'[v]] \in {"Running", "Blocked"}
             /\ \A u \in Elements(spawned[v])' : state'[u] = "Ready"
  <2>1. \A u \in Elements(spawned[v]) : state'[u] = "Ready" /\ state[u] = "Ready"
    BY <1>2, <1>3, SpawnedThreads DEF StatesInv
  <2>2. \A u \in Elements(spawned[v])' : state'[u] = "Ready"
    <3>1. CASE spawned' = spawned
      BY <2>1, <3>1 DEF Elements
    <3>2. CASE born + 1 \in Thread /\ spawned' = [spawned EXCEPT ![w] = Append(spawned[w], born + 1)]
      <4>1. CASE v # w
        <5>1. spawned'[v] = spawned[v]
          BY <3>2, <4>1 DEF TypeOK
        <5> QED
          BY <2>1, <5>1 DEF Elements
      <4>2. CASE v = w
        <5>1. spawned[w] \in Seq(Thread) /\ spawned'[w] = Append(spawned[w], born + 1)
          BY <3>2 DEF TypeOK
        <5>2. Elements(Append(spawned[w], born + 1)) = Elements(spawned[w]) \cup {born + 1}
          BY <3>2, <5>1, AppendedElements
        <5>3. Elements(spawned[w])' = Elements(spawned[w]) \cup {born + 1}
          BY <5>1, <5>2 DEF Elements
        <5>4. state'[born + 1] = "Ready"
          <6>1. born + 1 > born /\ born + 1 # t
            BY <1>1, <1>2
          <6> QED
            BY <1>3, <3>2, <6>1 DEF StatesInv
        <5> QED
          BY <2>1, <4>2, <5>3, <5>4
      <4> QED
        BY <4>1, <4>2
    <3> QED
      BY <3>1, <3>2 DEF Effect
  <2>3. CASE v = w
    <3>1. phase'[w] = "run" => state'[t] = "Running"
      BY <1>1 DEF Effect
    <3>2. phase'[w] \in {"run", "return"}
      BY DEF Effect
    <3> QED
      BY <1>3, <1>5, <2>2, <2>3, <3>1, <3>2
  <2>4. CASE v # w
    <3>1. phase[v] \in {"lock", "run", "return"} => hand[v] \in Thread \ {t}
      BY <1>2, <2>4, Hands
    <3> QED
      BY <1>3, <2>2, <2>4, <3>1 DEF StatesInv
  <2> QED
    BY <2>3, <2>4
<1> QED
  <2> HIDE DEF t
  <2>1. Elements(queue)' = Elements(queue)
    BY <1>3
  <2> QED
    BY <1>4, <1>6, <1>7, <1>8, <1>9, <2>1 DEF StatesInv

\* A thread stays stuck as long as neither it nor a channel moves.
LEMMA StaysStuck ==
  ASSUME NEW t, at'[t] = at[t], pending' = pending
  PROVE  Stuck(t)' <=> Stuck(t)
BY DEF Stuck, WaitsForChannel, Entries, Ready

\* The instruction counts: a transfer, which may end the wait of a parked thread, is counted.
LEMMA RunParked ==
  ASSUME TypeOK, TypeOK', WorkersInv, PlacesInv, StatesInv, ParkedInv, NEW w \in Worker,
         phase[w] = "run", Effect(w, hand[w])
  PROVE  ParkedInv'
<1> DEFINE t == hand[w]
<1>1. t \in Thread /\ state[t] = "Running" /\ born \in 1 .. MaxThreads /\ MaxThreads \in Nat
  BY Runner, Constants
<1>2. t \notin Elements(queue) /\ \A v \in Worker \ {w} : hand[v] # t
  BY <1>1, Apart
<1>3. /\ seen' = seen /\ blocked_at' = blocked_at /\ hand' = hand /\ queue' = queue
      /\ \A u \in Thread \ {t} : state'[u] = state[u] /\ at'[u] = at[u]
      /\ \A v \in Worker \ {w} : phase'[v] = phase[v] /\ epoch'[v] = epoch[v]
      /\ progress <= progress' /\ (pending' # pending => progress < progress')
  BY DEF Effect
<1>4. /\ progress \in Nat /\ progress' \in Nat /\ seen \in Nat
      /\ blocked_at \in [Thread -> Nat] /\ epoch \in [Worker -> Nat] /\ epoch' \in [Worker -> Nat]
  BY DEF TypeOK
<1>5. seen' <= progress' /\ \A u \in Thread : blocked_at'[u] <= progress'
  BY <1>3, <1>4 DEF ParkedInv
<1>6. \/ phase'[w] = "run"
      \/ phase'[w] = "return" /\ epoch'[w] = progress'
  BY DEF Effect
<1>7. \A v \in Worker : epoch'[v] <= progress'
  <2>1. \A v \in Worker \ {w} : epoch'[v] <= progress'
    BY <1>3, <1>4 DEF ParkedInv
  <2>2. epoch'[w] <= progress'
    <3>1. CASE phase'[w] = "return" /\ epoch'[w] = progress'
      BY <1>4, <3>1
    <3>2. CASE phase'[w] = "run"
      <4>1. epoch'[w] = epoch[w]
        BY <3>2 DEF Effect
      <4> QED
        BY <1>3, <1>4, <4>1 DEF ParkedInv
    <3> QED
      BY <1>6, <3>1, <3>2
  <2> QED
    BY <2>1, <2>2
<1>8. \A u \in Thread \ {t} : Stuck(u) => Stuck(u)' \/ progress < progress'
  BY <1>3, StaysStuck
<1>9. ASSUME NEW u \in Elements(queue)', state'[u] = "Blocked"
      PROVE  ParkedSince(u, blocked_at[u])'
  <2>1. u \in Elements(queue)
    BY <1>3 DEF Elements
  <2>2. u \in Thread /\ u # t
    BY <1>1, <1>2, <2>1 DEF PlacesInv, Thread
  <2>3. Stuck(u) \/ blocked_at[u] < progress
    BY <1>3, <1>9, <2>1, <2>2 DEF ParkedInv, ParkedSince
  <2>4. blocked_at[u] <= progress /\ blocked_at[u] \in Nat
    BY <1>4, <2>2 DEF ParkedInv
  <2>5. Stuck(u)' \/ blocked_at[u] < progress'
    BY <1>3, <1>4, <1>8, <2>2, <2>3, <2>4
  <2> QED
    BY <1>3, <2>5 DEF ParkedSince
<1>10. ASSUME NEW v \in Worker, phase'[v] = "return", state'[hand'[v]] = "Blocked"
       PROVE  ParkedSince(hand[v], epoch[v])'
  <2>1. CASE v = w
    <3>1. state'[t] = "Blocked"
      BY <1>3, <1>10, <2>1
    <3>2. Stuck(hand[w])'
      BY <1>1, <1>10, <2>1, <3>1 DEF Effect
    <3> QED
      BY <2>1, <3>2 DEF ParkedSince
  <2>2. CASE v # w
    <3> DEFINE u == hand[v]
    <3>1. phase[v] = "return" /\ u \in Thread /\ u # t
      BY <1>2, <1>3, <1>10, <2>2, Hands
    <3>2. Stuck(u) \/ epoch[v] < progress
      BY <1>3, <1>10, <3>1 DEF ParkedInv, ParkedSince
    <3>3. epoch[v] <= progress /\ epoch[v] \in Nat /\ epoch'[v] = epoch[v]
      BY <1>3, <1>4, <2>2 DEF ParkedInv
    <3>4. Stuck(u) => Stuck(hand[v])' \/ progress < progress'
      <4>1. \A x \in Thread \ {t} : x = hand'[v] => (Stuck(x)' => Stuck(hand[v])')
        BY DEF Stuck, WaitsForChannel, Entries, Ready
      <4>2. hand'[v] = u
        BY <1>3
      <4> QED
        BY <1>8, <3>1, <4>1, <4>2
    <3>5. Stuck(hand[v])' \/ epoch[v] < progress'
      BY <1>3, <1>4, <3>2, <3>3, <3>4
    <3> QED
      BY <3>3, <3>5 DEF ParkedSince
  <2> QED
    BY <2>1, <2>2
<1> QED
  BY <1>5, <1>6, <1>7, <1>9, <1>10 DEF ParkedInv

\* While an instruction runs, no worker has reported a deadlock or found the pool empty.
LEMMA RunEnds ==
  ASSUME TypeOK, WorkersInv, PlacesInv, StatesInv, EndsInv, NEW w \in Worker, phase[w] = "run",
         Effect(w, hand[w])
  PROVE  EndsInv'
<1>1. Busy # {} /\ result[w] = "ok"
  BY Runner, Constants DEF Busy
<1>2. ~ shutdown /\ \A v \in Worker : result[v] # "deadlock"
  BY <1>1 DEF EndsInv
<1>3. ~ shutdown' /\ \A v \in Worker : result'[v] # "deadlock"
  BY <1>1, <1>2 DEF Effect
<1>4. ASSUME NEW v \in Worker, phase'[v] = "done", result'[v] = "ok"
      PROVE  FALSE
  <2>1. v # w
    BY <1>4 DEF Effect
  <2> QED
    BY <1>1, <1>2, <1>4, <2>1 DEF EndsInv, Effect
<1> QED
  BY <1>3, <1>4 DEF EndsInv

\* An instruction makes no queued thread runnable: the pool has not seen its count yet.
LEMMA RunSleeps ==
  ASSUME TypeOK, WorkersInv, PlacesInv, StatesInv, NobodySleepsOnWork, NEW w \in Worker,
         phase[w] = "run", Effect(w, hand[w])
  PROVE  NobodySleepsOnWork'
<1> DEFINE t == hand[w]
<1>1. t \in Thread /\ born \in 1 .. MaxThreads /\ MaxThreads \in Nat
  BY Runner, Constants
<1>2. t \notin Elements(queue)
  BY <1>1, Apart
<1>3. /\ seen' = seen /\ blocked_at' = blocked_at /\ queue' = queue
      /\ \A u \in Thread \ {t} : state'[u] = state[u]
      /\ \A v \in Worker \ {w} : phase'[v] = phase[v]
      /\ phase'[w] \in {"run", "return"}
  BY DEF Effect
<1> SUFFICES ASSUME NEW v \in Worker, phase'[v] = "wait",
                    NEW n \in DOMAIN queue', IsRunnable(queue[n])'
             PROVE  \E x \in Worker : phase'[x] = "notify"
  BY DEF NobodySleepsOnWork
<1>4. v # w /\ phase[v] = "wait"
  BY <1>3
<1>5. n \in DOMAIN queue /\ queue[n] \in Thread \ {t} /\ queue'[n] = queue[n]
  BY <1>1, <1>2, <1>3 DEF Elements, PlacesInv, Thread
<1>6. IsRunnable(queue[n])
  BY <1>3, <1>5 DEF IsRunnable
<1>7. \E x \in Worker : phase[x] = "notify"
  BY <1>4, <1>5, <1>6 DEF NobodySleepsOnWork
<1> QED
  BY <1>3, <1>7

\* A step within a quantum.
LEMMA RunStep ==
  ASSUME IInv, NEW w \in Worker, Run(w)
  PROVE  IInv'
<1>1. phase[w] = "run" /\ Effect(w, hand[w]) /\ TypeOK'
  BY RunEffect DEF IInv
<1> QED
  BY <1>1, RunWorkers, RunPlaces, RunStates, RunParked, RunEnds, RunSleeps DEF IInv

-----------------------------------------------------------------------------
(* Steps of workers with no guest thread in their hands.                     *)

\* Nobody has a thread in hand when running is 0.
LEMMA NobodyBusy ==
  ASSUME TypeOK, WorkersInv
  PROVE  running = 0 <=> Busy = {}
<1>1. IsFiniteSet(Worker) /\ Busy \subseteq Worker
  BY PoolConstants DEF Busy
<1>2. IsFiniteSet(Busy)
  BY <1>1, FS_Subset
<1>3. Cardinality(Busy) = 0 <=> Busy = {}
  BY <1>2, FS_EmptySet
<1> QED
  BY <1>3 DEF WorkersInv

\* Workers without a thread move, and threads that have exited may leave the queue.
LEMMA IdleStep ==
  ASSUME TypeOK, WorkersInv, PlacesInv, StatesInv, ParkedInv,
         UNCHANGED <<running, seen, threadVars, sharedVars, hand, count, spawned, epoch>>,
         queue' \in Seq(Thread), NoRepeats(queue)',
         Elements(queue)' \subseteq Elements(queue),
         \A t \in Elements(queue) : t \in Elements(queue)' \/ state[t] = "Exited",
         phase' \in [Worker -> {"pick", "wait", "lock", "run", "return", "notify", "done"}],
         result' \in [Worker -> {"ok", "fault", "deadlock"}], shutdown' \in BOOLEAN,
         \A v \in Worker : \/ phase'[v] = phase[v]
                           \/ /\ phase[v] \notin {"lock", "run", "return"}
                              /\ phase'[v] \notin {"lock", "run", "return"},
         \A v \in Worker : result'[v] # "ok" => phase'[v] \in {"return", "notify", "done"}
  PROVE  TypeOK' /\ WorkersInv' /\ PlacesInv' /\ StatesInv' /\ ParkedInv'
<1>1. /\ running' = running /\ seen' = seen /\ state' = state /\ blocked_at' = blocked_at /\ at' = at
      /\ retired' = retired /\ halted' = halted /\ holder' = holder /\ progress' = progress
      /\ born' = born /\ pending' = pending /\ hand' = hand /\ count' = count
      /\ spawned' = spawned /\ epoch' = epoch
  BY DEF threadVars, sharedVars
<1>2. TypeOK'
  BY <1>1 DEF TypeOK
<1>3. WorkersInv'
  <2>1. Busy' = Busy
    BY <1>1 DEF Busy
  <2>2. running' = Cardinality(Busy')
    BY <1>1, <2>1 DEF WorkersInv
  <2>3. ASSUME NEW v \in Worker
        PROVE  /\ hand'[v] # None <=> phase'[v] \in {"lock", "run", "return"}
               /\ phase'[v] = "run" <=> holder' = v
               /\ phase'[v] = "run" => count'[v] < DEFAULT_QUANTA
               /\ phase'[v] \notin {"run", "return"} => count'[v] = 0 /\ spawned'[v] = <<>>
    BY <1>1 DEF WorkersInv
  <2> QED
    BY <2>2, <2>3 DEF WorkersInv
<1>4. PlacesInv'
  <2>1. \A v \in Worker : Held(v)' = Held(v)
    BY <1>1 DEF Held, Elements
  <2>2. \A t \in Elements(queue) : t \in Elements(queue)' \/ t \in halted
    <3>1. \A t \in Elements(queue) : t \in Thread
      BY Constants DEF PlacesInv, Thread, TypeOK
    <3> QED
      BY <3>1 DEF StatesInv
  <2>3. /\ Elements(queue)' \subseteq 1 .. born
        /\ \A v \in Worker : Held(v)' \cap Elements(queue)' = {}
        /\ \A t \in 1 .. born :
             t \in halted \/ t \in Elements(queue)' \/ \E v \in Worker : t \in Held(v)'
    BY <2>1, <2>2 DEF PlacesInv
  <2>4. \A v \in Worker :
          /\ Held(v)' \subseteq 1 .. born
          /\ \A u \in Worker \ {v} : Held(u)' \cap Held(v)' = {}
    BY <2>1 DEF PlacesInv
  <2>5. \A v \in Worker :
          /\ NoRepeats(spawned[v])' /\ Elements(spawned[v])' = Elements(spawned[v])
          /\ hand[v] \notin Elements(spawned[v])
    BY <1>1 DEF PlacesInv, NoRepeats, Elements
  <2> QED
    BY <1>1, <2>3, <2>4, <2>5 DEF PlacesInv
<1>5. StatesInv'
  <2>1. \A v \in Worker : Elements(spawned[v])' = Elements(spawned[v])
    BY <1>1 DEF Elements
  <2>2. \A t \in halted : state[t] = "Exited" \/ \E v \in Worker : hand'[v] = t /\ phase'[v] = "return"
    BY <1>1 DEF StatesInv
  <2>3. \A t \in Elements(queue)' : state[t] # "Running"
    BY DEF StatesInv
  <2>4. ASSUME NEW v \in Worker
        PROVE  /\ phase'[v] \in {"lock", "run"} => state[hand[v]] = "Running"
               /\ phase'[v] = "return" => state[hand[v]] \in {"Running", "Blocked"}
               /\ \A t \in Elements(spawned[v]) : state[t] = "Ready"
    BY DEF StatesInv
  <2>5. /\ \A t \in Thread : t > born => state[t] = "Ready" /\ t \notin halted
        /\ \A t \in Thread : state[t] = "Exited" => t \in halted
    BY DEF StatesInv
  <2> QED
    BY <1>1, <2>1, <2>2, <2>3, <2>4, <2>5 DEF StatesInv
<1>6. ParkedInv'
  <2>1. \A t \in Thread : Stuck(t)' <=> Stuck(t)
    BY <1>1, StaysStuck
  <2>2. \A t \in Elements(queue)' : state'[t] = "Blocked" => ParkedSince(t, blocked_at[t])'
    <3> SUFFICES ASSUME NEW t \in Elements(queue)', state'[t] = "Blocked"
                 PROVE  ParkedSince(t, blocked_at[t])'
      OBVIOUS
    <3>1. t \in Elements(queue)
      OBVIOUS
    <3>2. t \in Thread
      BY <3>1, Constants DEF PlacesInv, Thread, TypeOK
    <3>3. Stuck(t) \/ blocked_at[t] < progress
      BY <1>1, <3>1 DEF ParkedInv, ParkedSince
    <3> QED
      BY <1>1, <2>1, <3>2, <3>3 DEF ParkedSince
  <2>3. ASSUME NEW v \in Worker, phase'[v] = "return", state'[hand'[v]] = "Blocked"
        PROVE  ParkedSince(hand[v], epoch[v])'
    <3>1. phase[v] = "return" /\ state[hand[v]] = "Blocked"
      BY <1>1, <2>3
    <3>2. Stuck(hand[v]) \/ epoch[v] < progress
      BY <3>1 DEF ParkedInv, ParkedSince
    <3>3. Stuck(hand[v])' <=> Stuck(hand[v])
      BY <1>1 DEF Stuck, WaitsForChannel, Entries, Ready
    <3> QED
      BY <1>1, <3>2, <3>3 DEF ParkedSince
  <2>4. \/ seen' = progress'
        \/ \E v \in Worker : phase'[v] = "run" \/ (phase'[v] = "return" /\ epoch'[v] = progress')
    <3>1. CASE seen = progress
      BY <1>1, <3>1
    <3>2. ASSUME NEW v \in Worker,
                 phase[v] = "run" \/ (phase[v] = "return" /\ epoch[v] = progress)
          PROVE  phase'[v] = "run" \/ (phase'[v] = "return" /\ epoch'[v] = progress')
      BY <1>1, <3>2
    <3> QED
      BY <3>1, <3>2 DEF ParkedInv
  <2>5. /\ seen' <= progress' /\ \A t \in Thread : blocked_at'[t] <= progress'
        /\ \A v \in Worker : epoch'[v] <= progress'
    BY <1>1 DEF ParkedInv
  <2> QED
    BY <2>2, <2>3, <2>4, <2>5 DEF ParkedInv
<1> QED
  BY <1>2, <1>3, <1>4, <1>5, <1>6

\* Condvar::wait returns without a notification.
LEMMA WakeStep ==
  ASSUME IInv, NEW w \in Worker, WakeSpuriously(w)
  PROVE  IInv'
<1>1. /\ phase[w] = "wait" /\ phase' = [phase EXCEPT ![w] = "pick"]
      /\ UNCHANGED <<poolVars, threadVars, sharedVars, hand, count, spawned, epoch, result>>
  BY DEF WakeSpuriously, GoTo
<1>2. /\ queue' = queue /\ seen' = seen /\ running' = running /\ shutdown' = shutdown
      /\ state' = state /\ blocked_at' = blocked_at /\ at' = at /\ halted' = halted
      /\ pending' = pending /\ born' = born /\ hand' = hand /\ result' = result
  BY <1>1 DEF poolVars, threadVars, sharedVars
<1>3. /\ TypeOK /\ WorkersInv /\ PlacesInv /\ StatesInv /\ ParkedInv /\ EndsInv /\ NobodySleepsOnWork
  BY DEF IInv
<1>4. /\ phase \in [Worker -> {"pick", "wait", "lock", "run", "return", "notify", "done"}]
      /\ result \in [Worker -> {"ok", "fault", "deadlock"}]
      /\ shutdown \in BOOLEAN /\ queue \in Seq(Thread)
  BY <1>3 DEF TypeOK
<1>5. /\ phase'[w] = "pick" /\ \A v \in Worker \ {w} : phase'[v] = phase[v]
      /\ phase' \in [Worker -> {"pick", "wait", "lock", "run", "return", "notify", "done"}]
  BY <1>1, <1>4
<1>6. \A v \in Worker : result'[v] # "ok" => phase'[v] \in {"return", "notify", "done"}
  BY <1>1, <1>2, <1>3, <1>5 DEF WorkersInv
<1>7. TypeOK' /\ WorkersInv' /\ PlacesInv' /\ StatesInv' /\ ParkedInv'
  <2>1. Elements(queue)' = Elements(queue) /\ NoRepeats(queue)'
    BY <1>2, <1>3 DEF PlacesInv, Elements, NoRepeats
  <2> QED
    BY <1>1, <1>2, <1>3, <1>4, <1>5, <1>6, <2>1, IdleStep
<1>8. EndsInv'
  <2>1. Busy' = Busy /\ Live' = Live
    BY <1>2 DEF Busy, Live
  <2>2. \A t \in Live : Stuck(t)' <=> Stuck(t)
    BY <1>2, StaysStuck
  <2> QED
    BY <1>2, <1>3, <1>5, <2>1, <2>2 DEF EndsInv
<1>9. NobodySleepsOnWork'
  BY <1>1, <1>2, <1>3, <1>5 DEF NobodySleepsOnWork, IsRunnable
<1> QED
  BY <1>7, <1>8, <1>9 DEF IInv

\* Condvar::notify_all, and the end of a worker with an error to report.
LEMMA NotifyStep ==
  ASSUME IInv, NEW w \in Worker, Notify(w)
  PROVE  IInv'
<1>1. /\ phase[w] = "notify" /\ phase' = [Woken(w) EXCEPT ![w] = IF result[w] = "ok" THEN "pick" ELSE "done"]
      /\ UNCHANGED <<poolVars, threadVars, sharedVars, hand, count, spawned, epoch, result>>
  BY DEF Notify
<1>2. /\ queue' = queue /\ seen' = seen /\ running' = running /\ shutdown' = shutdown
      /\ state' = state /\ blocked_at' = blocked_at /\ at' = at /\ halted' = halted
      /\ pending' = pending /\ born' = born /\ hand' = hand /\ result' = result
  BY <1>1 DEF poolVars, threadVars, sharedVars
<1>3. /\ TypeOK /\ WorkersInv /\ PlacesInv /\ StatesInv /\ ParkedInv /\ EndsInv /\ NobodySleepsOnWork
  BY DEF IInv
<1>4. /\ phase \in [Worker -> {"pick", "wait", "lock", "run", "return", "notify", "done"}]
      /\ result \in [Worker -> {"ok", "fault", "deadlock"}]
      /\ shutdown \in BOOLEAN /\ queue \in Seq(Thread)
  BY <1>3 DEF TypeOK
<1>5. /\ phase'[w] = IF result[w] = "ok" THEN "pick" ELSE "done"
      /\ \A v \in Worker \ {w} : phase'[v] = IF phase[v] = "wait" THEN "pick" ELSE phase[v]
      /\ phase' \in [Worker -> {"pick", "wait", "lock", "run", "return", "notify", "done"}]
  BY <1>1, <1>4 DEF Woken
<1>6. \A v \in Worker : result'[v] # "ok" => phase'[v] \in {"return", "notify", "done"}
  BY <1>1, <1>2, <1>3, <1>5 DEF WorkersInv
<1>7. TypeOK' /\ WorkersInv' /\ PlacesInv' /\ StatesInv' /\ ParkedInv'
  <2>1. Elements(queue)' = Elements(queue) /\ NoRepeats(queue)'
    BY <1>2, <1>3 DEF PlacesInv, Elements, NoRepeats
  <2>2. \A v \in Worker : \/ phase'[v] = phase[v]
                          \/ /\ phase[v] \notin {"lock", "run", "return"}
                             /\ phase'[v] \notin {"lock", "run", "return"}
    BY <1>1, <1>5
  <2> QED
    BY <1>1, <1>2, <1>3, <1>4, <1>5, <1>6, <2>1, <2>2, IdleStep
<1>8. EndsInv'
  <2>1. Busy' = Busy /\ Live' = Live
    BY <1>2 DEF Busy, Live
  <2>2. \A t \in Live : Stuck(t)' <=> Stuck(t)
    BY <1>2, StaysStuck
  <2>3. \A v \in Worker : phase'[v] = "done" /\ result'[v] = "ok" => phase[v] = "done"
    BY <1>2, <1>5
  <2> QED
    BY <1>2, <1>3, <2>1, <2>2, <2>3 DEF EndsInv
<1>9. NobodySleepsOnWork'
  <2>1. \A v \in Worker : phase'[v] # "wait"
    BY <1>5
  <2> QED
    BY <2>1 DEF NobodySleepsOnWork
<1> QED
  BY <1>7, <1>8, <1>9 DEF IInv

\* A worker with a thread in its hands takes the lock of the shared state.
LEMMA LockStep ==
  ASSUME IInv, NEW w \in Worker, Lock(w)
  PROVE  IInv'
<1>1. /\ phase[w] = "lock" /\ holder = None /\ holder' = w
      /\ phase' = [phase EXCEPT ![w] = "run"]
      /\ queue' = queue /\ seen' = seen /\ running' = running /\ shutdown' = shutdown
      /\ state' = state /\ blocked_at' = blocked_at /\ at' = at /\ retired' = retired
      /\ halted' = halted /\ progress' = progress /\ born' = born /\ pending' = pending
      /\ hand' = hand /\ count' = count /\ spawned' = spawned /\ epoch' = epoch
      /\ result' = result
  BY DEF Lock, GoTo, poolVars, threadVars
<1>2. /\ TypeOK /\ WorkersInv /\ PlacesInv /\ StatesInv /\ ParkedInv /\ EndsInv /\ NobodySleepsOnWork
  BY DEF IInv
<1>3. /\ phase'[w] = "run" /\ \A v \in Worker \ {w} : phase'[v] = phase[v]
      /\ phase' \in [Worker -> {"pick", "wait", "lock", "run", "return", "notify", "done"}]
  BY <1>1, <1>2 DEF TypeOK
<1>4. TypeOK'
  BY <1>1, <1>2, <1>3 DEF TypeOK
<1>5. WorkersInv'
  <2>1. Busy' = Busy
    BY <1>1 DEF Busy
  <2>2. running' = Cardinality(Busy')
    BY <1>1, <1>2, <2>1 DEF WorkersInv
  <2>3. count[w] = 0 /\ 0 < DEFAULT_QUANTA /\ None \notin Worker
    BY <1>1, <1>2, Constants DEF WorkersInv
  <2>4. ASSUME NEW v \in Worker
        PROVE  /\ hand'[v] # None <=> phase'[v] \in {"lock", "run", "return"}
               /\ phase'[v] = "run" <=> holder' = v
               /\ phase'[v] = "run" => count'[v] < DEFAULT_QUANTA
               /\ phase'[v] \notin {"run", "return"} => count'[v] = 0 /\ spawned'[v] = <<>>
               /\ result'[v] # "ok" => phase'[v] \in {"return", "notify", "done"}
    <3>1. CASE v = w
      BY <1>1, <1>2, <1>3, <2>3, <3>1 DEF WorkersInv
    <3>2. CASE v # w
      <4>1. phase'[v] = phase[v] /\ phase[v] # "run"
        BY <1>1, <1>2, <1>3, <2>3, <3>2 DEF WorkersInv
      <4> QED
        BY <1>1, <1>2, <3>2, <4>1 DEF WorkersInv
    <3> QED
      BY <3>1, <3>2
  <2> QED
    BY <2>2, <2>4 DEF WorkersInv
<1>6. PlacesInv'
  <2>1. \A v \in Worker : Held(v)' = Held(v)
    BY <1>1 DEF Held, Elements
  <2> QED
    BY <1>1, <1>2, <2>1 DEF PlacesInv, Elements, NoRepeats
<1>7. StatesInv'
  <2>1. \A v \in Worker : Elements(spawned[v])' = Elements(spawned[v])
    BY <1>1 DEF Elements
  <2>2. Elements(queue)' = Elements(queue)
    BY <1>1 DEF Elements
  <2>3. \A t \in halted : state[t] = "Exited" \/ \E v \in Worker : hand'[v] = t /\ phase'[v] = "return"
    <3>1. \A v \in Worker : phase[v] = "return" => phase'[v] = "return"
      BY <1>1, <1>3
    <3> QED
      BY <1>1, <1>2, <3>1 DEF StatesInv
  <2>4. ASSUME NEW v \in Worker
        PROVE  /\ phase'[v] \in {"lock", "run"} => state[hand[v]] = "Running"
               /\ phase'[v] = "return" => state[hand[v]] \in {"Running", "Blocked"}
               /\ \A t \in Elements(spawned[v]) : state[t] = "Ready"
    BY <1>1, <1>2, <1>3 DEF StatesInv
  <2>5. /\ \A t \in Thread : t > born => state[t] = "Ready" /\ t \notin halted
        /\ \A t \in Thread : state[t] = "Exited" => t \in halted
        /\ \A t \in Elements(queue) : state[t] # "Running"
    BY <1>2 DEF StatesInv
  <2> QED
    BY <1>1, <2>1, <2>2, <2>3, <2>4, <2>5 DEF StatesInv
<1>8. ParkedInv'
  <2>1. \A t \in Elements(queue)' : state'[t] = "Blocked" => ParkedSince(t, blocked_at[t])'
    <3>1. Elements(queue)' = Elements(queue)
      BY <1>1 DEF Elements
    <3> QED
      BY <1>1, <1>2, <3>1, StaysStuck DEF ParkedInv, ParkedSince
  <2>2. ASSUME NEW v \in Worker, phase'[v] = "return", state'[hand'[v]] = "Blocked"
        PROVE  ParkedSince(hand[v], epoch[v])'
    <3>1. phase[v] = "return" /\ state[hand[v]] = "Blocked"
      BY <1>1, <1>3, <2>2
    <3>2. Stuck(hand[v]) \/ epoch[v] < progress
      BY <1>2, <3>1 DEF ParkedInv, ParkedSince
    <3>3. Stuck(hand[v])' <=> Stuck(hand[v])
      BY <1>1 DEF Stuck, WaitsForChannel, Entries, Ready
    <3> QED
      BY <1>1, <3>2, <3>3 DEF ParkedSince
  <2>3. /\ seen' <= progress' /\ \A t \in Thread : blocked_at'[t] <= progress'
        /\ \A v \in Worker : epoch'[v] <= progress'
    BY <1>1, <1>2 DEF ParkedInv
  <2> QED
    BY <1>3, <2>1, <2>2, <2>3 DEF ParkedInv
<1>9. EndsInv'
  <2>1. Busy' = Busy /\ Live' = Live
    BY <1>1 DEF Busy, Live
  <2>2. \A t \in Live : Stuck(t)' <=> Stuck(t)
    BY <1>1, StaysStuck
  <2> QED
    BY <1>1, <1>2, <1>3, <2>1, <2>2 DEF EndsInv
<1>10. NobodySleepsOnWork'
  BY <1>1, <1>2, <1>3 DEF NobodySleepsOnWork, IsRunnable
<1> QED
  BY <1>4, <1>5, <1>6, <1>7, <1>8, <1>9, <1>10 DEF IInv

\* The pool is shut down: the worker is done.
LEMMA ShutdownStep ==
  ASSUME IInv, NEW w \in Worker, Pick(w), shutdown
  PROVE  IInv'
<1>1. /\ phase[w] = "pick" /\ shutdown /\ phase' = [phase EXCEPT ![w] = "done"]
      /\ queue' = queue /\ running' = running /\ shutdown' = shutdown /\ state' = state
      /\ hand' = hand /\ result' = result /\ seen' = seen /\ blocked_at' = blocked_at
      /\ at' = at /\ retired' = retired /\ halted' = halted /\ count' = count
      /\ spawned' = spawned /\ epoch' = epoch
      /\ UNCHANGED sharedVars
  BY DEF Pick, GoTo
<1>2. /\ TypeOK /\ WorkersInv /\ PlacesInv /\ StatesInv /\ ParkedInv /\ EndsInv /\ NobodySleepsOnWork
  BY DEF IInv
<1>3. /\ phase \in [Worker -> {"pick", "wait", "lock", "run", "return", "notify", "done"}]
      /\ result \in [Worker -> {"ok", "fault", "deadlock"}]
      /\ shutdown \in BOOLEAN /\ queue \in Seq(Thread)
  BY <1>2 DEF TypeOK
<1>4. /\ phase'[w] = "done" /\ \A v \in Worker \ {w} : phase'[v] = phase[v]
      /\ phase' \in [Worker -> {"pick", "wait", "lock", "run", "return", "notify", "done"}]
  BY <1>1, <1>3
<1>5. \A v \in Worker : result'[v] # "ok" => phase'[v] \in {"return", "notify", "done"}
  BY <1>1, <1>2, <1>4 DEF WorkersInv
<1>6. TypeOK' /\ WorkersInv' /\ PlacesInv' /\ StatesInv' /\ ParkedInv'
  <2>1. Elements(queue)' = Elements(queue) /\ NoRepeats(queue)'
    BY <1>1, <1>2 DEF PlacesInv, Elements, NoRepeats
  <2>2. \A v \in Worker : \/ phase'[v] = phase[v]
                          \/ /\ phase[v] \notin {"lock", "run", "return"}
                             /\ phase'[v] \notin {"lock", "run", "return"}
    BY <1>1, <1>4
  <2>3. UNCHANGED <<running, seen, threadVars, sharedVars, hand, count, spawned, epoch>>
    BY <1>1 DEF threadVars
  <2> QED
    BY <1>1, <1>2, <1>3, <1>4, <1>5, <2>1, <2>2, <2>3, IdleStep
<1>7. EndsInv'
  <2>1. Busy' = Busy /\ Live' = Live
    BY <1>1 DEF Busy, Live, sharedVars
  <2>2. \A t \in Live : Stuck(t)' <=> Stuck(t)
    BY <1>1, StaysStuck DEF sharedVars
  <2> QED
    BY <1>1, <1>2, <2>1, <2>2 DEF EndsInv
<1>8. NobodySleepsOnWork'
  BY <1>1, <1>2, <1>4 DEF NobodySleepsOnWork, IsRunnable
<1> QED
  BY <1>6, <1>7, <1>8 DEF IInv

\* While nobody has a thread in hand, a thread that is left is queued.
LEMMA LeftInQueue ==
  ASSUME TypeOK, WorkersInv, PlacesInv, Busy = {}, NEW t \in Live
  PROVE  t \in Elements(queue)
<1>1. \A w \in Worker : hand[w] = None
  BY DEF Busy
<1>2. \A w \in Worker : spawned[w] = <<>>
  BY <1>1, Hands DEF WorkersInv
<1>3. \A w \in Worker : Elements(spawned[w]) = {}
  <2>1. DOMAIN <<>> = {}
    OBVIOUS
  <2> QED
    BY <1>2, <2>1 DEF Elements
<1>4. \A w \in Worker : Held(w) = {}
  BY <1>1, <1>3 DEF Held
<1>5. t \in 1 .. born /\ t \notin halted
  BY DEF Live
<1> QED
  BY <1>4, <1>5 DEF PlacesInv

\* Nothing is runnable, and nobody has a thread in hand: whoever is left is stuck.
LEMMA NothingRunnable ==
  ASSUME TypeOK, WorkersInv, PlacesInv, StatesInv, ParkedInv, Busy = {}, NEW t \in Live,
         state[t] # "Exited" => ~ IsRunnable(t)
  PROVE  Stuck(t)
<1>1. t \in Elements(queue) /\ t \notin halted
  BY LeftInQueue DEF Live
<1>2. t \in Thread
  BY <1>1, Constants DEF PlacesInv, Thread, TypeOK
<1>3. state[t] \in {"Ready", "Running", "Blocked", "Exited"} /\ state[t] # "Exited" /\ state[t] # "Running"
  BY <1>1, <1>2 DEF StatesInv, TypeOK
<1>4. state[t] = "Blocked" /\ ~ (blocked_at[t] < seen)
  BY <1>3 DEF IsRunnable
<1>5. seen = progress
  <2>1. \A w \in Worker : phase[w] \notin {"run", "return"}
    BY DEF WorkersInv, Busy
  <2> QED
    BY <2>1 DEF ParkedInv
<1> QED
  BY <1>1, <1>4, <1>5 DEF ParkedInv, ParkedSince

\* The worker finds nothing to run: it is done, reports a deadlock, or waits.
LEMMA NothingStep ==
  ASSUME IInv, NEW w \in Worker, Pick(w), ~ shutdown, NothingToTake(w, Retained(queue))
  PROVE  IInv'
<1> DEFINE q == Retained(queue)
<1>1. /\ phase[w] = "pick" /\ queue' = q /\ running' = running /\ state' = state
      /\ hand' = hand /\ seen' = seen /\ blocked_at' = blocked_at
      /\ at' = at /\ retired' = retired /\ halted' = halted /\ count' = count
      /\ spawned' = spawned /\ epoch' = epoch
      /\ UNCHANGED sharedVars
      /\ \A k \in DOMAIN q : ~ IsRunnable(q[k])
  BY DEF Pick, NothingToTake
<1>2. /\ TypeOK /\ WorkersInv /\ PlacesInv /\ StatesInv /\ ParkedInv /\ EndsInv /\ NobodySleepsOnWork
  BY DEF IInv
<1>3. /\ phase \in [Worker -> {"pick", "wait", "lock", "run", "return", "notify", "done"}]
      /\ result \in [Worker -> {"ok", "fault", "deadlock"}]
      /\ shutdown \in BOOLEAN /\ queue \in Seq(Thread) /\ NoRepeats(queue)
      /\ running \in Nat
  BY <1>2 DEF TypeOK, PlacesInv
<1>4. /\ q \in Seq(Thread) /\ Elements(q) = {t \in Elements(queue) : state[t] # "Exited"}
      /\ NoRepeats(q)
  BY <1>3, RetainedElements
<1>5. /\ q \in Seq(Thread) /\ NoRepeats(queue)' /\ Elements(queue)' \subseteq Elements(queue)
      /\ \A t \in Elements(queue) : t \in Elements(queue)' \/ state[t] = "Exited"
  BY <1>1, <1>4 DEF NoRepeats, Elements
<1>6. \A t \in Elements(queue) : state[t] # "Exited" => ~ IsRunnable(t)
  BY <1>1, <1>4 DEF Elements
<1> HIDE DEF q
<1>7. \/ /\ running = 0 /\ q = <<>> /\ phase' = [phase EXCEPT ![w] = "done"]
         /\ shutdown' = shutdown /\ result' = result
      \/ /\ running = 0 /\ shutdown' = TRUE /\ result' = [result EXCEPT ![w] = "deadlock"]
         /\ phase' = [phase EXCEPT ![w] = "notify"]
      \/ /\ running > 0 /\ phase' = [phase EXCEPT ![w] = "wait"]
         /\ shutdown' = shutdown /\ result' = result
  BY DEF NothingToTake, GoTo, q
<1>8. /\ phase'[w] \in {"done", "notify", "wait"} /\ \A v \in Worker \ {w} : phase'[v] = phase[v]
      /\ phase' \in [Worker -> {"pick", "wait", "lock", "run", "return", "notify", "done"}]
      /\ result' \in [Worker -> {"ok", "fault", "deadlock"}] /\ shutdown' \in BOOLEAN
      /\ \A v \in Worker \ {w} : result'[v] = result[v]
      /\ phase'[w] = "wait" => result'[w] = result[w]
  BY <1>3, <1>7
<1>9. \A v \in Worker : result'[v] # "ok" => phase'[v] \in {"return", "notify", "done"}
  BY <1>1, <1>2, <1>8 DEF WorkersInv
<1>10. TypeOK' /\ WorkersInv' /\ PlacesInv' /\ StatesInv' /\ ParkedInv'
  <2>1. \A v \in Worker : \/ phase'[v] = phase[v]
                          \/ /\ phase[v] \notin {"lock", "run", "return"}
                             /\ phase'[v] \notin {"lock", "run", "return"}
    BY <1>1, <1>8
  <2>2. UNCHANGED <<running, seen, threadVars, sharedVars, hand, count, spawned, epoch>>
    BY <1>1 DEF threadVars
  <2>3. queue' \in Seq(Thread)
    BY <1>1, <1>4
  <2> QED
    BY <1>2, <1>5, <1>8, <1>9, <2>1, <2>2, <2>3, IdleStep
<1>11. EndsInv'
  <2>1. Busy' = Busy /\ Live' = Live
    BY <1>1 DEF Busy, Live, sharedVars
  <2>2. \A t \in Live : Stuck(t)' <=> Stuck(t)
    BY <1>1, StaysStuck DEF sharedVars
  <2>3. \A v \in Worker : result[v] # "deadlock"
    BY <1>2 DEF EndsInv
  <2>4. CASE running = 0 /\ q = <<>> /\ shutdown' = shutdown /\ result' = result
    <3>1. Busy = {} /\ queue' = <<>>
      BY <1>1, <1>2, <2>4, NobodyBusy
    <3> QED
      BY <2>1, <2>3, <2>4, <3>1 DEF EndsInv
  <2>5. CASE running = 0 /\ shutdown' = TRUE /\ result' = [result EXCEPT ![w] = "deadlock"]
    <3>1. Busy = {}
      BY <1>2, <2>5, NobodyBusy
    <3>2. \A t \in Live : Stuck(t)
      BY <1>2, <1>6, <3>1, LeftInQueue, NothingRunnable
    <3>3. result'[w] = "deadlock"
      BY <1>3, <2>5
    <3> QED
      BY <2>1, <2>2, <2>5, <3>1, <3>2, <3>3 DEF EndsInv
  <2>6. CASE running > 0 /\ shutdown' = shutdown /\ result' = result /\ phase'[w] = "wait"
    <3>1. Busy # {}
      BY <1>2, <1>3, <2>6, NobodyBusy
    <3> QED
      BY <1>2, <1>8, <2>1, <2>3, <2>6, <3>1 DEF EndsInv
  <2> QED
    BY <1>3, <1>7, <2>4, <2>5, <2>6
<1>12. NobodySleepsOnWork'
  <2>1. \A n \in DOMAIN queue' : ~ IsRunnable(queue[n])'
    BY <1>1 DEF IsRunnable, q
  <2> QED
    BY <2>1 DEF NobodySleepsOnWork
<1> QED
  BY <1>10, <1>11, <1>12 DEF IInv

\* The worker takes the first thread that is runnable.
LEMMA TakeStep ==
  ASSUME IInv, NEW w \in Worker, Pick(w), ~ shutdown, Take(w, Retained(queue))
  PROVE  IInv'
<1> DEFINE q == Retained(queue)
<1>1. /\ TypeOK /\ WorkersInv /\ PlacesInv /\ StatesInv /\ ParkedInv /\ EndsInv /\ NobodySleepsOnWork
  BY DEF IInv
<1>2. /\ phase \in [Worker -> {"pick", "wait", "lock", "run", "return", "notify", "done"}]
      /\ hand \in [Worker -> Thread \cup {None}]
      /\ state \in [Thread -> {"Ready", "Running", "Blocked", "Exited"}]
      /\ queue \in Seq(Thread) /\ NoRepeats(queue) /\ running \in Nat
  BY <1>1 DEF TypeOK, PlacesInv
<1>3. /\ q \in Seq(Thread) /\ Elements(q) = {t \in Elements(queue) : state[t] # "Exited"}
      /\ NoRepeats(q)
  BY <1>2, RetainedElements
<1> HIDE DEF q
<1>4. PICK k \in DOMAIN q :
        /\ IsRunnable(q[k])
        /\ queue' = SubSeq(q, 1, k - 1) \o SubSeq(q, k + 1, Len(q))
        /\ state' = [state EXCEPT ![q[k]] = "Running"]
        /\ hand' = [hand EXCEPT ![w] = q[k]]
        /\ running' = running + 1
        /\ phase' = [phase EXCEPT ![w] = "lock"]
        /\ shutdown' = shutdown /\ result' = result
  BY DEF Take, IsFirst, GoTo, q
<1>5. PICK t : t = q[k]
  OBVIOUS
<1>6. /\ phase[w] = "pick" /\ seen' = seen /\ blocked_at' = blocked_at /\ at' = at
      /\ retired' = retired /\ halted' = halted /\ count' = count
      /\ spawned' = spawned /\ epoch' = epoch /\ holder' = holder /\ progress' = progress
      /\ born' = born /\ pending' = pending
  BY DEF Pick, sharedVars
<1>7. t \in Elements(q) /\ t \in Elements(queue) /\ t \in Thread /\ t \in 1 .. born
  <2>1. t \in Elements(q)
    BY <1>4, <1>5 DEF Elements
  <2> QED
    BY <1>1, <1>3, <2>1, Constants DEF PlacesInv, Thread, TypeOK
<1>8. /\ queue' \in Seq(Thread) /\ NoRepeats(queue)'
      /\ Elements(queue)' = {u \in Elements(queue) : state[u] # "Exited" /\ u # t}
  <2>1. /\ queue' \in Seq(Thread) /\ NoRepeats(queue')
        /\ Elements(queue') = Elements(q) \ {t}
    BY <1>3, <1>4, <1>5, RemovedElements
  <2> QED
    BY <1>3, <2>1 DEF NoRepeats, Elements
<1>9. state[t] \in {"Ready", "Blocked"}
  BY <1>4, <1>5 DEF IsRunnable
<1>10. t # None /\ hand[w] = None /\ spawned[w] = <<>> /\ holder # w /\ count[w] = 0
       /\ result[w] = "ok"
  BY <1>1, <1>6, <1>7, Constants DEF WorkersInv
<1>11. /\ phase'[w] = "lock" /\ \A v \in Worker \ {w} : phase'[v] = phase[v]
       /\ hand'[w] = t /\ \A v \in Worker \ {w} : hand'[v] = hand[v]
       /\ state'[t] = "Running" /\ \A u \in Thread \ {t} : state'[u] = state[u]
  BY <1>2, <1>4, <1>5, <1>7
<1>12. \A v \in Worker : t \notin Held(v)
  BY <1>1, <1>7 DEF PlacesInv
<1>13. \A v \in Worker : hand[v] # t /\ t \notin Elements(spawned[v])
  BY <1>10, <1>12 DEF Held
<1>14. t \notin halted
  BY <1>1, <1>9, <1>13 DEF StatesInv
<1>15. Busy' = Busy \cup {w} /\ w \notin Busy /\ Busy \subseteq Worker
  BY <1>10, <1>11 DEF Busy
<1>16. /\ running' = Cardinality(Busy') /\ running' <= Cardinality(Worker)
       /\ Cardinality(Worker) \in Nat
  <2>1. IsFiniteSet(Worker) /\ IsFiniteSet(Busy) /\ Busy \cup {w} \subseteq Worker
    BY <1>15, PoolConstants, FS_Subset
  <2>2. Cardinality(Busy \cup {w}) = Cardinality(Busy) + 1
    BY <1>15, <2>1, FS_AddElement
  <2>3. Cardinality(Busy \cup {w}) <= Cardinality(Worker) /\ Cardinality(Worker) \in Nat
    BY <2>1, FS_Subset, FS_CardinalityType
  <2> QED
    BY <1>1, <1>4, <1>15, <2>2, <2>3 DEF WorkersInv
<1>17. TypeOK'
  <2>1. /\ phase' \in [Worker -> {"pick", "wait", "lock", "run", "return", "notify", "done"}]
        /\ hand' \in [Worker -> Thread \cup {None}]
        /\ state' \in [Thread -> {"Ready", "Running", "Blocked", "Exited"}]
    BY <1>2, <1>4, <1>5, <1>7
  <2>2. running' \in 0 .. Cardinality(Worker)
    BY <1>2, <1>4, <1>16
  <2> QED
    BY <1>1, <1>4, <1>6, <1>8, <2>1, <2>2 DEF TypeOK
<1>18. WorkersInv'
  <2>1. ASSUME NEW v \in Worker
        PROVE  /\ hand'[v] # None <=> phase'[v] \in {"lock", "run", "return"}
               /\ phase'[v] = "run" <=> holder' = v
               /\ phase'[v] = "run" => count'[v] < DEFAULT_QUANTA
               /\ phase'[v] \notin {"run", "return"} => count'[v] = 0 /\ spawned'[v] = <<>>
               /\ result'[v] # "ok" => phase'[v] \in {"return", "notify", "done"}
    <3>1. CASE v = w
      BY <1>4, <1>6, <1>10, <1>11, <3>1
    <3>2. CASE v # w
      BY <1>1, <1>4, <1>6, <1>11, <3>2 DEF WorkersInv
    <3> QED
      BY <3>1, <3>2
  <2> QED
    BY <1>16, <2>1 DEF WorkersInv
<1>19. /\ Held(w)' = {t} /\ \A v \in Worker \ {w} : Held(v)' = Held(v)
       /\ \A v \in Worker : Elements(spawned[v])' = Elements(spawned[v])
       /\ Held(w) = {}
  <2>1. \A v \in Worker : Elements(spawned[v])' = Elements(spawned[v])
    BY <1>6 DEF Elements
  <2>2. Elements(spawned[w]) = {}
    <3>1. DOMAIN <<>> = {}
      OBVIOUS
    <3> QED
      BY <1>10, <3>1 DEF Elements
  <2> QED
    BY <1>10, <1>11, <2>1, <2>2 DEF Held
<1>20. PlacesInv'
  <2>1. ASSUME NEW v \in Worker
        PROVE  /\ Held(v)' \subseteq 1 .. born /\ Held(v)' \cap Elements(queue)' = {}
               /\ NoRepeats(spawned[v])' /\ hand'[v] \notin Elements(spawned[v])
               /\ \A u \in Worker \ {v} : Held(u)' \cap Held(v)' = {}
    <3>1. /\ Held(v) \subseteq 1 .. born /\ Held(v) \cap Elements(queue) = {}
          /\ NoRepeats(spawned[v]) /\ hand[v] \notin Elements(spawned[v])
          /\ \A u \in Worker \ {v} : Held(u) \cap Held(v) = {}
      BY <1>1 DEF PlacesInv
    <3>2. NoRepeats(spawned[v])'
      BY <1>6, <3>1 DEF NoRepeats
    <3>3. hand'[v] \notin Elements(spawned[v])
      BY <1>11, <1>13, <3>1
    <3>4. Held(v)' \subseteq 1 .. born /\ Held(v)' \cap Elements(queue)' = {}
      BY <1>7, <1>8, <1>19, <3>1
    <3>5. \A u \in Worker \ {v} : Held(u)' \cap Held(v)' = {}
      BY <1>12, <1>19, <3>1
    <3> QED
      BY <3>2, <3>3, <3>4, <3>5
  <2>2. \A u \in 1 .. born :
          u \in halted \/ u \in Elements(queue)' \/ \E v \in Worker : u \in Held(v)'
    <3> SUFFICES ASSUME NEW u \in 1 .. born
                 PROVE  u \in halted \/ u \in Elements(queue)' \/ \E v \in Worker : u \in Held(v)'
      OBVIOUS
    <3>1. CASE u = t
      BY <1>19, <3>1
    <3>2. CASE u \in Elements(queue) /\ u # t
      <4>1. u \in Thread
        BY <1>1, Constants DEF Thread, TypeOK
      <4> QED
        BY <1>1, <1>8, <3>2, <4>1 DEF StatesInv
    <3>3. ASSUME NEW v \in Worker, u \in Held(v)
          PROVE  u \in Held(v)'
      BY <1>19, <3>3
    <3> QED
      BY <1>1, <3>1, <3>2, <3>3 DEF PlacesInv
  <2>3. Elements(queue)' \subseteq 1 .. born
    BY <1>1, <1>8 DEF PlacesInv
  <2> QED
    BY <1>6, <1>8, <1>19, <2>1, <2>2, <2>3 DEF PlacesInv
<1>21. StatesInv'
  <2>1. \A u \in Thread : u > born => state'[u] = "Ready" /\ u \notin halted
    <3>1. ~ (t > born)
      BY <1>1, <1>7, Constants DEF TypeOK
    <3> QED
      BY <1>1, <1>11, <3>1 DEF StatesInv
  <2>2. \A u \in Thread : state'[u] = "Exited" => u \in halted
    BY <1>1, <1>11 DEF StatesInv
  <2>3. \A u \in halted : state'[u] = "Exited" \/ \E v \in Worker : hand'[v] = u /\ phase'[v] = "return"
    <3> SUFFICES ASSUME NEW u \in halted
                 PROVE  state'[u] = "Exited" \/ \E v \in Worker : hand'[v] = u /\ phase'[v] = "return"
      OBVIOUS
    <3>1. u \in Thread /\ u # t
      BY <1>1, <1>14 DEF TypeOK
    <3>2. CASE state[u] = "Exited"
      BY <1>11, <3>1, <3>2
    <3>3. ASSUME NEW v \in Worker, hand[v] = u, phase[v] = "return"
          PROVE  hand'[v] = u /\ phase'[v] = "return"
      BY <1>6, <1>11, <3>3
    <3> QED
      BY <1>1, <3>2, <3>3 DEF StatesInv
  <2>4. \A u \in Elements(queue)' : state'[u] # "Running"
    <3>1. \A u \in Elements(queue) : u \in Thread
      BY <1>1, Constants DEF PlacesInv, Thread, TypeOK
    <3> QED
      BY <1>1, <1>8, <1>11, <3>1 DEF StatesInv
  <2>5. ASSUME NEW v \in Worker
        PROVE  /\ phase'[v] \in {"lock", "run"} => state'[hand'[v]] = "Running"
               /\ phase'[v] = "return" => state'[hand'[v]] \in {"Running", "Blocked"}
               /\ \A u \in Elements(spawned[v]) : state'[u] = "Ready"
    <3>1. \A u \in Elements(spawned[v]) : state'[u] = "Ready"
      <4>1. Elements(spawned[v]) \subseteq Thread
        BY <1>1, SpawnedThreads
      <4> QED
        BY <1>1, <1>11, <1>13, <4>1 DEF StatesInv
    <3>2. CASE v = w
      BY <1>11, <3>1, <3>2
    <3>3. CASE v # w
      <4>1. phase[v] \in {"lock", "run", "return"} => hand[v] \in Thread \ {t}
        BY <1>1, <1>13, Hands
      <4> QED
        BY <1>1, <1>11, <3>1, <3>3, <4>1 DEF StatesInv
    <3> QED
      BY <3>2, <3>3
  <2> QED
    BY <1>6, <1>19, <2>1, <2>2, <2>3, <2>4, <2>5 DEF StatesInv
<1>22. ParkedInv'
  <2>1. ASSUME NEW u \in Elements(queue)', state'[u] = "Blocked"
        PROVE  ParkedSince(u, blocked_at[u])'
    <3>1. u \in Elements(queue) /\ u # t
      BY <1>8
    <3>2. u \in Thread
      BY <1>1, <3>1, Constants DEF PlacesInv, Thread, TypeOK
    <3>3. state[u] = "Blocked"
      BY <1>11, <2>1, <3>1, <3>2
    <3>4. Stuck(u) \/ blocked_at[u] < progress
      BY <1>1, <3>1, <3>3 DEF ParkedInv, ParkedSince
    <3>5. Stuck(u)' <=> Stuck(u)
      BY <1>6, StaysStuck
    <3> QED
      BY <1>6, <3>4, <3>5 DEF ParkedSince
  <2>2. ASSUME NEW v \in Worker, phase'[v] = "return", state'[hand'[v]] = "Blocked"
        PROVE  ParkedSince(hand[v], epoch[v])'
    <3>1. v # w /\ phase[v] = "return" /\ hand'[v] = hand[v] /\ hand[v] \in Thread \ {t}
      BY <1>1, <1>11, <1>13, <2>2, Hands
    <3>2. state[hand[v]] = "Blocked"
      BY <1>11, <2>2, <3>1
    <3>3. Stuck(hand[v]) \/ epoch[v] < progress
      BY <1>1, <3>1, <3>2 DEF ParkedInv, ParkedSince
    <3>4. Stuck(hand[v])' <=> Stuck(hand[v])
      BY <1>6, <3>1 DEF Stuck, WaitsForChannel, Entries, Ready
    <3> QED
      BY <1>6, <3>3, <3>4 DEF ParkedSince
  <2>3. /\ seen' <= progress' /\ \A u \in Thread : blocked_at'[u] <= progress'
        /\ \A v \in Worker : epoch'[v] <= progress'
    BY <1>1, <1>6 DEF ParkedInv
  <2>4. \/ seen' = progress'
        \/ \E v \in Worker : phase'[v] = "run" \/ (phase'[v] = "return" /\ epoch'[v] = progress')
    <3>1. ASSUME NEW v \in Worker,
                 phase[v] = "run" \/ (phase[v] = "return" /\ epoch[v] = progress)
          PROVE  phase'[v] = "run" \/ (phase'[v] = "return" /\ epoch'[v] = progress')
      BY <1>6, <1>11, <3>1
    <3> QED
      BY <1>1, <1>6, <3>1 DEF ParkedInv
  <2> QED
    BY <2>1, <2>2, <2>3, <2>4 DEF ParkedInv
<1>23. EndsInv'
  <2>1. queue # <<>>
    <3>1. DOMAIN <<>> = {}
      OBVIOUS
    <3> QED
      BY <1>7, <3>1 DEF Elements
  <2>2. /\ ~ shutdown' /\ \A v \in Worker : result'[v] # "deadlock"
    BY <1>1, <1>4 DEF EndsInv
  <2>3. \A v \in Worker : ~ (phase'[v] = "done" /\ result'[v] = "ok")
    BY <1>1, <1>4, <1>11, <2>1 DEF EndsInv
  <2> QED
    BY <2>2, <2>3 DEF EndsInv
<1>24. NobodySleepsOnWork'
  <2> SUFFICES ASSUME NEW v \in Worker, phase'[v] = "wait",
                      NEW n \in DOMAIN queue', IsRunnable(queue[n])'
               PROVE  \E x \in Worker : phase'[x] = "notify"
    BY DEF NobodySleepsOnWork
  <2>1. v # w /\ phase[v] = "wait"
    BY <1>11
  <2>2. PICK u : u = queue'[n]
    OBVIOUS
  <2>3. u \in Elements(queue)'
    BY <2>2 DEF Elements
  <2>4. u \in Elements(queue) /\ u \in Thread \ {t}
    BY <1>1, <1>8, <2>3, Constants DEF PlacesInv, Thread, TypeOK
  <2>5. IsRunnable(u)
    BY <1>6, <1>11, <2>2, <2>4 DEF IsRunnable
  <2>6. \E x \in Worker : phase[x] = "notify"
    BY <1>1, <2>1, <2>4, <2>5 DEF NobodySleepsOnWork, Elements
  <2> QED
    BY <1>6, <1>11, <2>6
<1> QED
  BY <1>17, <1>18, <1>20, <1>21, <1>22, <1>23, <1>24 DEF IInv

\* The worker gives its thread back, with what it spawned behind it.
LEMMA ReturnStep ==
  ASSUME IInv, NEW w \in Worker, Return(w)
  PROVE  IInv'
<1>1. /\ TypeOK /\ WorkersInv /\ PlacesInv /\ StatesInv /\ ParkedInv /\ EndsInv /\ NobodySleepsOnWork
  BY DEF IInv
<1>2. /\ phase \in [Worker -> {"pick", "wait", "lock", "run", "return", "notify", "done"}]
      /\ hand \in [Worker -> Thread \cup {None}] /\ spawned \in [Worker -> Seq(Thread)]
      /\ state \in [Thread -> {"Ready", "Running", "Blocked", "Exited"}]
      /\ queue \in Seq(Thread) /\ NoRepeats(queue) /\ running \in Nat
      /\ seen \in Nat /\ progress \in Nat /\ epoch \in [Worker -> Nat]
      /\ blocked_at \in [Thread -> Nat] /\ count \in [Worker -> 0 .. DEFAULT_QUANTA]
  BY <1>1 DEF TypeOK, PlacesInv
<1>3. PICK t : t = hand[w]
  OBVIOUS
<1>4. /\ phase[w] = "return" /\ running' = running - 1
      /\ seen' = IF epoch[w] > seen THEN epoch[w] ELSE seen
      /\ state' = [state EXCEPT ![t] = IF t \in halted THEN "Exited"
                                       ELSE IF state[t] = "Running" THEN "Ready" ELSE state[t]]
      /\ blocked_at' = IF t \notin halted /\ state[t] = "Blocked"
                       THEN [blocked_at EXCEPT ![t] = epoch[w]] ELSE blocked_at
      /\ queue' = Append(queue, t) \o spawned[w]
      /\ hand' = [hand EXCEPT ![w] = None] /\ spawned' = [spawned EXCEPT ![w] = <<>>]
      /\ count' = [count EXCEPT ![w] = 0] /\ epoch' = [epoch EXCEPT ![w] = 0]
      /\ phase' = [phase EXCEPT ![w] = "notify"]
  BY <1>3 DEF Return, ReturnedAt, Returned, GoTo
<1>5. /\ shutdown' = shutdown /\ at' = at /\ retired' = retired /\ halted' = halted
      /\ result' = result /\ holder' = holder /\ progress' = progress /\ born' = born
      /\ pending' = pending
  BY DEF Return, sharedVars
<1>6. /\ t \in Thread /\ t # None /\ state[t] \in {"Running", "Blocked"} /\ holder # w
      /\ spawned[w] \in Seq(Thread)
  BY <1>1, <1>2, <1>3, <1>4, Hands, Constants DEF WorkersInv, StatesInv
<1>7. /\ t \in 1 .. born /\ t \notin Elements(queue) /\ t \notin Elements(spawned[w])
      /\ \A v \in Worker \ {w} : hand[v] # t /\ t \notin Elements(spawned[v])
  BY <1>1, <1>3, <1>6, Apart
<1>8. /\ phase'[w] = "notify" /\ \A v \in Worker \ {w} : phase'[v] = phase[v]
      /\ hand'[w] = None /\ \A v \in Worker \ {w} : hand'[v] = hand[v]
      /\ spawned'[w] = <<>> /\ \A v \in Worker \ {w} : spawned'[v] = spawned[v]
      /\ count'[w] = 0 /\ \A v \in Worker \ {w} : count'[v] = count[v]
      /\ epoch'[w] = 0 /\ \A v \in Worker \ {w} : epoch'[v] = epoch[v]
      /\ state'[t] = (IF t \in halted THEN "Exited"
                      ELSE IF state[t] = "Running" THEN "Ready" ELSE state[t])
      /\ \A u \in Thread \ {t} : state'[u] = state[u] /\ blocked_at'[u] = blocked_at[u]
  BY <1>2, <1>4, <1>6
<1>9. \A v \in Worker : Elements(spawned[v]) \subseteq Thread /\ None \notin Elements(spawned[v])
  BY <1>1, SpawnedThreads, Constants
<1>10. /\ Elements(spawned[w]) \subseteq Held(w) /\ t \in Held(w)
       /\ Held(w) = {t} \cup Elements(spawned[w]) /\ Held(w)' = {}
       /\ Elements(spawned[w])' = {}
  <2>1. DOMAIN <<>> = {}
    OBVIOUS
  <2>2. Elements(spawned[w])' = {}
    BY <1>8, <2>1 DEF Elements
  <2> QED
    BY <1>3, <1>6, <1>8, <1>9, <2>2 DEF Held
<1>11. \A v \in Worker \ {w} : /\ Held(v)' = Held(v) /\ Elements(spawned[v])' = Elements(spawned[v])
                               /\ NoRepeats(spawned[v])' <=> NoRepeats(spawned[v])
  BY <1>8 DEF Held, Elements, NoRepeats
<1>12. /\ queue' \in Seq(Thread) /\ NoRepeats(queue)'
       /\ Elements(queue)' = Elements(queue) \cup {t} \cup Elements(spawned[w])
  <2> DEFINE a == Append(queue, t)
  <2>1. a \in Seq(Thread) /\ Elements(a) = Elements(queue) \cup {t} /\ NoRepeats(a)
    BY <1>2, <1>6, <1>7, AppendedElements
  <2> HIDE DEF a
  <2>2. NoRepeats(spawned[w]) /\ Elements(a) \cap Elements(spawned[w]) = {}
    BY <1>1, <1>7, <1>10, <2>1 DEF PlacesInv
  <2>3. /\ a \o spawned[w] \in Seq(Thread) /\ NoRepeats(a \o spawned[w])
        /\ Elements(a \o spawned[w]) = Elements(a) \cup Elements(spawned[w])
    BY <1>6, <2>1, <2>2, JoinedElements
  <2>4. queue' = a \o spawned[w]
    BY <1>4 DEF a
  <2>5. queue' \in Seq(Thread) /\ NoRepeats(queue') /\ Elements(queue') = Elements(a) \cup Elements(spawned[w])
    BY <2>3, <2>4
  <2> QED
    BY <2>1, <2>5 DEF NoRepeats, Elements
<1>13. Busy' = Busy \ {w} /\ w \in Busy /\ Busy \subseteq Worker
  BY <1>3, <1>6, <1>8 DEF Busy
<1>14. /\ running' = Cardinality(Busy') /\ running' \in 0 .. Cardinality(Worker)
  <2>1. IsFiniteSet(Worker) /\ IsFiniteSet(Busy) /\ Busy \ {w} \subseteq Worker
    BY <1>13, PoolConstants, FS_Subset
  <2>2. Cardinality(Busy \ {w}) = Cardinality(Busy) - 1
    BY <1>13, <2>1, FS_RemoveElement
  <2>3. /\ Cardinality(Busy \ {w}) <= Cardinality(Worker) /\ Cardinality(Worker) \in Nat
        /\ Cardinality(Busy \ {w}) \in Nat
    BY <2>1, FS_Subset, FS_CardinalityType
  <2> QED
    BY <1>1, <1>4, <1>13, <2>2, <2>3 DEF WorkersInv
<1>15. TypeOK'
  <2>1. /\ phase' \in [Worker -> {"pick", "wait", "lock", "run", "return", "notify", "done"}]
        /\ hand' \in [Worker -> Thread \cup {None}] /\ spawned' \in [Worker -> Seq(Thread)]
        /\ epoch' \in [Worker -> Nat] /\ seen' \in Nat /\ blocked_at' \in [Thread -> Nat]
    <3>1. <<>> \in Seq(Thread)
      BY EmptySeq
    <3> QED
      BY <1>2, <1>4, <1>6, <3>1
  <2>2. state' \in [Thread -> {"Ready", "Running", "Blocked", "Exited"}]
    <3>1. state[t] \in {"Ready", "Running", "Blocked", "Exited"}
      BY <1>2, <1>6
    <3> QED
      BY <1>2, <1>4, <3>1
  <2>3. count' \in [Worker -> 0 .. DEFAULT_QUANTA]
    BY <1>2, <1>4, Constants
  <2> QED
    BY <1>1, <1>5, <1>12, <1>14, <2>1, <2>2, <2>3 DEF TypeOK
<1>16. WorkersInv'
  <2>1. ASSUME NEW v \in Worker
        PROVE  /\ hand'[v] # None <=> phase'[v] \in {"lock", "run", "return"}
               /\ phase'[v] = "run" <=> holder' = v
               /\ phase'[v] = "run" => count'[v] < DEFAULT_QUANTA
               /\ phase'[v] \notin {"run", "return"} => count'[v] = 0 /\ spawned'[v] = <<>>
               /\ result'[v] # "ok" => phase'[v] \in {"return", "notify", "done"}
    <3>1. CASE v = w
      BY <1>5, <1>6, <1>8, <3>1
    <3>2. CASE v # w
      BY <1>1, <1>5, <1>8, <3>2 DEF WorkersInv
    <3> QED
      BY <3>1, <3>2
  <2> QED
    BY <1>14, <2>1 DEF WorkersInv
<1>17. PlacesInv'
  <2>1. ASSUME NEW v \in Worker
        PROVE  /\ Held(v)' \subseteq 1 .. born /\ Held(v)' \cap Elements(queue)' = {}
               /\ NoRepeats(spawned[v])' /\ hand'[v] \notin Elements(spawned[v])'
               /\ \A u \in Worker \ {v} : Held(u)' \cap Held(v)' = {}
    <3>1. CASE v = w
      <4>1. NoRepeats(spawned[w])'
        <5>1. DOMAIN <<>> = {}
          OBVIOUS
        <5> QED
          BY <1>8, <5>1 DEF NoRepeats
      <4> QED
        BY <1>10, <3>1, <4>1
    <3>2. CASE v # w
      <4>1. /\ Held(v) \subseteq 1 .. born /\ Held(v) \cap Elements(queue) = {}
            /\ NoRepeats(spawned[v]) /\ hand[v] \notin Elements(spawned[v])
            /\ \A u \in Worker \ {v} : Held(u) \cap Held(v) = {}
        BY <1>1 DEF PlacesInv
      <4>2. Held(v) \cap Held(w) = {}
        BY <3>2, <4>1
      <4>3. Held(v)' \cap Elements(queue)' = {}
        BY <1>10, <1>11, <1>12, <3>2, <4>1, <4>2
      <4>4. \A u \in Worker \ {v} : Held(u)' \cap Held(v)' = {}
        BY <1>10, <1>11, <3>2, <4>1
      <4>5. /\ Held(v)' \subseteq 1 .. born /\ NoRepeats(spawned[v])'
            /\ hand'[v] \notin Elements(spawned[v])'
        BY <1>8, <1>11, <3>2, <4>1
      <4> QED
        BY <4>3, <4>4, <4>5
    <3> QED
      BY <3>1, <3>2
  <2>2. \A u \in 1 .. born :
          u \in halted \/ u \in Elements(queue)' \/ \E v \in Worker : u \in Held(v)'
    <3> SUFFICES ASSUME NEW u \in 1 .. born, u \notin halted, u \notin Elements(queue)
                 PROVE  u \in Elements(queue)' \/ \E v \in Worker : u \in Held(v)'
      BY <1>12
    <3>1. PICK v \in Worker : u \in Held(v)
      BY <1>1 DEF PlacesInv
    <3>2. CASE v = w
      BY <1>10, <1>12, <3>1, <3>2
    <3>3. CASE v # w
      BY <1>11, <3>1, <3>3
    <3> QED
      BY <3>2, <3>3
  <2>3. Elements(queue)' \subseteq 1 .. born
    <3>1. Held(w) \subseteq 1 .. born /\ Elements(queue) \subseteq 1 .. born
      BY <1>1 DEF PlacesInv
    <3> QED
      BY <1>10, <1>12, <3>1
  <2> QED
    BY <1>5, <1>12, <2>1, <2>2, <2>3 DEF PlacesInv
<1>18. StatesInv'
  <2>1. \A u \in Thread : u > born => state'[u] = "Ready" /\ u \notin halted
    <3>1. ~ (t > born)
      BY <1>1, <1>7, Constants DEF TypeOK
    <3> QED
      BY <1>1, <1>8, <3>1 DEF StatesInv
  <2>2. \A u \in Thread : state'[u] = "Exited" => u \in halted
    <3>1. state'[t] = "Exited" => t \in halted
      BY <1>6, <1>8
    <3> QED
      BY <1>1, <1>8, <3>1 DEF StatesInv
  <2>3. \A u \in halted : state'[u] = "Exited" \/ \E v \in Worker : hand'[v] = u /\ phase'[v] = "return"
    <3> SUFFICES ASSUME NEW u \in halted
                 PROVE  state'[u] = "Exited" \/ \E v \in Worker : hand'[v] = u /\ phase'[v] = "return"
      OBVIOUS
    <3>1. CASE u = t
      BY <1>8, <3>1
    <3>2. CASE u # t
      <4>1. u \in Thread
        BY <1>1 DEF TypeOK
      <4>2. CASE state[u] = "Exited"
        BY <1>8, <3>2, <4>1, <4>2
      <4>3. ASSUME NEW v \in Worker, hand[v] = u, phase[v] = "return"
            PROVE  hand'[v] = u /\ phase'[v] = "return"
        BY <1>3, <1>8, <3>2, <4>3
      <4> QED
        BY <1>1, <4>2, <4>3 DEF StatesInv
    <3> QED
      BY <3>1, <3>2
  <2>4. \A u \in Elements(queue)' : state'[u] # "Running"
    <3>1. ASSUME NEW u \in Elements(queue)
          PROVE  state'[u] # "Running"
      <4>1. u \in Thread /\ u # t
        BY <1>1, <1>7, Constants DEF PlacesInv, Thread, TypeOK
      <4> QED
        BY <1>1, <1>8, <4>1 DEF StatesInv
    <3>2. state'[t] # "Running"
      BY <1>6, <1>8
    <3>3. ASSUME NEW u \in Elements(spawned[w])
          PROVE  state'[u] # "Running"
      BY <1>1, <1>7, <1>8, <1>9 DEF StatesInv
    <3> QED
      BY <1>12, <3>1, <3>2, <3>3
  <2>5. ASSUME NEW v \in Worker
        PROVE  /\ phase'[v] \in {"lock", "run"} => state'[hand'[v]] = "Running"
               /\ phase'[v] = "return" => state'[hand'[v]] \in {"Running", "Blocked"}
               /\ \A u \in Elements(spawned[v])' : state'[u] = "Ready"
    <3>1. CASE v = w
      BY <1>8, <1>10, <3>1
    <3>2. CASE v # w
      <4>1. phase[v] \in {"lock", "run", "return"} => hand[v] \in Thread \ {t}
        BY <1>1, <1>7, <3>2, Hands
      <4>2. \A u \in Elements(spawned[v]) : state'[u] = "Ready"
        BY <1>1, <1>7, <1>8, <1>9, <3>2 DEF StatesInv
      <4> QED
        BY <1>1, <1>8, <1>11, <3>2, <4>1, <4>2 DEF StatesInv
    <3> QED
      BY <3>1, <3>2
  <2> QED
    BY <1>5, <2>1, <2>2, <2>3, <2>4, <2>5 DEF StatesInv
<1>19. ParkedInv'
  <2>1. ASSUME NEW u \in Elements(queue)', state'[u] = "Blocked"
        PROVE  ParkedSince(u, blocked_at[u])'
    <3>1. Stuck(u)' <=> Stuck(u)
      BY <1>5, StaysStuck
    <3>2. CASE u \in Elements(queue)
      <4>1. u \in Thread /\ u # t
        BY <1>1, <1>7, <3>2, Constants DEF PlacesInv, Thread, TypeOK
      <4>2. Stuck(u) \/ blocked_at[u] < progress
        BY <1>1, <1>8, <2>1, <3>2, <4>1 DEF ParkedInv, ParkedSince
      <4> QED
        BY <1>5, <1>8, <3>1, <4>1, <4>2 DEF ParkedSince
    <3>3. CASE u = t
      <4>1. t \notin halted /\ state[t] = "Blocked"
        BY <1>6, <1>8, <2>1, <3>3
      <4>2. blocked_at'[t] = epoch[w]
        BY <1>2, <1>4, <1>6, <4>1
      <4>3. Stuck(t) \/ epoch[w] < progress
        BY <1>1, <1>3, <1>4, <4>1 DEF ParkedInv, ParkedSince
      <4> QED
        BY <1>5, <3>1, <3>3, <4>2, <4>3 DEF ParkedSince
    <3>4. CASE u \in Elements(spawned[w])
      <4>1. state'[u] = "Ready"
        BY <1>1, <1>7, <1>8, <1>9, <3>4 DEF StatesInv
      <4> QED
        BY <2>1, <4>1
    <3> QED
      BY <1>12, <3>2, <3>3, <3>4
  <2>2. ASSUME NEW v \in Worker, phase'[v] = "return", state'[hand'[v]] = "Blocked"
        PROVE  ParkedSince(hand[v], epoch[v])'
    <3>1. /\ v # w /\ phase[v] = "return" /\ hand'[v] = hand[v] /\ hand[v] \in Thread \ {t}
          /\ epoch'[v] = epoch[v]
      BY <1>1, <1>7, <1>8, <2>2, Hands
    <3>2. state[hand[v]] = "Blocked"
      BY <1>8, <2>2, <3>1
    <3>3. Stuck(hand[v]) \/ epoch[v] < progress
      BY <1>1, <3>1, <3>2 DEF ParkedInv, ParkedSince
    <3>4. Stuck(hand[v])' <=> Stuck(hand[v])
      BY <1>5, <3>1 DEF Stuck, WaitsForChannel, Entries, Ready
    <3> QED
      BY <1>5, <3>1, <3>3, <3>4 DEF ParkedSince
  <2>3. /\ seen <= progress /\ epoch[w] <= progress /\ epoch[w] \in Nat
        /\ \A u \in Thread : blocked_at[u] <= progress
        /\ \A v \in Worker : epoch[v] <= progress
    BY <1>1, <1>2 DEF ParkedInv
  <2>4. seen' <= progress'
    BY <1>4, <1>5, <2>3
  <2>5. \A u \in Thread : blocked_at'[u] <= progress'
    <3>1. blocked_at'[t] \in {blocked_at[t], epoch[w]}
      BY <1>2, <1>4, <1>6
    <3> QED
      BY <1>5, <1>6, <1>8, <2>3, <3>1
  <2>6. \A v \in Worker : epoch'[v] <= progress'
    <3>1. 0 <= progress
      BY <1>2
    <3>2. \A v \in Worker : epoch'[v] = 0 \/ epoch'[v] = epoch[v]
      BY <1>8
    <3> QED
      BY <1>5, <2>3, <3>1, <3>2
  <2>7. \/ seen' = progress'
        \/ \E v \in Worker : phase'[v] = "run" \/ (phase'[v] = "return" /\ epoch'[v] = progress')
    <3>1. CASE seen = progress \/ epoch[w] = progress
      BY <1>2, <1>4, <1>5, <2>3, <3>1
    <3>2. ASSUME NEW v \in Worker, v # w,
                 phase[v] = "run" \/ (phase[v] = "return" /\ epoch[v] = progress)
          PROVE  phase'[v] = "run" \/ (phase'[v] = "return" /\ epoch'[v] = progress')
      BY <1>5, <1>8, <3>2
    <3> QED
      BY <1>1, <1>4, <3>1, <3>2 DEF ParkedInv
  <2> QED
    BY <2>1, <2>2, <2>4, <2>5, <2>6, <2>7 DEF ParkedInv
<1>20. EndsInv'
  <2>1. Busy # {}
    BY <1>13
  <2>2. ~ shutdown /\ \A v \in Worker : result[v] # "deadlock"
    BY <1>1, <2>1 DEF EndsInv
  <2>3. \A v \in Worker : ~ (phase'[v] = "done" /\ result'[v] = "ok")
    BY <1>1, <1>5, <1>8, <2>1, <2>2 DEF EndsInv
  <2> QED
    BY <1>5, <2>2, <2>3 DEF EndsInv
<1>21. NobodySleepsOnWork'
  BY <1>8 DEF NobodySleepsOnWork
<1> QED
  BY <1>15, <1>16, <1>17, <1>18, <1>19, <1>20, <1>21 DEF IInv

-----------------------------------------------------------------------------
(* The invariant.                                                            *)

\* The pool before run: every thread is queued, no worker has one.
LEMMA InitInv ==
  Init => IInv
<1> SUFFICES ASSUME Init
             PROVE  IInv
  OBVIOUS
<1>1. /\ queue = [t \in 1 .. Initial |-> t] /\ running = 0 /\ seen = 0 /\ shutdown = FALSE
      /\ state = [t \in Thread |-> "Ready"] /\ blocked_at = [t \in Thread |-> 0]
      /\ at = [t \in Thread |-> None] /\ retired = [t \in Thread |-> 0] /\ halted = {}
      /\ holder = None /\ progress = 0 /\ born = Initial /\ pending = [c \in Chan |-> None]
      /\ phase = [w \in Worker |-> "pick"] /\ hand = [w \in Worker |-> None]
      /\ count = [w \in Worker |-> 0] /\ spawned = [w \in Worker |-> <<>>]
      /\ epoch = [w \in Worker |-> 0] /\ result = [w \in Worker |-> "ok"]
  BY DEF Init
<1>2. 1 .. Initial \subseteq Thread
  BY Constants DEF Thread
<1>3. queue \in Seq(Thread) /\ DOMAIN queue = 1 .. Initial
  <2>1. \A t \in 1 .. Initial : queue[t] \in Thread
    BY <1>1, <1>2
  <2>2. queue \in Seq(Thread)
    BY <1>1, <2>1, Constants, IsASeq
  <2> QED
    BY <1>1, <2>2
<1>4. Elements(queue) = 1 .. Initial /\ NoRepeats(queue)
  BY <1>1, <1>3 DEF Elements, NoRepeats
<1>5. Busy = {} /\ Cardinality(Busy) = 0 /\ Cardinality(Worker) \in Nat
  <2>1. Busy = {}
    BY <1>1 DEF Busy
  <2> QED
    BY <2>1, PoolConstants, FS_EmptySet, FS_CardinalityType
<1>6. TypeOK
  <2>1. <<>> \in Seq(Thread)
    BY EmptySeq
  <2>2. /\ state \in [Thread -> {"Ready", "Running", "Blocked", "Exited"}]
        /\ phase \in [Worker -> {"pick", "wait", "lock", "run", "return", "notify", "done"}]
        /\ result \in [Worker -> {"ok", "fault", "deadlock"}]
        /\ hand \in [Worker -> Thread \cup {None}] /\ spawned \in [Worker -> Seq(Thread)]
    BY <1>1, <2>1
  <2>3. /\ retired \in [Thread -> 0 .. MaxInstr] /\ count \in [Worker -> 0 .. DEFAULT_QUANTA]
        /\ epoch \in [Worker -> Nat] /\ blocked_at \in [Thread -> Nat]
        /\ running \in 0 .. Cardinality(Worker) /\ born \in Initial .. MaxThreads
    BY <1>1, <1>5, Constants
  <2> QED
    BY <1>1, <1>3, <2>2, <2>3 DEF TypeOK
<1>7. WorkersInv
  BY <1>1, <1>5, Constants DEF WorkersInv
<1>8. \A w \in Worker : Elements(spawned[w]) = {} /\ NoRepeats(spawned[w]) /\ Held(w) = {}
  <2>1. DOMAIN <<>> = {}
    OBVIOUS
  <2>2. \A w \in Worker : spawned[w] = <<>> /\ hand[w] = None
    BY <1>1
  <2> QED
    BY <2>1, <2>2 DEF Elements, NoRepeats, Held
<1>9. PlacesInv
  BY <1>1, <1>4, <1>8 DEF PlacesInv
<1>10. StatesInv
  BY <1>1, <1>2, <1>4, <1>8 DEF StatesInv
<1>11. ParkedInv
  <2>1. \A t \in Elements(queue) : state[t] = "Ready"
    BY <1>1, <1>2, <1>4
  <2>2. \A w \in Worker : phase[w] = "pick" /\ epoch[w] = 0
    BY <1>1
  <2>3. \A t \in Thread : blocked_at[t] = 0
    BY <1>1
  <2>4. seen = 0 /\ progress = 0
    BY <1>1
  <2> QED
    BY <2>1, <2>2, <2>3, <2>4 DEF ParkedInv
<1>12. EndsInv
  BY <1>1 DEF EndsInv
<1>13. NobodySleepsOnWork
  BY <1>1 DEF NobodySleepsOnWork
<1> QED
  BY <1>6, <1>7, <1>9, <1>10, <1>11, <1>12, <1>13 DEF IInv

\* A step that changes nothing.
LEMMA StutterStep ==
  ASSUME IInv, UNCHANGED vars
  PROVE  IInv'
<1>1. /\ TypeOK /\ WorkersInv /\ PlacesInv /\ StatesInv /\ ParkedInv /\ EndsInv /\ NobodySleepsOnWork
  BY DEF IInv
<1>2. /\ queue' = queue /\ running' = running /\ seen' = seen /\ shutdown' = shutdown
      /\ state' = state /\ blocked_at' = blocked_at /\ at' = at /\ retired' = retired
      /\ halted' = halted /\ holder' = holder /\ progress' = progress /\ born' = born
      /\ pending' = pending /\ phase' = phase /\ hand' = hand /\ count' = count
      /\ spawned' = spawned /\ epoch' = epoch /\ result' = result
  BY DEF vars, poolVars, threadVars, sharedVars, workerVars
<1>3. TypeOK' /\ WorkersInv' /\ PlacesInv' /\ StatesInv' /\ ParkedInv'
  <2>1. /\ Elements(queue)' = Elements(queue) /\ NoRepeats(queue)'
        /\ queue' \in Seq(Thread) /\ shutdown' \in BOOLEAN
        /\ phase' \in [Worker -> {"pick", "wait", "lock", "run", "return", "notify", "done"}]
        /\ result' \in [Worker -> {"ok", "fault", "deadlock"}]
    BY <1>1, <1>2 DEF PlacesInv, Elements, NoRepeats, TypeOK
  <2>2. \A v \in Worker : result'[v] # "ok" => phase'[v] \in {"return", "notify", "done"}
    BY <1>1, <1>2 DEF WorkersInv
  <2>3. UNCHANGED <<running, seen, threadVars, sharedVars, hand, count, spawned, epoch>>
    BY <1>2 DEF threadVars, sharedVars
  <2> QED
    BY <1>1, <1>2, <2>1, <2>2, <2>3, IdleStep
<1>4. EndsInv'
  <2>1. Busy' = Busy /\ Live' = Live
    BY <1>2 DEF Busy, Live
  <2>2. \A t \in Live : Stuck(t)' <=> Stuck(t)
    BY <1>2, StaysStuck
  <2> QED
    BY <1>1, <1>2, <2>1, <2>2 DEF EndsInv
<1>5. NobodySleepsOnWork'
  BY <1>1, <1>2 DEF NobodySleepsOnWork, IsRunnable
<1> QED
  BY <1>3, <1>4, <1>5 DEF IInv

\* Every step keeps the invariant.
LEMMA NextInv ==
  IInv /\ [Next]_vars => IInv'
<1> SUFFICES ASSUME IInv, [Next]_vars
             PROVE  IInv'
  OBVIOUS
<1>1. CASE Joined
  BY <1>1, StutterStep DEF Joined
<1>2. ASSUME NEW w \in Worker, Pick(w)
      PROVE  IInv'
  <2>1. CASE shutdown
    BY <1>2, <2>1, ShutdownStep
  <2>2. CASE ~ shutdown /\ Take(w, Retained(queue))
    BY <1>2, <2>2, TakeStep
  <2>3. CASE ~ shutdown /\ NothingToTake(w, Retained(queue))
    BY <1>2, <2>3, NothingStep
  <2> QED
    BY <1>2, <2>1, <2>2, <2>3 DEF Pick
<1>3. ASSUME NEW w \in Worker, Lock(w)
      PROVE  IInv'
  BY <1>3, LockStep
<1>4. ASSUME NEW w \in Worker, Run(w)
      PROVE  IInv'
  BY <1>4, RunStep
<1>5. ASSUME NEW w \in Worker, Return(w)
      PROVE  IInv'
  BY <1>5, ReturnStep
<1>6. ASSUME NEW w \in Worker, Notify(w)
      PROVE  IInv'
  BY <1>6, NotifyStep
<1>7. ASSUME NEW w \in Worker, WakeSpuriously(w)
      PROVE  IInv'
  BY <1>7, WakeStep
<1>8. CASE UNCHANGED vars
  BY <1>8, StutterStep
<1> QED
  BY <1>1, <1>2, <1>3, <1>4, <1>5, <1>6, <1>7, <1>8 DEF Next, WorkerStep

\* The places, the states, the counts of a parked thread and the ends of a run agree in every
\* state of ThreadPool::run, for any number of workers, threads, channels and any program.
THEOREM Invariant == Spec => []IInv
<1>1. Init => IInv
  BY InitInv
<1>2. IInv /\ [Next]_vars => IInv'
  BY NextInv
<1> QED
  BY <1>1, <1>2, PTL DEF Spec

\* Type correctness; running never goes below zero or beyond the number of workers.
THEOREM TypeCorrect == Spec => []TypeOK
<1>1. IInv => TypeOK
  BY DEF IInv
<1> QED
  BY <1>1, Invariant, PTL

\* worker_loop notifies whenever it gives a thread back, so no worker sleeps on work: an
\* instruction makes no queued thread runnable until the pool has its count, and a worker
\* that waits has found nothing runnable under the lock it sleeps on.
THEOREM NoLostWakeUp == Spec => []NobodySleepsOnWork
<1>1. IInv => NobodySleepsOnWork
  BY DEF IInv
<1> QED
  BY <1>1, Invariant, PTL

-----------------------------------------------------------------------------
(* What follows from it.                                                     *)

\* To be held by a worker is to be in its hands.
LEMMA HeldIsHeldBy ==
  ASSUME TypeOK, NEW w \in Worker, NEW t \in Thread
  PROVE  HeldBy(w, t) <=> t \in Held(w)
BY Constants DEF HeldBy, Held, Elements

\* ThreadPool::take removes a thread from the queue and counts it in running, and
\* return_thread undoes both: no guest thread is lost, queued twice or run by two workers.
THEOREM ThreadsAreConserved == Spec => []PoolConservesThreads
<1>1. IInv => PoolConservesThreads
  <2> SUFFICES ASSUME IInv
               PROVE  PoolConservesThreads
    OBVIOUS
  <2>1. TypeOK /\ WorkersInv /\ PlacesInv
    BY DEF IInv
  <2>2. running = Cardinality({w \in Worker : hand[w] # None})
    BY <2>1 DEF WorkersInv, Busy
  <2>3. ASSUME NEW t \in Live, InQueue(t)
        PROVE  /\ \A n, m \in DOMAIN queue : queue[n] = t /\ queue[m] = t => n = m
               /\ \A w \in Worker : ~HeldBy(w, t)
    <3>1. t \in Elements(queue) /\ t \in Thread
      BY <2>1, <2>3, Constants DEF InQueue, Elements, Live, Thread, TypeOK
    <3>2. \A n, m \in DOMAIN queue : queue[n] = t /\ queue[m] = t => n = m
      BY <2>1 DEF PlacesInv, NoRepeats
    <3>3. \A w \in Worker : t \notin Held(w)
      BY <2>1, <3>1 DEF PlacesInv
    <3> QED
      BY <2>1, <3>1, <3>2, <3>3, HeldIsHeldBy
  <2>4. ASSUME NEW t \in Live, ~ InQueue(t)
        PROVE  \E w \in Worker : HeldBy(w, t) /\ \A v \in Worker \ {w} : ~HeldBy(v, t)
    <3>1. t \in Thread /\ t \in 1 .. born /\ t \notin halted /\ t \notin Elements(queue)
      BY <2>1, <2>4, Constants DEF InQueue, Elements, Live, Thread, TypeOK
    <3>2. PICK w \in Worker : t \in Held(w)
      BY <2>1, <3>1 DEF PlacesInv
    <3>3. \A v \in Worker \ {w} : t \notin Held(v)
      BY <2>1, <3>2 DEF PlacesInv
    <3> QED
      BY <2>1, <3>1, <3>2, <3>3, HeldIsHeldBy
  <2> QED
    BY <2>2, <2>3, <2>4 DEF PoolConservesThreads
<1> QED
  BY <1>1, Invariant, PTL

\* deadlock_fault is reported only when no quantum is under way and every thread that is left
\* repeats a channel instruction that cannot proceed.
THEOREM DeadlocksAreReal == Spec => []PoolDeadlockIsReal
<1>1. IInv => PoolDeadlockIsReal
  BY DEF IInv, EndsInv, PoolDeadlockIsReal, Busy
<1> QED
  BY <1>1, Invariant, PTL

\* ThreadPool::run answers Ok only when every guest thread has exited: a worker that is done
\* without an error has found the queue empty with nobody running, or the pool shut down by
\* a worker that has an error to report.
THEOREM OkIsEarned == Spec => []OkMeansAllExited
<1>1. IInv => OkMeansAllExited
  <2> SUFFICES ASSUME IInv, \A w \in Worker : phase[w] = "done" /\ result[w] = "ok",
                      NEW t \in Live
               PROVE  FALSE
    BY DEF OkMeansAllExited
  <2>1. TypeOK /\ WorkersInv /\ PlacesInv /\ EndsInv
    BY DEF IInv
  <2>2. ~ shutdown
    BY <2>1 DEF EndsInv
  <2>3. queue = <<>> /\ Busy = {}
    BY <2>1, <2>2, PoolConstants DEF EndsInv
  <2>4. t \in Elements(queue)
    BY <2>1, <2>3, LeftInQueue
  <2>5. DOMAIN <<>> = {}
    OBVIOUS
  <2> QED
    BY <2>3, <2>4, <2>5 DEF Elements
<1> QED
  BY <1>1, Invariant, PTL

\* A thread parked at an instruction count (blocked_at) is retried once the count has grown,
\* and a transfer it waits for makes it grow; the quantum of the transfer may still be under way.
THEOREM RetriesAreNotMissed == Spec => []ParkedThreadIsRetried
<1>1. IInv => ParkedThreadIsRetried
  <2> SUFFICES ASSUME IInv, NEW n \in DOMAIN queue, state[queue[n]] = "Blocked",
                      ~ Stuck(queue[n])
               PROVE  \/ IsRunnable(queue[n])
                      \/ \E w \in Worker : hand[w] # None /\ blocked_at[queue[n]] < progress
    BY DEF ParkedThreadIsRetried
  <2>1. TypeOK /\ WorkersInv /\ ParkedInv
    BY DEF IInv
  <2>2. blocked_at[queue[n]] < progress
    BY <2>1 DEF ParkedInv, ParkedSince, Elements
  <2>3. CASE seen = progress
    BY <2>2, <2>3 DEF IsRunnable
  <2>4. ASSUME NEW w \in Worker, phase[w] \in {"run", "return"}
        PROVE  hand[w] # None
    BY <2>1, <2>4 DEF WorkersInv
  <2> QED
    BY <2>1, <2>2, <2>3, <2>4 DEF ParkedInv
<1> QED
  BY <1>1, Invariant, PTL

-----------------------------------------------------------------------------
(* The pool implements the threads of GuestThreads, step by step.            *)

\* What each thread waits for, as GuestThreads sees it.
Waiting == [t \in Thread |-> IF WaitsForChannel(t) THEN Entries(at[t]) ELSE None]

\* A step that GuestThreads does not see.
LEMMA Unseen ==
  ASSUME UNCHANGED <<born, halted, Waiting, pending, Outcome>>
  PROVE  UNCHANGED Guest!vars
BY DEF Guest!vars, Waiting

\* A channel instruction asks for transfers, and None is not a set of them.
LEMMA EntriesAreTransfers ==
  ASSUME NEW i \in Program, i.op \in {"alt", "nbalt"}
  PROVE  Entries(i) \subseteq Guest!Transfer /\ Entries(i) # None
<1>1. i \in Instruction
  BY PoolConstants
<1>2. i.table \in Seq(Entry)
  BY <1>1 DEF Instruction
<1>3. \A n \in DOMAIN i.table : i.table[n] \in Entry
  BY <1>2, LenProperties, ElementOfSeq
<1>4. Entries(i) \subseteq Entry
  BY <1>3 DEF Entries
<1> QED
  BY <1>4, PoolConstants DEF Guest!Transfer, Entry

\* What a thread waits for once its pc rests on instruction i, or is free.
LEMMA WaitingMoves ==
  ASSUME TypeOK, NEW t \in Thread, NEW i \in Program, at[t] \in {None, i},
         NEW x \in {None, i}, at' = [at EXCEPT ![t] = x]
  PROVE  /\ Waiting' = [Waiting EXCEPT ![t] = IF x # None /\ i.op = "alt" THEN Entries(i) ELSE None]
         /\ Waiting[t] = IF at[t] # None /\ i.op = "alt" THEN Entries(i) ELSE None
<1>1. at \in [Thread -> Program \cup {None}] /\ None \notin Program
  BY Constants DEF TypeOK
<1>2. at'[t] = x /\ \A u \in Thread \ {t} : at'[u] = at[u]
  BY <1>1
<1>3. \A u \in Thread \ {t} : Waiting'[u] = Waiting[u]
  BY <1>2 DEF Waiting, WaitsForChannel
<1>4. Waiting'[t] = IF x # None /\ i.op = "alt" THEN Entries(i) ELSE None
  BY <1>2 DEF Waiting, WaitsForChannel
<1>5. Waiting[t] = IF at[t] # None /\ i.op = "alt" THEN Entries(i) ELSE None
  BY DEF Waiting, WaitsForChannel
<1>6. /\ Waiting = [u \in Thread |-> Waiting[u]] /\ Waiting' = [u \in Thread |-> Waiting'[u]]
  BY DEF Waiting
<1> QED
  BY <1>3, <1>4, <1>5, <1>6

\* While a worker has a thread in hand the pool has not ended, unless every thread is over.
LEMMA BusyOutcome ==
  ASSUME IInv, NEW w \in Worker, phase[w] \in {"lock", "run", "return"}
  PROVE  Outcome = IF Live = {} THEN "ok" ELSE "running"
<1>1. /\ hand[w] # None
  BY DEF IInv, WorkersInv
<1>2. \A v \in Worker : result[v] # "deadlock"
  BY <1>1 DEF IInv, EndsInv, Busy
<1> QED
  BY <1>2 DEF Outcome

\* The same after a step.
LEMMA BusyOutcomeNext ==
  ASSUME IInv', NEW w \in Worker, phase'[w] \in {"lock", "run", "return"}
  PROVE  Outcome' = IF Live' = {} THEN "ok" ELSE "running"
<1>1. /\ hand'[w] # None
  BY DEF IInv, WorkersInv
<1>2. \A v \in Worker : result'[v] # "deadlock"
  BY <1>1 DEF IInv, EndsInv, Busy
<1> QED
  BY <1>2 DEF Outcome

\* An instruction is a step of the abstract thread, or is not seen.
LEMMA RunRefines ==
  ASSUME IInv, IInv', NEW w \in Worker, Run(w)
  PROVE  [Guest!Next]_Guest!vars
<1> DEFINE t == hand[w]
<1>1. TypeOK /\ WorkersInv /\ PlacesInv /\ StatesInv
  BY DEF IInv
<1>2. phase[w] = "run" /\ Effect(w, t)
  BY <1>1, RunEffect
<1>3. phase'[w] \in {"run", "return"}
  BY <1>2 DEF Effect
<1>4. t \in Thread /\ t \notin halted /\ t \in Live /\ Live = Guest!Live
  <2>1. t \in Thread /\ t \notin halted /\ t \in 1 .. born
    BY <1>1, <1>2, Runner, Apart
  <2> QED
    BY <2>1 DEF Live, Guest!Live
<1>5. Outcome = "running"
  BY <1>2, <1>4, BusyOutcome
<1>6. Outcome' = IF Live' = {} THEN "ok" ELSE "running"
  BY <1>3, BusyOutcomeNext
<1>7. ASSUME UNCHANGED <<born, halted>>
      PROVE  Outcome' = Outcome
  <2>1. Live' = Live
    BY <1>7 DEF Live
  <2> QED
    BY <1>4, <1>5, <1>6, <2>1
<1>8. t \in Guest!Thread /\ Guest!Thread = Thread
  BY <1>4 DEF Thread, Guest!Thread
<1>9. ASSUME halted' = halted \cup {t}, UNCHANGED <<born, Waiting, pending>>, Waiting[t] = None
      PROVE  Guest!Next
  <2>1. Guest!Live' = Live'
    BY DEF Live, Guest!Live
  <2>2. Guest!Finish(t)
    <3>1. CASE Live' = {}
      BY <1>4, <1>5, <1>6, <1>9, <2>1, <3>1 DEF Guest!Finish, Waiting
    <3>2. CASE Live' # {}
      BY <1>4, <1>5, <1>6, <1>9, <2>1, <3>2 DEF Guest!Finish, Guest!MayEnd, Waiting
    <3> QED
      BY <3>1, <3>2
  <2> QED
    BY <1>8, <2>2 DEF Guest!Next
<1>10. ASSUME NEW i \in Program, ChannelOp(w, t, i)
       PROVE  [Guest!Next]_Guest!vars
  <2>1. /\ i.op \in {"alt", "nbalt"} /\ at[t] \in {None, i}
        /\ halted' = halted /\ born' = born /\ Outcome' = Outcome
    BY <1>7, <1>10 DEF ChannelOp, Dispatch
  <2>2. Entries(i) \subseteq Guest!Transfer /\ Entries(i) # None
    BY <2>1, EntriesAreTransfers
  <2>3. CASE \E n \in DOMAIN i.table :
               /\ Ready(i.table[n])
               /\ pending' = [pending EXCEPT ![i.table[n].chan] =
                                IF i.table[n].send THEN t ELSE None]
               /\ Retire(w, t)
    <3>1. PICK e \in Entries(i) :
               /\ Ready(e)
               /\ pending' = [pending EXCEPT ![e.chan] = IF e.send THEN t ELSE None]
               /\ Retire(w, t)
      BY <2>3 DEF Entries
    <3>2. at' = [at EXCEPT ![t] = None]
      BY <3>1 DEF Retire
    <3>3. /\ Waiting' = [Waiting EXCEPT ![t] = None]
          /\ Waiting[t] = IF at[t] # None /\ i.op = "alt" THEN Entries(i) ELSE None
      BY <1>1, <1>4, <2>1, <3>2, WaitingMoves
    <3>4. Guest!Perform(t, e)
      BY <2>1, <3>1, <3>3 DEF Guest!Perform, Guest!Ready, Ready, Waiting
    <3>5. CASE Waiting[t] = None
      <4>1. Guest!Communicate(t)
        BY <1>4, <1>5, <2>2, <3>4, <3>5 DEF Guest!Communicate, Waiting
      <4> QED
        BY <1>8, <4>1 DEF Guest!Next
    <3>6. CASE Waiting[t] # None
      <4>1. e \in Waiting[t]
        BY <3>3, <3>6
      <4>2. Guest!Complete(t)
        BY <1>4, <1>5, <3>4, <3>6, <4>1 DEF Guest!Complete, Waiting
      <4> QED
        BY <1>8, <4>2 DEF Guest!Next
    <3> QED
      BY <3>5, <3>6
  <2>4. CASE i.op = "nbalt" /\ Retire(w, t) /\ UNCHANGED pending
    <3>1. at' = [at EXCEPT ![t] = None]
      BY <2>4 DEF Retire
    <3>2. Waiting' = [Waiting EXCEPT ![t] = None] /\ Waiting[t] = None
      BY <1>1, <1>4, <2>1, <2>4, <3>1, WaitingMoves
    <3>3. Waiting' = Waiting
      BY <1>4, <3>2 DEF Waiting
    <3> QED
      BY <2>1, <2>4, <3>3, Unseen
  <2>5. CASE /\ i.op # "nbalt" /\ Stop(w, t, i) /\ UNCHANGED pending
             /\ \A n \in DOMAIN i.table : ~Ready(i.table[n])
    <3>1. at' = [at EXCEPT ![t] = i] /\ i # None
      BY <2>5, Constants DEF Stop
    <3>2. /\ Waiting' = [Waiting EXCEPT ![t] = Entries(i)]
          /\ Waiting[t] = IF at[t] # None THEN Entries(i) ELSE None
      BY <1>1, <1>4, <2>1, <2>5, <3>1, WaitingMoves
    <3>3. CASE at[t] = None
      <4>1. \A e \in Entries(i) : ~ Guest!Ready(e)
        BY <2>5 DEF Entries, Ready, Guest!Ready
      <4>2. Guest!Wait(t)
        BY <1>4, <1>5, <2>1, <2>2, <2>5, <3>2, <3>3, <4>1
           DEF Guest!Wait, Guest!MayEnd, Waiting
      <4> QED
        BY <1>8, <4>2 DEF Guest!Next
    <3>4. CASE at[t] # None
      <4>1. Waiting' = Waiting
        BY <1>4, <3>2, <3>4 DEF Waiting
      <4> QED
        BY <2>1, <2>5, <4>1, Unseen
    <3> QED
      BY <3>3, <3>4
  <2> QED
    BY <1>10, <2>3, <2>4, <2>5 DEF ChannelOp
<1>11. ASSUME NEW i \in Program, Dispatch(w, t, i), i.op \notin {"alt", "nbalt"},
              Retire(w, t) \/ Stop(w, t, i)
       PROVE  Waiting' = Waiting /\ Waiting[t] = None
  <2>1. at[t] \in {None, i}
    BY <1>11 DEF Dispatch
  <2>2. PICK x \in {None, i} : at' = [at EXCEPT ![t] = x]
    BY <1>11 DEF Retire, Stop
  <2>3. Waiting' = [Waiting EXCEPT ![t] = None] /\ Waiting[t] = None
    BY <1>1, <1>4, <1>11, <2>1, <2>2, WaitingMoves
  <2> QED
    BY <1>4, <2>3 DEF Waiting
<1>12. ASSUME NEW i \in Program, Spawn(w, t, i)
       PROVE  [Guest!Next]_Guest!vars
  <2>1. /\ born < MaxThreads /\ born' = born + 1 /\ halted' = halted /\ pending' = pending
        /\ Waiting' = Waiting
    BY <1>11, <1>12 DEF Spawn
  <2>2. t \in Live'
    <3>1. born \in Nat
      BY <1>1, Constants DEF TypeOK
    <3> QED
      BY <1>4, <2>1, <3>1 DEF Live
  <2>3. Guest!Spawn
    BY <1>5, <1>6, <2>1, <2>2 DEF Guest!Spawn, Waiting
  <2> QED
    BY <2>3 DEF Guest!Next
<1>13. ASSUME NEW i \in Program, Exit(w, t, i)
       PROVE  [Guest!Next]_Guest!vars
  <2>1. /\ halted' = halted \cup {t} /\ born' = born /\ pending' = pending
        /\ Waiting' = Waiting /\ Waiting[t] = None
    BY <1>11, <1>13 DEF Exit
  <2> QED
    BY <1>9, <2>1
<1>14. ASSUME NEW i \in Program, Other(w, t, i) \/ Fault(w, t, i)
       PROVE  [Guest!Next]_Guest!vars
  <2>1. halted' = halted /\ born' = born /\ pending' = pending /\ Waiting' = Waiting
    BY <1>11, <1>14 DEF Other, Fault
  <2> QED
    BY <1>7, <2>1, Unseen
<1>15. ASSUME RunOffTheEnd(w, t)
       PROVE  [Guest!Next]_Guest!vars
  <2>1. /\ halted' = halted \cup {t} /\ born' = born /\ pending' = pending /\ at' = at
        /\ at[t] = None
    BY <1>15 DEF RunOffTheEnd
  <2>2. Waiting' = Waiting /\ Waiting[t] = None
    BY <1>4, <2>1 DEF Waiting, WaitsForChannel, Entries
  <2> QED
    BY <1>9, <2>1, <2>2
<1>16. PICK u \in Thread :
         \/ RunOffTheEnd(w, u)
         \/ \E i \in Program : ChannelOp(w, u, i) \/ Spawn(w, u, i) \/ Exit(w, u, i)
                               \/ Other(w, u, i) \/ Fault(w, u, i)
  BY DEF Run
<1>17. u = t
  BY <1>16 DEF RunOffTheEnd, ChannelOp, Spawn, Exit, Other, Fault, Dispatch
<1> QED
  BY <1>10, <1>12, <1>13, <1>14, <1>15, <1>16, <1>17

\* Stuck is the abstract Stuck.
LEMMA StuckRefines ==
  ASSUME IInv, NEW t \in Thread, Stuck(t)
  PROVE  Guest!Stuck(t)
<1>1. at[t] \in Program /\ at[t].op = "alt" /\ \A e \in Entries(at[t]) : ~ Ready(e)
  BY DEF IInv, TypeOK, Stuck, WaitsForChannel
<1>2. Entries(at[t]) # None
  BY <1>1, EntriesAreTransfers
<1>3. Waiting[t] = Entries(at[t])
  BY <1>1 DEF Waiting, WaitsForChannel, Stuck
<1> QED
  BY <1>1, <1>2, <1>3 DEF Guest!Stuck, Guest!Ready, Ready, Waiting

\* The same after a step.
LEMMA StuckRefinesNext ==
  ASSUME IInv', NEW t \in Thread, Stuck(t)'
  PROVE  Guest!Stuck(t)'
<1>1. at'[t] \in Program /\ at'[t].op = "alt" /\ \A e \in Entries(at'[t]) : ~ Ready(e)'
  BY DEF IInv, TypeOK, Stuck, WaitsForChannel, Entries
<1>2. Entries(at'[t]) # None
  BY <1>1, EntriesAreTransfers
<1>3. Waiting'[t] = Entries(at'[t])
  BY <1>1 DEF Waiting, WaitsForChannel, Entries, Stuck
<1> QED
  BY <1>1, <1>2, <1>3 DEF Guest!Stuck, Guest!Ready, Ready, Waiting

\* Between instructions the abstract threads see nothing but the end of the run.
LEMMA BetweenRefines ==
  ASSUME IInv, IInv', NEW w \in Worker,
         Pick(w) \/ Lock(w) \/ Return(w) \/ Notify(w) \/ WakeSpuriously(w)
  PROVE  [Guest!Next]_Guest!vars
<1>1. TypeOK /\ WorkersInv /\ PlacesInv /\ StatesInv /\ EndsInv
  BY DEF IInv
<1>2. /\ born' = born /\ halted' = halted /\ at' = at /\ pending' = pending
      /\ phase[w] \notin {"run", "done"}
  BY DEF Pick, Lock, Return, Notify, WakeSpuriously, threadVars, sharedVars
<1>3. Live' = Live /\ Waiting' = Waiting
  BY <1>2 DEF Live, Waiting, WaitsForChannel, Entries
<1>4. ASSUME Outcome' = Outcome
      PROVE  [Guest!Next]_Guest!vars
  BY <1>2, <1>3, <1>4, Unseen
<1>5. CASE Live = {}
  <2>1. Outcome' = Outcome
    BY <1>3, <1>5 DEF Outcome
  <2> QED
    BY <1>4, <2>1
<1>6. ASSUME result' = result, phase'[w] # "done"
      PROVE  [Guest!Next]_Guest!vars
  <2>1. Outcome' = Outcome
    BY <1>2, <1>3, <1>6 DEF Outcome
  <2> QED
    BY <1>4, <2>1
<1>7. ASSUME result' = result, NEW v \in Worker, result[v] = "deadlock"
      PROVE  [Guest!Next]_Guest!vars
  <2>1. Outcome' = Outcome
    BY <1>3, <1>7 DEF Outcome
  <2> QED
    BY <1>4, <2>1
<1>8. ASSUME Live # {}, \A v \in Worker : result[v] # "deadlock"
      PROVE  Outcome = "running"
  BY <1>2, <1>8 DEF Outcome
<1>9. ASSUME Pick(w), Live # {}
      PROVE  [Guest!Next]_Guest!vars
  <2>1. phase \in [Worker -> {"pick", "wait", "lock", "run", "return", "notify", "done"}]
    BY <1>1 DEF TypeOK
  <2>2. CASE shutdown
    <3>1. result' = result
      BY <1>9, <2>2 DEF Pick, Take, NothingToTake
    <3>2. \E v \in Worker : result[v] = "deadlock"
      BY <1>1, <2>2 DEF EndsInv
    <3> QED
      BY <1>7, <3>1, <3>2
  <2>3. CASE ~ shutdown /\ Take(w, Retained(queue))
    <3>1. result' = result /\ phase' = [phase EXCEPT ![w] = "lock"]
      BY <2>3 DEF Take, GoTo
    <3> QED
      BY <1>6, <2>1, <3>1
  <2>4. CASE ~ shutdown /\ NothingToTake(w, Retained(queue))
    <3>1. CASE running = 0 /\ Retained(queue) = <<>>
      <4>1. PICK t \in Live : TRUE
        BY <1>9
      <4>2. Busy = {}
        BY <1>1, <3>1, NobodyBusy
      <4>3. t \in Elements(queue) /\ t \notin halted /\ t \in Thread
        BY <1>1, <4>2, LeftInQueue, Constants DEF Live, Thread, TypeOK
      <4>4. state[t] # "Exited"
        BY <1>1, <4>3 DEF StatesInv
      <4>5. t \in Elements(Retained(queue))
        BY <1>1, <4>3, <4>4, RetainedElements DEF TypeOK, PlacesInv
      <4>6. DOMAIN <<>> = {}
        OBVIOUS
      <4> QED
        BY <3>1, <4>5, <4>6 DEF Elements
    <3>2. CASE result' = [result EXCEPT ![w] = "deadlock"]
      <4>1. result'[w] = "deadlock"
        BY <1>1, <3>2 DEF TypeOK
      <4>2. Outcome = "running"
        BY <1>1, <1>8, <1>9, <2>4 DEF EndsInv
      <4>3. Outcome' = "deadlock"
        BY <1>3, <1>9, <4>1 DEF Outcome
      <4>4. \A t \in Live' : Stuck(t)'
        BY <4>1 DEF IInv, EndsInv
      <4>5. \A t \in Live' : t \in Thread
        <5>1. \A t \in Live : t \in Thread
          BY <1>1, Constants DEF Live, Thread, TypeOK
        <5> QED
          BY <1>3, <5>1
      <4>6. \A t \in Live' : Guest!Stuck(t)'
        BY <4>4, <4>5, StuckRefinesNext
      <4>7. Guest!Live' = Live'
        BY DEF Live, Guest!Live
      <4>8. Guest!StillWaits
        BY <1>2, <1>3, <4>2, <4>3, <4>6, <4>7 DEF Guest!StillWaits, Guest!MayEnd, Waiting
      <4> QED
        BY <4>8 DEF Guest!Next
    <3>3. CASE running > 0 /\ phase' = [phase EXCEPT ![w] = "wait"] /\ result' = result
      BY <1>6, <2>1, <3>3
    <3> QED
      BY <2>4, <3>1, <3>2, <3>3 DEF NothingToTake, GoTo
  <2> QED
    BY <1>9, <2>2, <2>3, <2>4 DEF Pick
<1>10. ASSUME Notify(w), Live # {}
       PROVE  [Guest!Next]_Guest!vars
  <2>1. result' = result
    BY <1>10 DEF Notify
  <2>2. CASE \A v \in Worker : result[v] # "deadlock"
    <3>1. Outcome = "running"
      BY <1>8, <1>10, <2>2
    <3>2. Outcome' \in {"running", "fault"}
      BY <1>3, <1>10, <2>1, <2>2 DEF Outcome
    <3>3. CASE Outcome' = "fault"
      <4>1. Guest!Fault
        BY <1>2, <1>3, <3>1, <3>3 DEF Guest!Fault, Waiting
      <4> QED
        BY <4>1 DEF Guest!Next
    <3> QED
      BY <1>4, <3>1, <3>2, <3>3
  <2> QED
    BY <1>7, <2>1, <2>2
<1>11. ASSUME Lock(w) \/ Return(w) \/ WakeSpuriously(w)
       PROVE  [Guest!Next]_Guest!vars
  <2>1. /\ phase \in [Worker -> {"pick", "wait", "lock", "run", "return", "notify", "done"}]
    BY <1>1 DEF TypeOK
  <2>2. result' = result /\ \E x \in {"run", "notify", "pick"} : phase' = [phase EXCEPT ![w] = x]
    BY <1>11 DEF Lock, Return, WakeSpuriously, GoTo
  <2>3. phase'[w] # "done"
    BY <2>1, <2>2
  <2> QED
    BY <1>6, <2>2, <2>3
<1> QED
  BY <1>5, <1>9, <1>10, <1>11

\* scheduler.rs implements fair threads over one-place channels (their steps; that a thread
\* that waits is served is a liveness property): every behaviour of the pool, whatever the
\* workers and the program, is one of GuestThreads, in which nothing is known of queues,
\* quanta, locks and instruction counts.
THEOREM PoolRefinesGuestThreads == Spec => Guest!Init /\ [][Guest!Next]_Guest!vars
<1>1. Init => Guest!Init
  <2> SUFFICES ASSUME Init
               PROVE  Guest!Init
    OBVIOUS
  <2>1. /\ at = [t \in Thread |-> None] /\ born = Initial /\ halted = {}
        /\ pending = [c \in Chan |-> None] /\ phase = [w \in Worker |-> "pick"]
        /\ result = [w \in Worker |-> "ok"]
    BY DEF Init
  <2>2. Waiting = [t \in Thread |-> None]
    BY <2>1 DEF Waiting, WaitsForChannel
  <2>3. 1 \in Live /\ born \in 1 .. MaxThreads
    BY <2>1, Constants DEF Live
  <2>4. Outcome = "running"
    <3>1. PICK w \in Worker : TRUE
      BY PoolConstants
    <3>2. phase[w] # "done" /\ \A v \in Worker : result[v] # "deadlock"
      BY <2>1
    <3> QED
      BY <2>3, <3>2 DEF Outcome
  <2> QED
    BY <2>1, <2>2, <2>3, <2>4 DEF Guest!Init, Guest!Thread, Thread, Waiting
<1>2. IInv /\ IInv' /\ [Next]_vars => [Guest!Next]_Guest!vars
  <2> SUFFICES ASSUME IInv, IInv', [Next]_vars
               PROVE  [Guest!Next]_Guest!vars
    OBVIOUS
  <2>1. CASE UNCHANGED vars
    <3>1. UNCHANGED <<born, halted, at, pending, phase, result>>
      BY <2>1 DEF vars, threadVars, sharedVars, workerVars
    <3>2. UNCHANGED <<Waiting, Outcome>>
      BY <3>1 DEF Waiting, WaitsForChannel, Entries, Outcome, Live
    <3> QED
      BY <3>1, <3>2, Unseen
  <2>2. ASSUME NEW w \in Worker, WorkerStep(w) \/ WakeSpuriously(w)
        PROVE  [Guest!Next]_Guest!vars
    BY <2>2, RunRefines, BetweenRefines DEF WorkerStep
  <2> QED
    BY <2>1, <2>2 DEF Next, Joined
<1> QED
  BY <1>1, <1>2, Invariant, PTL DEF Spec

=============================================================================
