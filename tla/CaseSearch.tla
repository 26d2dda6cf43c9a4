----------------------------- MODULE CaseSearch -----------------------------
(***************************************************************************)
(* The binary search of casew, casec and casel (ops/control.rs), and what  *)
(* it finds in a table of any length.  The entries of a table are numbered *)
(* from 0; side[i] says where the value lies of entry i.                   *)
(***************************************************************************)
EXTENDS Integers, Induction

\* Before an entry, in it or after it; what is before an entry is not compared with its end.
Side(before, after) == CASE before -> "before" [] ~before /\ after -> "after" [] OTHER -> "in"

\* By the high word, then by the low one, whose sign is a bit like any other.
BigBefore(a, b) == a[1] < b[1] \/ (a[1] = b[1] /\ (a[2] < b[2]) = (a[2] < 0 <=> b[2] < 0))

SideOfWords(lo, hi, v) == Side(v < lo, v >= hi)
SideOfBigs(lo, hi, v) == Side(BigBefore(v, lo), ~BigBefore(v, hi))

\* Of the remaining entries from first on, the middle one; found is an entry once it has the value.
Turn(side, s) ==
  LET middle == s.first + s.remaining \div 2
  IN CASE s.remaining = 0 -> s
       [] s.remaining > 0 /\ side[middle] = "before" -> [s EXCEPT !.remaining = @ \div 2]
       [] s.remaining > 0 /\ side[middle] = "after"  ->
            [s EXCEPT !.first = middle + 1, !.remaining = @ - @ \div 2 - 1]
       [] s.remaining > 0 /\ side[middle] = "in"     -> [s EXCEPT !.remaining = 0, !.found = middle]

\* The entry that is found among n, or n.  A turn leaves fewer entries: n turns are enough.
Found(side, n) ==
  LET search[k \in 0 .. n] ==
        IF k = 0 THEN [first |-> 0, remaining |-> n, found |-> n] ELSE Turn(side, search[k - 1])
  IN  search[n].found

-----------------------------------------------------------------------------
(* What is found. *)

Sides == {"before", "in", "after"}

\* From the first entry on that the value is not after, it is before all that follow.
Ordered(side, n) ==
  \A i, j \in 0 .. n - 1 : i < j /\ side[i] # "after" => side[j] = "before"

\* Where a search stands.
Searches(n) == [first : 0 .. n, remaining : 0 .. n, found : 0 .. n]

\* After k turns: fewer entries remain, the value is after all in front of them and before all behind.
Narrowed(side, n, k, s) ==
  /\ s \in Searches(n) /\ s.remaining <= n - k /\ s.first + s.remaining <= n
  /\ s.found < n => s.remaining = 0 /\ side[s.found] = "in"
  /\ s.found = n =>
       \A i \in 0 .. n - 1 : /\ i < s.first => side[i] = "after"
                             /\ i >= s.first + s.remaining => side[i] = "before"

\* One turn leaves one entry fewer at least.
LEMMA TurnNarrows ==
  ASSUME NEW n \in Nat, NEW side \in [0 .. n - 1 -> Sides], Ordered(side, n),
         NEW k \in 0 .. n - 1, NEW s, Narrowed(side, n, k, s)
  PROVE  Narrowed(side, n, k + 1, Turn(side, s))
  <1> DEFINE t == Turn(side, s)
  <1>1. /\ s \in Searches(n) /\ s.first \in Nat /\ s.remaining \in Nat /\ s.found \in 0 .. n
        /\ s.remaining <= n - k /\ s.first + s.remaining <= n
    BY DEF Narrowed, Searches
  <1>2. CASE s.remaining = 0
    <2>1. t = s
      BY <1>2 DEF Turn
    <2> QED
      BY <1>1, <1>2, <2>1 DEF Narrowed
  <1>3. CASE s.remaining > 0
    <2>1. PICK half \in 0 .. s.remaining - 1 : half = s.remaining \div 2
      BY <1>1, <1>3
    <2> DEFINE middle == s.first + half
    <2>2. middle \in 0 .. n - 1 /\ middle < s.first + s.remaining /\ middle >= s.first
      BY <1>1, <2>1
    <2>3. t = CASE side[middle] = "before" -> [s EXCEPT !.remaining = half]
                [] side[middle] = "after"  ->
                     [s EXCEPT !.first = middle + 1, !.remaining = s.remaining - half - 1]
                [] side[middle] = "in"     -> [s EXCEPT !.remaining = 0, !.found = middle]
      BY <1>1, <1>3, <2>1, <2>2 DEF Turn, Searches, Sides
    <2>4. side[middle] \in Sides
      BY <2>2
    <2>5. s.found = n
      BY <1>1, <1>3 DEF Narrowed
    <2>6. \A i \in 0 .. n - 1 : /\ i < s.first => side[i] = "after"
                                /\ i >= s.first + s.remaining => side[i] = "before"
      BY <2>5 DEF Narrowed
    <2> HIDE DEF t
    <2>7. CASE side[middle] = "before"
      <3>1. t = [s EXCEPT !.remaining = half]
        BY <2>3, <2>7
      <3>2. t \in Searches(n) /\ t.first = s.first /\ t.found = s.found /\ t.remaining = half
        BY <1>1, <2>1, <3>1 DEF Searches
      <3>3. \A i \in 0 .. n - 1 : i >= middle => side[i] = "before"
        BY <2>2, <2>7 DEF Ordered
      <3> QED
        BY <1>1, <2>1, <2>5, <2>6, <3>2, <3>3 DEF Narrowed, t
    <2>8. CASE side[middle] = "after"
      <3>1. t = [s EXCEPT !.first = middle + 1, !.remaining = s.remaining - half - 1]
        BY <2>3, <2>8
      <3>2. middle + 1 \in 0 .. n /\ s.remaining - half - 1 \in 0 .. n
        <4>1. middle + 1 \in 0 .. n
          BY <2>2
        <4>2. half \in Nat /\ half <= s.remaining - 1 /\ s.remaining <= n
          BY <1>1, <2>1
        <4> HIDE DEF middle
        <4> QED
          BY <1>1, <4>1, <4>2
      <3>3. /\ t \in Searches(n) /\ t.first = middle + 1 /\ t.found = s.found
            /\ t.remaining = s.remaining - half - 1
        BY <1>1, <3>1, <3>2 DEF Searches
      <3>4. \A i \in 0 .. n - 1 : i <= middle => side[i] = "after"
        BY <2>2, <2>4, <2>8 DEF Ordered, Sides
      <3>5. t.first + t.remaining = s.first + s.remaining /\ t.remaining <= n - (k + 1)
        BY <1>1, <2>1, <3>3
      <3>6. \A i \in 0 .. n - 1 : /\ i < t.first => side[i] = "after"
                                  /\ i >= t.first + t.remaining => side[i] = "before"
        BY <2>2, <2>6, <3>3, <3>4, <3>5
      <3> QED
        BY <1>1, <2>5, <3>3, <3>5, <3>6 DEF Narrowed, t
    <2>9. CASE side[middle] = "in"
      <3>1. t = [s EXCEPT !.remaining = 0, !.found = middle]
        BY <2>3, <2>9
      <3>2. middle \in 0 .. n /\ 0 \in 0 .. n
        BY <2>2
      <3> HIDE DEF middle
      <3>3. t \in Searches(n) /\ t.first = s.first /\ t.found = middle /\ t.remaining = 0
        BY <1>1, <3>1, <3>2 DEF Searches
      <3> QED
        BY <1>1, <2>2, <2>9, <3>3 DEF Narrowed, t
    <2> QED
      BY <2>4, <2>7, <2>8, <2>9 DEF Sides
  <1> QED
    BY <1>1, <1>2, <1>3

\* The loop ends, at an entry that has the value if there is one.
THEOREM SearchFindsTheEntry ==
  ASSUME NEW n \in Nat, NEW side \in [0 .. n - 1 -> Sides], Ordered(side, n)
  PROVE  IF \E i \in 0 .. n - 1 : side[i] = "in"
         THEN Found(side, n) \in 0 .. n - 1 /\ side[Found(side, n)] = "in"
         ELSE Found(side, n) = n
  <1> DEFINE start == [first |-> 0, remaining |-> n, found |-> n]
             Is(f) == f = [k \in 0 .. n |-> IF k = 0 THEN start ELSE Turn(side, f[k - 1])]
             search == CHOOSE f : Is(f)
             B == {s \in Searches(n) : Narrowed(side, n, 0, s)}
  <1>1. Narrowed(side, n, 0, start)
    BY DEF Narrowed, Searches
  <1>2. \A s \in B : Turn(side, s) \in B
    <2> SUFFICES ASSUME NEW s \in B
                 PROVE  Turn(side, s) \in B
      OBVIOUS
    <2>1. CASE n = 0
      <3>1. s.remaining = 0
        BY <2>1 DEF Narrowed, Searches
      <3> QED
        BY <3>1 DEF Turn
    <2>2. CASE n > 0
      <3>1. Narrowed(side, n, 0 + 1, Turn(side, s))
        BY <2>2, TurnNarrows
      <3> HIDE DEF start
      <3>2. Turn(side, s) \in Searches(n)
        BY <3>1 DEF Narrowed
      <3> QED
        BY <3>1, <3>2 DEF Narrowed, Searches
    <2> QED
      BY <2>1, <2>2
  <1>3. \E f : Is(f)
    <2> DEFINE g == [k \in 1 .. n |-> [s \in B |-> Turn(side, s)]]
    <2>1. start \in B
      BY <1>1 DEF Narrowed
    <2> HIDE DEF B, start
    <2>2. g \in Steps(n, B)
      BY <1>2 DEF Steps
    <2>3. PICK f : IsRun(f, n, B, start, g)
      <3> HIDE DEF g
      <3> QED
        BY <2>1, <2>2, RecursionExists
    <2>4. \A k \in 1 .. n : f[k - 1] \in B
      BY <2>3 DEF IsRun
    <2>5. \A k \in 1 .. n : f[k] = Turn(side, f[k - 1])
      BY <2>3, <2>4 DEF IsRun
    <2> QED
      BY <2>3, <2>5 DEF IsRun
  <1>4. Is(search)
    BY <1>3
  <1>5. Found(side, n) = search[n].found
    BY DEF Found
  <1> HIDE DEF search
  <1>6. search[0] = start /\ \A k \in 1 .. n : search[k] = Turn(side, search[k - 1])
    BY <1>4
  <1> DEFINE S == {k \in 0 .. n : Narrowed(side, n, k, search[k])}
  <1>7. 0 \in S
    BY <1>1, <1>6
  <1>8. ASSUME NEW k \in 0 .. n - 1, k \in S
        PROVE  k + 1 \in S
    <2>1. Narrowed(side, n, k + 1, Turn(side, search[k]))
      BY <1>8, TurnNarrows
    <2>2. search[k + 1] = Turn(side, search[k])
      BY <1>6
    <2> QED
      BY <2>1, <2>2
  <1> HIDE DEF S
  <1>9. n \in S
    <2>1. 0 .. n \subseteq S
      BY <1>7, <1>8, BoundedInduction
    <2> QED
      BY <2>1
  <1>10. Narrowed(side, n, n, search[n])
    BY <1>9 DEF S
  <1>11. search[n].remaining = 0 /\ search[n].found \in 0 .. n /\ search[n].first \in 0 .. n
    BY <1>10 DEF Narrowed, Searches
  <1>12. CASE search[n].found < n
    <2>1. side[search[n].found] = "in" /\ search[n].found \in 0 .. n - 1
      BY <1>10, <1>11, <1>12 DEF Narrowed
    <2> QED
      BY <1>5, <2>1
  <1>13. CASE search[n].found = n
    <2>1. \A i \in 0 .. n - 1 : side[i] # "in"
      BY <1>10, <1>11, <1>13 DEF Narrowed
    <2> QED
      BY <1>5, <1>13, <2>1
  <1> QED
    BY <1>11, <1>12, <1>13

\* casew: in a table of ranges that follow each other, however many, the search ends at the range
\* that holds the value, and at the default if there is none.
THEOREM WordCaseFindsItsRange ==
  ASSUME NEW n \in Nat, NEW lo \in [0 .. n - 1 -> Int], NEW hi \in [0 .. n - 1 -> Int], NEW v \in Int,
         \A i \in 0 .. n - 1 : lo[i] <= hi[i],
         \A i, j \in 0 .. n - 1 : i < j => hi[i] <= lo[j]
  PROVE  LET found == Found([i \in 0 .. n - 1 |-> SideOfWords(lo[i], hi[i], v)], n)
         IN  IF \E i \in 0 .. n - 1 : lo[i] <= v /\ v < hi[i]
             THEN found \in 0 .. n - 1 /\ lo[found] <= v /\ v < hi[found]
             ELSE found = n
  <1> DEFINE side == [i \in 0 .. n - 1 |-> SideOfWords(lo[i], hi[i], v)]
  <1>1. \A i \in 0 .. n - 1 :
          /\ side[i] \in Sides
          /\ side[i] = "before" <=> v < lo[i]
          /\ side[i] = "in" <=> lo[i] <= v /\ v < hi[i]
    BY DEF SideOfWords, Side, Sides
  <1>2. side \in [0 .. n - 1 -> Sides]
    BY <1>1
  <1> HIDE DEF side
  <1>3. Ordered(side, n)
    <2> SUFFICES ASSUME NEW i \in 0 .. n - 1, NEW j \in 0 .. n - 1, i < j, side[i] # "after"
                 PROVE  side[j] = "before"
      BY DEF Ordered
    <2>1. v < lo[i] \/ v < hi[i]
      BY <1>1 DEF Sides
    <2>2. v < lo[j]
      BY <2>1
    <2> QED
      BY <1>1, <2>2
  <1>4. IF \E i \in 0 .. n - 1 : side[i] = "in"
        THEN Found(side, n) \in 0 .. n - 1 /\ side[Found(side, n)] = "in"
        ELSE Found(side, n) = n
    BY <1>2, <1>3, SearchFindsTheEntry
  <1> QED
    BY <1>1, <1>4 DEF side

\* BigBefore is the order of numbers of two words.
LEMMA BigsAreOrdered ==
  ASSUME NEW a \in Int \X Int, NEW b \in Int \X Int, NEW c \in Int \X Int
  PROVE  /\ ~ BigBefore(a, a)
         /\ BigBefore(a, b) \/ BigBefore(b, a) \/ a = b
         /\ BigBefore(a, b) /\ BigBefore(b, c) => BigBefore(a, c)
  BY DEF BigBefore

\* casel: the same for ranges of bigs.
THEOREM BigCaseFindsItsRange ==
  ASSUME NEW n \in Nat, NEW lo \in [0 .. n - 1 -> Int \X Int], NEW hi \in [0 .. n - 1 -> Int \X Int],
         NEW v \in Int \X Int,
         \A i \in 0 .. n - 1 : ~ BigBefore(hi[i], lo[i]),
         \A i, j \in 0 .. n - 1 : i < j => ~ BigBefore(lo[j], hi[i])
  PROVE  LET found == Found([i \in 0 .. n - 1 |-> SideOfBigs(lo[i], hi[i], v)], n)
             Has(i) == ~ BigBefore(v, lo[i]) /\ BigBefore(v, hi[i])
         IN  IF \E i \in 0 .. n - 1 : Has(i) THEN found \in 0 .. n - 1 /\ Has(found) ELSE found = n
  <1> DEFINE side == [i \in 0 .. n - 1 |-> SideOfBigs(lo[i], hi[i], v)]
             Has(i) == ~ BigBefore(v, lo[i]) /\ BigBefore(v, hi[i])
  <1>1. \A i \in 0 .. n - 1 :
          /\ side[i] \in Sides
          /\ side[i] = "before" <=> BigBefore(v, lo[i])
          /\ side[i] = "in" <=> Has(i)
    BY DEF SideOfBigs, Side, Sides
  <1>2. side \in [0 .. n - 1 -> Sides]
    BY <1>1
  <1> HIDE DEF side
  <1>3. Ordered(side, n)
    <2> SUFFICES ASSUME NEW i \in 0 .. n - 1, NEW j \in 0 .. n - 1, i < j, side[i] # "after"
                 PROVE  side[j] = "before"
      BY DEF Ordered
    <2>1. BigBefore(v, lo[i]) \/ BigBefore(v, hi[i])
      BY <1>1 DEF Sides
    <2>2. /\ v \in Int \X Int /\ lo[i] \in Int \X Int /\ hi[i] \in Int \X Int /\ lo[j] \in Int \X Int
          /\ ~ BigBefore(hi[i], lo[i]) /\ ~ BigBefore(lo[j], hi[i])
      OBVIOUS
    <2>3. BigBefore(v, hi[i])
      BY <2>1, <2>2, BigsAreOrdered
    <2>4. BigBefore(v, lo[j])
      BY <2>2, <2>3, BigsAreOrdered
    <2> QED
      BY <1>1, <2>4
  <1>4. IF \E i \in 0 .. n - 1 : side[i] = "in"
        THEN Found(side, n) \in 0 .. n - 1 /\ side[Found(side, n)] = "in"
        ELSE Found(side, n) = n
    BY <1>2, <1>3, SearchFindsTheEntry
  <1> QED
    BY <1>1, <1>4 DEF side
=============================================================================
