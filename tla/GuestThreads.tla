---------------------------- MODULE GuestThreads ----------------------------
(***************************************************************************)
(* What the run loop promises its guest, with no queue, no quantum and no  *)
(* wake-up marks: threads communicate over one-place channels, any live    *)
(* thread may take a step it is able to take, a thread that waits for a    *)
(* channel which stays ready gets its transfer, and a run is declared      *)
(* deadlocked only when no live thread is able to do anything.             *)
(***************************************************************************)
EXTENDS Naturals

CONSTANTS Chan, None, MaxThreads

VARIABLES
  born,      \* how many threads were created; threads are named 1 .. born
  done,      \* those that are over
  waiting,   \* per thread: the set of transfers it waits for, or None
  slot,      \* per channel: None or the thread whose payload it holds
  outcome    \* "running", or how the run ended

vars == <<born, done, waiting, slot, outcome>>

Thread == 1 .. MaxThreads

Transfer == [chan : Chan, send : BOOLEAN]

Init ==
  /\ born \in 1 .. MaxThreads /\ done = {}
  /\ waiting = [t \in Thread |-> None]
  /\ slot = [c \in Chan |-> None]
  /\ outcome = "running"

Live == 1 .. born \ done

Ready(e) == IF e.send THEN slot[e.chan] = None ELSE slot[e.chan] # None

\* Thread t waits and nothing it waits for can happen.
Stuck(t) == waiting[t] # None /\ \A e \in waiting[t] : ~Ready(e)

\* A run may be declared deadlocked only if every live thread is stuck.
MayEnd == \/ outcome' = "running"
          \/ outcome' = "deadlock" /\ \A t \in Live' : Stuck(t)'

Perform(t, e) ==
  /\ Ready(e)
  /\ slot' = [slot EXCEPT ![e.chan] = IF e.send THEN t ELSE None]
  /\ waiting' = [waiting EXCEPT ![t] = None]
  /\ UNCHANGED <<born, done, outcome>>

\* A thread that waits gets one of the transfers it waits for.
Complete(t) ==
  /\ outcome = "running" /\ t \in Live /\ waiting[t] # None
  /\ \E e \in waiting[t] : Perform(t, e)

\* A thread that does not wait makes a transfer.
Communicate(t) ==
  /\ outcome = "running" /\ t \in Live /\ waiting[t] = None
  /\ \E e \in Transfer : Perform(t, e)

\* A thread finds nothing it asks for ready, and waits.
Wait(t) ==
  /\ outcome = "running" /\ t \in Live /\ waiting[t] = None
  /\ \E es \in SUBSET Transfer :
        /\ \A e \in es : ~Ready(e)
        /\ waiting' = [waiting EXCEPT ![t] = es]
  /\ UNCHANGED <<born, done, slot>>
  /\ MayEnd

\* A thread that was woken and lost the race goes on waiting.
StillWaits ==
  /\ outcome = "running"
  /\ UNCHANGED <<born, done, waiting, slot>>
  /\ MayEnd

Spawn ==
  /\ outcome = "running" /\ born < MaxThreads
  /\ born' = born + 1
  /\ UNCHANGED <<done, waiting, slot, outcome>>

Finish(t) ==
  /\ outcome = "running" /\ t \in Live /\ waiting[t] = None
  /\ done' = done \cup {t}
  /\ UNCHANGED <<born, waiting, slot>>
  /\ \/ MayEnd /\ Live' # {}
     \/ outcome' = "ok" /\ Live' = {}

\* An exception nobody handles ends the whole run.
Fault ==
  /\ outcome = "running" /\ outcome' = "fault"
  /\ UNCHANGED <<born, done, waiting, slot>>

Next ==
  \/ Spawn \/ Fault \/ StillWaits
  \/ \E t \in Thread : Complete(t) \/ Communicate(t) \/ Wait(t) \/ Finish(t)

\* A waiting thread whose transfer stays possible is served.
Fairness == \A t \in Thread : WF_vars(Complete(t))

Spec == Init /\ [][Next]_vars /\ Fairness

=============================================================================
