----------------------------- MODULE ModuleCalls -----------------------------
(***************************************************************************)
(* Calls between modules in one guest thread: the frame stack (frame.rs),  *)
(* the nested interpreter loop of a cross-module call (ops/control.rs) and *)
(* the unwinding of exceptions (vm.rs).                                    *)
(*                                                                         *)
(* A frame is a slot of the stack and its base the slot's index.  A module *)
(* keeps its data in one block, and a block is named by the module it      *)
(* belongs to: what a block holds does not matter here, only where the     *)
(* blocks are.  A pc is one of a few classes that the exception handlers   *)
(* of the modules tell apart; the program is arbitrary, so every           *)
(* instruction may go to any of them.                                      *)
(***************************************************************************)
EXTENDS Naturals, Sequences

CONSTANTS
  Main,        \* the main module
  Loaded,      \* the modules it has loaded
  Pc,          \* the classes of pcs
  Handlers,    \* per module: the pcs a matching handler of that module covers
  None,        \* Rust's None
  MAX_FRAMES   \* frames that fit into MAX_FRAME_STACK_SIZE

Module == {Main} \cup Loaded

ASSUME CallConstants ==
  /\ Main \notin Loaded
  /\ None \notin Module \cup Pc
  /\ Pc # {}
  /\ Handlers \in [Module -> SUBSET Pc]
  /\ MAX_FRAMES \in Nat \ {0}

VARIABLES
  module,     \* current_loaded_module
  pc,         \* VmState::pc
  mp,         \* VmState::mp: the block of data in use, None when it is empty
  home,       \* LoadedModule::mp of each loaded module
  parents,    \* caller_mp_stack
  stack,      \* FrameStack::data, a sequence of frames
  current,    \* FrameStack::current_base
  floor,      \* unwind_floor
  calls,      \* the host stack: the locals of every run_nested_module_call
  error,      \* the error on its way out of the nested loops, or None
  outcome,    \* what run returned: "running" while it has not
  abandoned   \* history: what has ended a nested call and left its frames, "exit" or "error"

dataVars == <<mp, home, parents>>
frameVars == <<stack, current>>
vars == <<module, pc, dataVars, frameVars, floor, calls, error, outcome, abandoned>>

Block == Module \cup {None}

\* A frame that frame has allocated and call has not activated yet.
Pending == [owner |-> None, site |-> None, prev |-> 0]

\* The header of an active frame: the call it returns to and the caller's base; owner is
\* the module whose code runs on it.  The entry frame has no call.
Frame == [owner : Module, site : Pc \cup {None}, prev : 0 .. MAX_FRAMES]

Saved == [callee : Module, entering : BOOLEAN, slot : Nat,
          module : Module, pc : Pc, floor : 1 .. MAX_FRAMES]

TypeOK ==
  /\ module \in Module /\ pc \in Pc
  /\ mp \in Block /\ home \in [Loaded -> Block]
  /\ parents \in Seq([virt : Module, data : Block])
  /\ stack \in Seq(Frame \cup {Pending}) /\ Len(stack) \in 1 .. MAX_FRAMES
  /\ current \in DOMAIN stack /\ floor \in DOMAIN stack
  /\ calls \in Seq(Saved)
  /\ error \in {None, "nil", "other"}
  /\ outcome \in {"running", "ok", "fault"}
  /\ abandoned \subseteq {"exit", "error"}

Init ==
  /\ module = Main /\ pc \in Pc
  /\ mp = Main /\ home = [m \in Loaded |-> m] /\ parents = <<>>
  /\ stack = <<[owner |-> Main, site |-> None, prev |-> 0]>> /\ current = 1
  /\ floor = 1 /\ calls = <<>>
  /\ error = None /\ outcome = "running" /\ abandoned = {}

-----------------------------------------------------------------------------
(* Blocks of module data. *)

Last(s) == s[Len(s)]
Front(s) == SubSeq(s, 1, Len(s) - 1)

\* Mutant of ParkedMain: position, the outermost entry.
ParkedMainOutermost ==
  LET at == {n \in DOMAIN parents : parents[n].virt = Main}
  IN  IF at = {} THEN 0 ELSE CHOOSE n \in at : \A k \in at : n <= k

\* rposition: the innermost entry of the caller stack that the main module's data can be
\* in, 0 if there is none.
ParkedMain ==
  LET at == {n \in DOMAIN parents : parents[n].virt = Main}
  IN  IF at = {} THEN 0 ELSE CHOOSE n \in at : \A k \in at : k <= n

\* mem::take of module m's data from its home, and of the caller's from the VM.
SwapIn(m) ==
  LET slot == ParkedMain
      taken == IF m # Main THEN home[m] ELSE IF slot # 0 THEN parents[slot].data ELSE mp
      left == IF m # Main \/ slot # 0 THEN mp ELSE None
      others == IF m = Main /\ slot # 0 THEN [parents EXCEPT ![slot].data = None] ELSE parents
  IN  /\ mp' = taken
      /\ home' = IF m # Main THEN [home EXCEPT ![m] = None] ELSE home
      /\ parents' = Append(others, [virt |-> module, data |-> left])

\* Mutant of SwapOut: the callee's data is not handed back to its home.
SwapOutDropping(c) ==
  /\ mp' = Last(parents).data
  /\ parents' = Front(parents)
  /\ UNCHANGED home

\* The way back: the callee's data to where it was taken from, the caller's to the VM.
SwapOut(c) ==
  LET others == Front(parents)
  IN  /\ mp' = IF c.callee # Main \/ c.slot # 0 THEN Last(parents).data ELSE mp
      /\ home' = IF c.callee # Main THEN [home EXCEPT ![c.callee] = mp] ELSE home
      /\ parents' = IF c.callee = Main /\ c.slot # 0
                    THEN [others EXCEPT ![c.slot].data = mp] ELSE others

\* The end of run_nested_module_call, on every exit path.
Leave ==
  LET c == Last(calls)
  IN  /\ IF c.entering THEN SwapOut(c) ELSE UNCHANGED dataVars
      /\ module' = c.module
      /\ floor' = c.floor
      /\ calls' = Front(calls)

-----------------------------------------------------------------------------
(* Exceptions. *)

\* The active frames: the current one and whatever their saved bases lead to.
Active ==
  {k \in DOMAIN stack :
     \A S \in SUBSET DOMAIN stack :
       current \in S /\ (\A j \in S : stack[j].prev \in S \cup {0}) => k \in S}

\* The frame that frame k called, when k is active and not current.
CalleeOf(k) == CHOOSE j \in Active : stack[j].prev = k

\* The pc frame k is at: the call it has made, or the instruction that raises.
PcOf(k) == IF k = current THEN pc ELSE stack[CalleeOf(k)].site

\* Mutant of Walked: the floor is not looked at.
WalkedToTheEntry == Active

\* caller_frame: the frames the search walks through, outwards to the floor.
Walked == {k \in Active : k >= floor}

Handling == {k \in Walked : PcOf(k) \in Handlers[module]}

\* Mutant of Unwound: one frame too many is popped.
UnwoundTooFar(k) == SubSeq(stack, 1, k - 1)

\* pop, as often as it takes to make k the current frame.
Unwound(k) == IF k = current THEN stack ELSE SubSeq(stack, 1, CalleeOf(k) - 1)

\* raise_exception_with_value: the innermost frame with a handler takes the exception;
\* without one it is an error of the given kind.
Raised(kind) ==
  \/ \E k \in Handling :
       /\ \A j \in Handling : j <= k
       /\ stack' = Unwound(k) /\ current' = k
       /\ pc' \in Pc
       /\ error' = None
       /\ UNCHANGED outcome
  \/ /\ Handling = {}
     /\ UNCHANGED <<frameVars, pc>>
     /\ IF error = None THEN error' = kind /\ UNCHANGED outcome
        ELSE outcome' = "fault" /\ UNCHANGED error

-----------------------------------------------------------------------------
(* Instructions, dispatched by the innermost loop. *)

Dispatch == outcome = "running" /\ error = None

\* Whatever neither calls nor fails: a jump, a move, a store into module data.
Other ==
  /\ Dispatch
  /\ pc' \in Pc
  /\ UNCHANGED <<module, dataVars, frameVars, floor, calls, error, outcome, abandoned>>

\* op_frame: alloc_pending, above everything allocated already.
AllocFrame ==
  /\ Dispatch
  /\ IF Len(stack) < MAX_FRAMES
     THEN stack' = Append(stack, Pending) /\ pc' \in Pc /\ UNCHANGED error
     ELSE error' = "other" /\ UNCHANGED <<stack, pc>>
  /\ UNCHANGED <<module, dataVars, current, floor, calls, outcome, abandoned>>

\* activate_pending.  Compiled code activates its frames last in, first out.
Activate(m) ==
  /\ Len(stack) > current /\ Last(stack) = Pending
  /\ stack' = [stack EXCEPT ![Len(stack)] = [owner |-> m, site |-> pc, prev |-> current]]
  /\ current' = Len(stack)

Call ==
  /\ Dispatch
  /\ Activate(module)
  /\ pc' \in Pc
  /\ UNCHANGED <<module, dataVars, floor, calls, error, outcome, abandoned>>

\* op_mcall, and op_mspawn into a loaded module.
Mcall(m) ==
  /\ Dispatch
  /\ Activate(m)
  /\ calls' = Append(calls, [callee |-> m, entering |-> m # module, slot |-> ParkedMain,
                             module |-> module, pc |-> pc, floor |-> floor])
  /\ IF m # module THEN SwapIn(m) ELSE UNCHANGED dataVars
  /\ module' = m
  /\ floor' = Len(stack)
  /\ pc' \in Pc
  /\ UNCHANGED <<error, outcome, abandoned>>

\* Mutant of BelowCall: the callee's own frame counts as the caller's.
BelowCallOrAt(base) == calls # <<>> /\ base <= floor

\* The nested loop compares bases with that of the frame it began with.
BelowCall(base) == calls # <<>> /\ base < floor

\* op_ret.  Popping the frame a nested call began with ends that call; popping the entry
\* frame ends the thread, with which its frames go.
Ret ==
  /\ Dispatch
  /\ UNCHANGED <<error, abandoned>>
  /\ \/ /\ stack[current].site = None
        /\ outcome' = "ok"
        /\ UNCHANGED <<module, pc, dataVars, frameVars, floor, calls>>
     \/ /\ stack[current].site # None
        /\ stack' = SubSeq(stack, 1, current - 1)
        /\ current' = stack[current].prev
        /\ pc' \in Pc
        /\ UNCHANGED outcome
        /\ IF BelowCall(current') THEN Leave ELSE UNCHANGED <<module, dataVars, floor, calls>>

\* op_exit, op_brkpt and a pc past the end of the code: a nested call ends as if it had
\* returned, except that its frames stay.
Exit ==
  /\ Dispatch
  /\ UNCHANGED <<frameVars, error>>
  /\ \/ calls = <<>> /\ outcome' = "ok"
        /\ UNCHANGED <<module, pc, dataVars, floor, calls, abandoned>>
     \/ calls # <<>> /\ Leave /\ pc' \in Pc /\ UNCHANGED outcome
        /\ abandoned' = abandoned \cup {"exit"}

\* op_raise, and the exceptions the channel opcodes raise.
Raise ==
  /\ Dispatch
  /\ \E kind \in {"nil", "other"} : Raised(kind)
  /\ UNCHANGED <<module, dataVars, floor, calls, abandoned>>

\* An instruction returns an error; "nil" is one whose message run looks for.
Fault ==
  /\ Dispatch
  /\ error' \in {"nil", "other"}
  /\ UNCHANGED <<module, pc, dataVars, frameVars, floor, calls, outcome, abandoned>>

\* Mutant of Propagate: the caller's context is restored on success only.
PropagateUnrestored ==
  /\ outcome = "running" /\ error # None /\ calls # <<>>
  /\ calls' = Front(calls)
  /\ pc' = Last(calls).pc
  /\ abandoned' = abandoned \cup {"error"}
  /\ UNCHANGED <<module, dataVars, frameVars, floor, error, outcome>>

\* An error leaves a nested loop; the frames stay as they are.
Propagate ==
  /\ outcome = "running" /\ error # None /\ calls # <<>>
  /\ Leave
  /\ pc' = Last(calls).pc
  /\ abandoned' = abandoned \cup {"error"}
  /\ UNCHANGED <<frameVars, error, outcome>>

\* The error has reached run, which raises what it takes for a nil dereference.
RunMatches ==
  /\ outcome = "running" /\ error # None /\ calls = <<>>
  /\ IF error = "nil" THEN Raised(error)
     ELSE outcome' = "fault" /\ UNCHANGED <<frameVars, pc, error>>
  /\ UNCHANGED <<module, dataVars, floor, calls, abandoned>>

\* run has returned.
Returned == outcome # "running" /\ UNCHANGED vars

Next ==
  \/ Other \/ AllocFrame \/ Call \/ Ret \/ Exit \/ Raise \/ Fault
  \/ Propagate \/ RunMatches \/ Returned
  \/ \E m \in Module : Mcall(m)

Spec == Init /\ [][Next]_vars

=============================================================================
