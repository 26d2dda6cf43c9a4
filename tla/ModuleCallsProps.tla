-------------------------- MODULE ModuleCallsProps --------------------------
(***************************************************************************)
(* What must be true of the cross-module calls of ModuleCalls.             *)
(***************************************************************************)
EXTENDS ModuleCalls, FiniteSets

\* The places that hold block b.
Holders(b) ==
     {<<"vm">> : x \in {y \in {mp} : y = b}}
  \cup {<<"home", m>> : m \in {l \in Loaded : home[l] = b}}
  \cup {<<"parent", n>> : n \in {k \in DOMAIN parents : parents[k].data = b}}

Interpreting == outcome = "running" /\ error = None

-----------------------------------------------------------------------------

\* "This makes ... is undone on ALL exit paths" (run_nested_module_call): however calls
\* nest, re-enter a module or end, no module's data is lost or in two places.
DataInOnePlace == \A m \in Module : Cardinality(Holders(m)) = 1

\* Code runs on the data of its own module; the only exception is a loaded module that
\* is entered again while a call into it is still going on.
RunsOnOwnData ==
  Interpreting =>
    \/ mp = module
    \/ /\ module # Main /\ mp = None
       /\ \E n \in DOMAIN parents : parents[n] = [virt |-> module, data |-> module]

\* Whenever control is back in run, the context is the caller's: its module, its data,
\* an empty caller stack and no unwind floor.
ContextIsRestored ==
  calls = <<>> => module = Main /\ mp = Main /\ parents = <<>> /\ floor = 1

\* The frames of the callers belong to them: while a nested call goes on nothing in it,
\* returns and exceptions included, reaches a frame below the one it began with.
CallersFramesKept ==
  [][Interpreting /\ calls' = calls =>
       /\ current' >= floor
       /\ SubSeq(stack', 1, floor - 1) = SubSeq(stack, 1, floor - 1)]_vars

\* The frame in use was built for the module that is executing, as long as every nested
\* call has come back through ret.
FrameMatchesModule ==
  Interpreting /\ abandoned = {} => stack[current].owner = module

\* As long as no callee has exited, the handler that takes an error coming out of a nested
\* call runs on a frame of its own module: "the frames between the raise site and the
\* handler are popped and execution continues at the handler" (raise_exception_with_value).
HandlerRunsOnItsFrame ==
  [][error # None /\ error' = None /\ "exit" \notin abandoned =>
       stack'[current'].owner = module']_vars

\* "Swap in the callee's own data so anything it stores persists across calls"
\* (run_nested_module_call): a module never runs without its data.
StoresPersist == Interpreting => mp = module

-----------------------------------------------------------------------------
(* The parts of the inductive invariants: how frames are linked (FramesInv),    *)
(* where the data of modules is (PlacesInv), whom frames were built for         *)
(* (FrameOwnersInv).                                                            *)

Entry == [owner |-> Main, site |-> None, prev |-> 0]

\* Saved bases lead from any active frame down to the entry frame.
WellBuilt(st) ==
  /\ st \in Seq(Frame \cup {Pending}) /\ Len(st) \in 1 .. MAX_FRAMES
  /\ st[1] = Entry
  /\ \A j \in 2 .. Len(st) :
       st[j] # Pending => /\ st[j].site \in Pc
                          /\ st[j].prev \in 1 .. j - 1
                          /\ st[st[j].prev] # Pending

\* No frame above f returns to one below it.
KeptAbove(st, f) == \A j \in f + 1 .. Len(st) : st[j] # Pending => st[j].prev >= f

\* The stack st with current frame cu and floor fl, while the calls cs are going on.
StackInv(st, cu, fl, cs) ==
  /\ WellBuilt(st) /\ cu \in 1 .. Len(st) /\ st[cu] # Pending
  /\ fl \in 1 .. cu /\ KeptAbove(st, fl)
  /\ \A n \in 1 .. Len(cs) :
       /\ cs[n].floor \in 1 .. fl - 1 /\ KeptAbove(st, cs[n].floor)
       /\ \A m \in n + 1 .. Len(cs) : cs[n].floor < cs[m].floor

FramesInv == StackInv(stack, current, floor, calls)

\* Where the data of modules is when module mo executes on the block d, hs are the homes
\* and ps the caller stack: a block is in use, at home, or with a caller of its module.
InPlace(mo, d, hs, ps) ==
  /\ d \in {mo, None}
  /\ mo \in Loaded => hs[mo] = None
  /\ \A l \in Loaded : hs[l] \in {l, None}
  /\ \A n \in DOMAIN ps : ps[n].data \in {ps[n].virt, None}

\* No block is in two of these places,
InOnePlace(d, hs, ps) ==
  /\ \A l \in Loaded : hs[l] # None => hs[l] # d
  /\ \A n \in DOMAIN ps : ps[n].data # None =>
       /\ ps[n].data # d
       /\ \A l \in Loaded : hs[l] # ps[n].data
       /\ \A k \in DOMAIN ps : ps[k].data = ps[n].data => k = n

\* nor in none.
InSomePlace(d, hs, ps) ==
  \A m \in Module : \/ m = d
                    \/ m \in Loaded /\ hs[m] = m
                    \/ \E n \in DOMAIN ps : ps[n].data = m

\* The main module's data is where ParkedMain looks for it.
MainAtHand(mo, d, ps) ==
  IF mo = Main THEN d = Main
  ELSE \E n \in DOMAIN ps : /\ ps[n].data = Main
                            /\ \A k \in DOMAIN ps : k > n => ps[k].virt # Main

DataInv(mo, d, hs, ps) ==
  InPlace(mo, d, hs, ps) /\ InOnePlace(d, hs, ps) /\ InSomePlace(d, hs, ps)
  /\ MainAtHand(mo, d, ps)

\* The frames from a to b that are in use were built for module m.
BuiltFor(st, a, b, m) == \A j \in a .. b : st[j] # Pending => st[j].owner = m

\* The frames of a nested call, up to those of the next, belong to the module it was made
\* from; the rest belong to the module that executes.
OwnersInv(st, fl, mo, cs) ==
  /\ BuiltFor(st, fl, Len(st), mo)
  /\ \A n \in 1 .. Len(cs) :
       BuiltFor(st, cs[n].floor, (IF n < Len(cs) THEN cs[n + 1].floor ELSE fl) - 1, cs[n].module)

PlacesInv == DataInv(module, mp, home, parents)

FrameOwnersInv == abandoned = {} => OwnersInv(stack, floor, module, calls)

=============================================================================
