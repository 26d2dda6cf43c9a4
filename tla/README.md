# A TLA+ model of RiceVM

RiceVM runs Dis bytecode (Inferno's virtual machine) on a host OS and compiles Limbo to it.
This directory holds TLA+ modules that model its scheduler, its heap, its descriptors, its
cross-module calls, its compiler and its loader, TLC configurations that check them on small
instances, and TLAPS proofs about the run loop, the pool, cross-module calls, the descriptor
table, the heap, case tables, the `.dis` format, the binding of imports and the placing of data for every instance. Every definition that stands for code is listed with its source lines under `map` in
`PROJECT.json`; `hazards` lists what is hard to test, at its line.
Paths below are relative to `src/crates/ricevm-execute/src/` unless they say otherwise;
`limbo/` stands for `src/crates/ricevm-limbo/src/`.

Run a model with `tlc -config <file>.cfg <module>.tla`, check the proofs with `tlapm` on
`VmThreadsProofs.tla`, `ThreadPoolProofs.tla`, `ModuleCallsProofs.tla`, `FileTableProofs.tla`,
`HeapProofs.tla`, `CaseSearch.tla`, `LoadingProofs.tla` and `Induction.tla`.

## 1. The system

| Component | State | Operations | Hard behaviour | What makes it correct |
|---|---|---|---|---|
| Run loop, `vm.rs` | the installed thread (frames, module data, pc, pid), `thread_queue`, `halted`, the quantum counter, `wait_records` | dispatch, suspend (rotation or blocked), resume, unblock, record exit, collect | guest threads interleave at channel operations, at the end of quanta and under reads that wait | no thread lost or run twice, no wake-up lost, a deadlock is reported exactly when there is one, runnable threads run |
| Channel opcodes, `ops/concurrency.rs` | one payload slot per channel object on the heap | send, recv, alt, nbalt, spawn, mspawn | selection over several channels with sends and receives in one table | a payload is delivered once and never overwritten; alt is atomic |
| Control opcodes, `ops/control.rs` | `caller_mp_stack`, `unwind_floor`, `current_loaded_module`, and the locals of `run_nested_module_call` on the host stack | frame, call, ret, mcall, exit, raise, load, mframe, case, goto | the callee runs on a loop of its own on the host stack; errors and exits cross it; imports are bound by name, signature or place | the caller's context is restored on every path, stores into module data persist, a call reaches the function it names |
| Frame stack, `frame.rs` | one byte buffer, current base and size | push_entry, alloc_pending, activate_pending, pop | pending frames, unwinding by base | code runs on a frame of its own module |
| Exceptions, `vm.rs` | handler tables, the frame chain | raise_exception, find_handler, caller_frame | search across frames but not across a nested call | the innermost handler takes it, on its frame |
| Reads, `sys.rs` and `filetab.rs` | descriptor table, pipes, the stdin reader thread, the thread-local `YIELDING` | read_fd, read_wait_file, run_other_vm_thread | a read that waits runs another guest thread in place of the reader | the reader gets the VM back; nothing of one thread leaks into the other |
| File table, `filetab.rs` | descriptors and their owners, pipes with writer counts | open, dup, pipe, read, close, accept, reclaim | end of file depends on who still holds a write end | end of file exactly when the last writer is gone; a reclaimed record closes its own file |
| Preemptive pool, `scheduler.rs` | `ThreadPool` (queue, running, progress, shutdown) under a lock with a condition variable, `SharedState` under another | worker_loop, run_thread_quanta_shared | OS threads; retries of parked threads; errors while others run | as for the run loop, with several workers; workers neither sleep on work nor stop early |
| Cooperative `Scheduler`, `scheduler.rs` | its queue, a temporary `VmState` per instruction | run, dispatch_for_thread | mirrors its queue into the temporary state and back | the same promise as the run loop |
| Heap, `heap.rs`, `ops/pointer.rs`, `list.rs`, `string.rs` | objects with counts | alloc, inc_ref, dec_ref, copy on write | counted and uncounted copies of the same id | no object freed while a live place names it |
| Collector, `gc.rs` | marks | collect | roots in suspended threads and in parked module data | everything reachable survives |
| Addressing and module data, `address.rs`, `data.rs`, `memory.rs` | the bytes of a module | resolve, encode, decode, init_mp | nested arrays in a data section, sizes and offsets that are refused | the data lies where the code looks for it |
| Arithmetic, `ops/arith.rs`, `compare.rs`, `convert.rs`, `fixedpoint.rs` | - | one operation per opcode | width, sign and rounding at the borders | the result is the number it stands for |
| Limbo compiler, `limbo/` | tokens, the parser's cursor, the generator's code, slots and tables | tokenize, parse, collect constants, generate, write | lookahead, precedence, constants in several scopes, slots that are reused, jumps patched later | what is read is what was written; what runs is what the program means |
| Loader, `ricevm-loader` | the reader's position | load | operands of three sizes, counts that the file chooses | what is loaded is what was written; nothing else is accepted |
| `channel.rs`, debugger, Tk, draw, audio, command line | queues, breakpoints, windows | host calls | Tk writes into channels; the debugger is a second run loop | - |

How they interact. `run` owns the only copy of the installed thread; everything else is
called from `dispatch`. A channel opcode that cannot proceed sets `blocked_channel` and
the loop around it decides what that means: `run` suspends the thread, the slice of a
waiting read ends, a nested loop faults. There are thus three loops that dispatch
instructions for the live VM (`run`, `run_thread_slice`, `nested_interpreter_loop`), with
different rules for blocking, counting, halting and errors, and most of the hazards of the VM
sit where one of them runs inside another. `scheduler.rs` is a separate pair of
schedulers that no caller instantiates (docs/limitations.md:11-12); they share the opcodes.
The compiler and the VM meet in two places: the `.dis` file, and the convention about frames,
descriptors and counted moves that no file spells out.

## 2. The modules

| Module | What it is |
|---|---|
| `VmThreads` | run loop, channel opcodes, slices and nested calls, as the scheduler sees them |
| `VmThreadsProps` | its properties, its inductive invariant, its refinement of `GuestThreads` |
| `GuestThreads` | abstract: fair threads over one-place channels, no queue, no marks, no quantum |
| `VmThreadsProofs` | TLAPS proofs about `VmThreads` |
| `MCVmThreads` | guests for TLC |
| `ThreadPool`, `ThreadPoolProps`, `MCThreadPool` | the preemptive pool, its properties, its inductive invariant and its refinement of `GuestThreads`, small pools |
| `ThreadPoolProofs` | TLAPS proofs about `ThreadPool` |
| `ModuleCalls`, `ModuleCallsProps`, `MCModuleCalls` | cross-module calls: frames, module data, exceptions; its properties, small programs |
| `ModuleCallsProofs` | TLAPS proofs about `ModuleCalls` |
| `Heap`, `MCHeap` | objects, counts, the copies every opcode makes, the collector; their properties and inductive invariant |
| `HeapProofs` | TLAPS proofs about `Heap` |
| `FileTable`, `FileTableProps`, `MCFileTable` | descriptors, pipes, reads that wait, FD records |
| `FileTableProofs` | TLAPS proofs about `FileTable` |
| `Induction` | lemmas: induction and recursion over numbers in terms of sets and functions |
| `Syntax` | Limbo's syntax trees |
| `Lexer`, `Parser` | text to tokens, tokens to a tree |
| `SourceText` | a tree as text: what the parser is held against |
| `Codegen` | a tree to instructions, descriptors and data |
| `ModuleData` | constants, includes, imports and the data of globals |
| `Format` | modules, and the `.dis` file: the writer of the compiler and the loader |
| `LoadingProofs` | TLAPS proofs that what is written is what is loaded, bound and placed |
| `DataImage` | the data of a module in memory, case and goto tables |
| `CaseSearch` | the binary search of the case opcodes, with TLAPS proofs about it |
| `Linking` | load, mframe, mcall: which function a call to another module reaches |
| `Dis`, `Numbers` | arithmetic of the interpreter |
| `DisMachine` | threads, frames, heap and channels of compiled programs |
| `LimboMeaning`, `DataMeaning`, `NumberMeaning` | reference definitions: what a program, a declaration, an operation means |
| `LimboProps`, `MCLimbo` | compiled programs, run: properties, constants |
| `Toolchain`, `ToolchainProps`, `MCToolchain` | text to file to loaded module: actions, properties, constants |
| `LimboPrograms`, `LimboSources`, `DisModules` | the inputs (those of `Numbers` are in `NumberMeaning`) |

In `VmThreads`, `ThreadPool`, `ModuleCalls`, `Heap` and `FileTable` the guest program is
arbitrary: wherever the code would fetch an instruction, the model takes any one of a constant
set. A property that holds therefore holds for every program made of those instructions. What an
instruction computes is abstracted to what the properties tell apart. The modules of the
compiler and the loader are the other way round: they compute what the code computes, from
inputs chosen to reach every construct, and are compared with a definition that does
not share their way of working.

### VmThreads

One step is one dispatched instruction with everything its loop does before the next
dispatch. All guest threads share one OS thread, so this is the granularity the program has.

- `cur` is the thread installed in `VmState`; `current_pid` is a variable of its own because
  the code swaps it separately. A thread is named by its order of creation, which is also
  the pid it is given.
- `at[t]` is the instruction a thread's pc is stuck at: a blocked channel operation or a
  read that waits is dispatched again. Otherwise the thread is free to do anything.
- `queue` is `thread_queue`, each entry with the pid it will resume with and `blocked_on`:
  `None`, a channel, or `NIL` for heap id 0, with which the code marks a thread blocked in alt.
- `parked`, `slice`: the reader under `run_other_vm_thread`, and how far its loan has got.
- `nested[t]`: the innermost loop of `t` is `nested_interpreter_loop`. How deep it is makes
  no difference to the scheduler; `ModuleCalls` models the depth.
- `pending[c]`: the channel's slot, with the sender as the identity of the payload.
- `Retire`, `Block`, `Raise`, `Abort` are what the loops make of an instruction that
  completed, must wait, raised or failed. `ChannelOp`, `Alt`, `TkSend`, `Spawn`, `Exit`,
  `RaiseOp`, `Other`, `Mcall`, `NestedReturn`, `Read`, `WaitRead` are the instructions;
  `FinishHalted` is the turn of `run` that finds `halted`.

A channel operation and the scan for its mate are one step because nothing runs in between.
Whether a read finds data is nondeterministic here; `FileTable` says when it does.

### ThreadPool

The two locks set the granularity: `Pick` and `Return` happen under the pool lock, the
instructions of a quantum under the shared state's lock (`holder`), and between them a worker
holds none. `Notify` is a step of its own because `notify_all` is called after the pool lock
is released; `WakeSpuriously` is there because a condition variable permits it. Workers that
find nothing wait, finish or report a deadlock by `running`, as the code does. A thread whose
instruction failed is queued again as ready while its worker carries the error, and every
other worker may repeat the instruction before `run` returns. A cross-module call in the pool
is one composite instruction (`other` or `fault`). `seen` and `progress` are the two
instruction counters, `blocked_at` the value a parked thread waits to be exceeded.

### ModuleCalls

One guest thread. A frame is a slot of `stack`, pending until `call` or `mcall` activates it.
A module's data is one block named by its module, and what matters is where the block is: in
use (`mp`), at `home` in its `LoadedModule`, or on `parents`, the caller stack. `calls` holds
the locals of each `run_nested_module_call` on the host stack. A pc is one of a few classes
which the handler tables tell apart, so an exception search is the walk of `caller_frame`
over the sites of the active frames against the table of the executing module. An error
leaves one nested call per step (`Propagate`), and `run` raises it again if its message is
one it looks for (`RunMatches`). `abandoned` is a history variable that no guard reads.

### Heap

`heap` maps ids to kind, count, text and the two words an object has here: its content (one
word for all its fields) and its link (the tail of a list, the parent of a slice). A holder is
a word of a thread's frame or module data, or a word of an object; `ptr` says what each holder
names, and the question is whether the holder was counted. `refs` stands for `heap_refs`,
which only grows. Every opcode that moves an id is an action with the order the code has
(count the new, release the old, write), `Released` is `dec_ref` with its cascade, and
`Collect` marks from all roots and sweeps. An id may come back once nothing names it. The
copies that the code does not count (movm, headm, consm, send, recv) are in the module and left
out of `CountingGuest`: with them `NoDangling` is false, as section 8 says.

### FileTable

`table` is the descriptor table with its next number, the owners of numbers, the queues and writer counts of pipes; `recs` the FD records of
the guest; `calls` the stack of calls that are waiting inside a read, because a read of an empty
pipe runs other guest threads (`VmThreads` has the scheduling, this module what those threads may
do to the descriptors meanwhile); `stdin` the thread that reads the host's input. A dialled or
accepted connection is a file, a listener is a handle that `accept_on` takes out of the table
and puts back.

### The compiler: Syntax, Lexer, Parser, SourceText, Codegen

A token, a tree and an instruction are records. A text is a sequence of runs of letters, runs of
digits and single characters. `Parser` is the recursive descent of `limbo/parser.rs` with its
binding powers and every one of its lookaheads; its state is the cursor, whether it failed, and
what was parsed last. `SourceText` goes the other way, from the grammar alone: it writes a tree
with the parentheses precedence asks for and blanks only where two tokens would
run together, so that `ReadsBack` compares two independent definitions. `Codegen` keeps the
generator's state (code, next slot, frame size, locals with their class and width, loops with
their open jumps, pending calls, types) and its decisions: which slot a value goes to, which class and width
is inferred, which move is chosen, when a branch is patched.

### The machine: Dis, DisMachine, LimboMeaning

`DisMachine` runs the instructions `Codegen` emits: a thread is a stack of words with frames one
after the other, the module data and a pc; the heap has objects with words, counts and
descriptors; channels keep one payload and their waiters. Any thread that does not wait may
step, which includes every quantum and every order of the queue. There is no collector action;
`DescriptorsCoverPointers` says what a collector needs. `LimboMeaning` evaluates the tree, with no
code in between.

### Data: ModuleData, DataImage, DataMeaning

`ModuleData` is the compiler's way through constants (four passes, each with its own iota and
scope), includes and imports to the items of a data section; `DataImage` is
`init_mp_with_types` with its stack of open arrays, byte by byte, and the three opcodes
that look for a case in a table of that data, with the loop of `CaseSearch`. `DataMeaning` computes the same declarations by
looking names up where they are declared, in no order at all.

### Format, Linking, Numbers, Toolchain

`Format` has the writer and the loader of `.dis` files over bytes (the bytes of a name are one
number). A reader is a function from a position in a file to a later one, which has a value or was refused; what
comes several times, or in a list of kinds, is read by `ReadMany` and `ReadEach`. `IsModule` says what can be in a
module of `module.rs` that the writer is asked to write, and which flags and counts of the header have to fit the rest
(`LoadsBack` checks it of every module that is loaded). `Linking` is `op_load`, `op_mframe` and `op_mcall` with the registry of built-in modules
and the candidates a path may mean. `Numbers` has the operations that compiled programs of
`DisMachine` do without; reals in it are exact decimal fractions.
`Toolchain` composes all of it: a source is tokenized, parsed, generated and
written, a module (compiled or handmade) is written, perhaps cut or signed, loaded, and its data
placed; a placed module is asked for the target of a case, for another module, or for the result of an operation.
Its stages are those of `compile_with_options` and `load`, with a refusal wherever the code
returns an error.

## 3. What the runs show

Runs that pass:

| Run | Instance | Shows |
|---|---|---|
| `threads_channels` | 3 threads, 2 channels, quanta of 2; send, recv (nil channels too), alts over both channels, a table that conflicts with itself, nbalt, spawn, exit | `IInv` (the invariant the proofs use: it contains the three below), `NoPayloadOverwritten` |
| `threads_host` | the same with reads that wait, exit records, raise, nested calls, Tk sends, 1 channel | `BlockedCannotProceed` (no lost wake-up), `DeadlockIsReal`, `NoThreadLostOrDuplicated` where the three loops run inside each other |
| `threads_fair` | 3 threads, 2 channels, waiting reads | `ImplementsGuestThreads` (refinement, fairness included), `RunnableThreadRuns`, `LoanIsReturned`, `DeadlockIsReported` |
| `pool_safety` | 3 workers (symmetric), 3 threads, 1 channel, every instruction, quanta of 1 | `PoolDeadlockIsReal`, `OkMeansAllExited`, `PoolConservesThreads`, `ParkedThreadIsRetried`, `NobodySleepsOnWork` |
| `pool_fair` | 2 workers, 3 threads, 2 channels, quanta of 2 | `PoolTerminates` and `PoolImplementsGuestThreads` |
| `calls_nesting` | main and 2 loaded modules, 5 frames, one of the three without handlers | `DataInOnePlace`, `RunsOnOwnData`, `ContextIsRestored`, `FrameMatchesModule`, `CallersFramesKept` |
| `heap_counts` | 2 threads, 3 objects, one frame word and one module word each, counts up to 5, every opcode that counts its copies, spawn, exit, the collector | `NoDangling`, `CountsCover`, `SlicesShareTheirRoot`, `SeparateWords` |
| `files_table` | 2 FD records, 2 files, 5 descriptors, dup onto chosen numbers, listeners that stream | `WritersCounted`, `OwnersOwn`, `PipeEndsOnce` |
| `limbo` | 138 Limbo programs, up to 3 threads | `OutcomeIsMeaning`, `WritesStayInFrames`, `DescriptorsCoverPointers`, `MarkedWordsAreAlive`, `EveryProgramEnds` |
| `toolchain` | some 280 sources, each written tightly and with a comment behind every token; handmade modules with every opcode, operand size and kind of data; 6 case tables with 8 values each; 39 loads; about 14,000 operations on numbers | `ReadsBack`, `LoadsBack`, `CutFilesAreRefused`, `DataIsMeaning`, `CasesFindTheirRange`, `ImportsAreBound`, `NumbersAreExact` |

Runs that end in a counterexample. Each checks one sentence of the repository against what the
code does; `findings` in `PROJECT.json` quotes the sentence.

| Run | What happens |
|---|---|
| `threads_exit_at_quantum` | an exit that is the last instruction of a quantum is undone: the thread is queued as ready and `load_thread` clears `halted` |
| `calls_reentry` | a loaded module entered a second time while a call into it is going on runs on an empty block: reads yield 0, stores are dropped |

`threads_fair` has guests without nested calls: inside one,
`nested_interpreter_loop` counts no instructions, so a callee that never returns starves
every other thread. Tk's sends are left out of `threads_channels` because
`send_to_named_channel` writes over a full slot (`NoPayloadOverwritten` is about the channel
opcodes). `FrameMatchesModule` speaks of calls that come back through `ret`, since exits and
errors leave frames behind.

The properties of `limbo` and `toolchain`, in words:

- `OutcomeIsMeaning`: when `init` has returned, the numbers in the module's variables are those
  that `LimboMeaning` computes from the tree (a program of several threads names the
  outcomes it may have). A slot that is reused too early, a jump patched to the wrong place, a
  parameter at another offset for caller and callee, a value of the wrong width all end here.
- `WritesStayInFrames`: what an instruction writes into the stack lies inside one frame, and
  inside the current one where its operand is a slot.
- `DescriptorsCoverPointers` and `MarkedWordsAreAlive`: an id is only ever kept where a descriptor
  says that there is a pointer, and what a marked word names is not freed: the compiler's choice
  of move, the counts of the interpreter and the descriptors agree.
- `EveryProgramEnds`: liveness of compiled programs with alts and full channels.
- `ReadsBack`: a text that `SourceText` writes is parsed into the tree it was written from, and
  what is no Limbo is refused.
- `LoadsBack`: the loader gives back the module that was written, and what is not valid is
  refused; a type map marks in the heap what the compiler marked.
- `CutFilesAreRefused`: a file without its last 1, 2, 5 or 12 bytes is no module.
- `DataIsMeaning`: every global has in memory the value its declaration means, arrays of arrays
  and defaults included, and every constant too large for an operand is where the code reads it.
- `CasesFindTheirRange`: the binary search ends at the target of the range that holds the value,
  and otherwise at the default.
- `ImportsAreBound`: a call through a loaded module reaches the export it names, with a frame of
  that function's type, and a path that leads nowhere gives nil.
- `NumbersAreExact`: the result of an operation is the number `NumberMeaning` says: bits that were moved,
  powers by repeated multiplication, the fraction that fixed point comes near within the error its flags
  allow, products with infinities and NaN and the words they saturate to, the nearest number of `Precision` digits in the shorter of its two forms, the longest prefix
  that is a number.

Bounds, and why they are enough.

- Three guest threads: a wake-up race needs one that blocks, one that releases it and
  one that takes the transfer first; rotation past a blocked thread needs one more behind it.
  `MaxThreads` guards `Spawn` only.
- Two channels separate "blocked on c" from "blocked on another channel" and from the alt
  marker. Runs about the loops rather than about selection use one.
- Quanta of 2 (and 1 in the pool) put the end of a quantum after any instruction of any
  pair; 2048 differs in how often it happens.
- `MaxInstr` = 2 in the pool: a thread can block, be released, transfer and fail. The
  number of instructions retired is part of the state (the pool compares the
  counters), so it has to be bounded.
- Five frames: main, a loaded module, main again, another module, and a frame pending, or
  three nested calls with a call inside one of them. Six frames were checked as well.
  `MAX_FRAMES` is also the code's own limit, in frames instead of bytes.
- Three heap objects: an array, a slice of it and what is stored in it; a list of two with a
  head. Two threads share only by spawn, which copies every word. `MaxCount` = 5 is beyond what
  the holders of three objects reach; `MaxRefs` = 1 keeps one element reference, which lives for ever.
- Two files and five descriptors: standard input, output, error and two that are opened, so that a dup can
  hit a file, another file, a free number or one beyond `next_fd`.
- `WordMax` = 127 makes an int 8 bits and a big 16: overflow and a value kept in the wrong
  width show with small numbers. Addresses do not wrap. In data files an int has 10 bits
  (`WordMax` 511), because offsets are part of the data there.
- `MaxArrayBytes` = 256 and `MaxData` = 1024 stand for the loader's limits of 64 MiB; there
  are arrays on both sides. `Precision` = 3 stands for the 6 digits of %g.
- A byte has 2 bits, a short 4, a word 8, a big 16 in `Numbers`; all exponents of a power
  and all shift counts of a word are tried.

Deadlock is checked in the runs of threads, pool and calls: the end of `run` is an explicit
stuttering action. The other models really stop: the bounded heap and table when a bound is
reached, a program when it ends, the toolchain when there is nothing left to do with an artefact.

TLC evaluates a constant operator anew wherever it is used; `MCToolchain` and `MCLimbo` therefore
compute images, outcomes and sources once, as constants, and an `ASSUME` in the module of the properties
says what each constant has to be.

## 4. Fairness

`VmThreads` has weak fairness on `Next` as a whole, nothing more: the host keeps the VM's OS
thread running. Everything between threads (rotation, wake-up, loans) must follow from what the
code does, and `RunnableThreadRuns` shows that it does. `ThreadPool` has weak fairness per
worker: the host runs every worker thread that can run. There is none on spurious
wake-ups, and weak fairness on a lock means that a worker which waits for a lock that is free for
ever gets it, not that it wins against others. In
`GuestThreads` the fairness is the promise: a thread whose transfer stays possible is served.
It is weak: the live VM does starve a sender when others keep filling the slot first, and the
abstract specification allows that. `DisMachine` is fair to each thread: one that does not
wait is stepped again and again, which is what `RunnableThreadRuns` shows of the run loop; it is
written with the condition under which a thread is ready in place of ENABLED, which TLC would
have to search for. `ModuleCalls`, `Heap`, `FileTable` and `Toolchain` state safety only.

## 5. What is proved

Every theorem holds for all values of the constants that satisfy the assumption of its module
(named below; TLC evaluates it in every run). They are listed with their properties
under `theorems` in `PROJECT.json`. Each invariant called `IInv` has been checked by TLC before it was
proved, and each proof of it has one lemma per action.

### The run loop: `VmThreadsProofs`

For every set of channels, every set of guest instructions, every positive number of threads and all
positive quanta (`ConstantsAssumption`; otherwise it says only that `NIL` and `None` differ from everything
else):

- `RunLoopInvariant`: `Spec => []IInv`
- `TypeCorrect`: `Spec => []TypeOK`
- `NoLostWakeUp`: `Spec => []BlockedCannotProceed`
- `DeadlocksAreReal`: `Spec => []DeadlockIsReal`
- `ThreadsAreConserved`: `Spec => []NoThreadLostOrDuplicated`

and for guests without Tk's sends, which do write over a full slot:

- `PayloadsArrive`: `Spec => NoPayloadOverwritten`, an action property
- `RunLoopRefinesGuestThreads`: `Spec => Guest!Init /\ [][Guest!Next]_Guest!vars`

The argument. `BlockedCannotProceed` is not inductive: that a thread marked as blocked is stuck
does not say which channel it is marked with, and `unblock_channel` looks at nothing else.
`IInv` adds it: `WellMarked` ties the mark to the instruction (the channel of a send or recv,
the alt marker for a well-formed alt table), so that a transfer on a channel either
clears a mark or concerns a channel the thread does not wait for. `QueueInv` states this
together with the distinctness of the queued threads as a predicate of a queue, the threads
that must not be in it, the stuck instructions and the slots; one lemma for each thing the code
does to a queue (suspend, rotate past the blocked ones, take one out, unblock after a transfer)
shows that the predicate survives it. `Positions` accounts for every live thread: installed, parked
under a read, or queued. `DeadlockIsReal` then follows where the deadlock is reported: nobody in
the queue is runnable, so all are stuck, and the blocking thread is stuck by the test it
has just failed. The refinement uses the same invariant: a dispatched instruction is a step
of its thread in `GuestThreads` or, when it blocks, rotates or lends the VM, a stutter, and the
step that ends a run with a deadlock is allowed because the deadlock is real.

### The pool: `ThreadPoolProofs`

For every finite set of workers that is not empty, every number of threads and channels, every guest, every
quantum and every bound on the number of instructions (`PoolConstants`):

- `Invariant`: `Spec => []IInv`
- `TypeCorrect`: `Spec => []TypeOK`
- `NoLostWakeUp`: `Spec => []NobodySleepsOnWork`
- `ThreadsAreConserved`: `Spec => []PoolConservesThreads`
- `DeadlocksAreReal`: `Spec => []PoolDeadlockIsReal`
- `OkIsEarned`: `Spec => []OkMeansAllExited`
- `RetriesAreNotMissed`: `Spec => []ParkedThreadIsRetried`
- `PoolRefinesGuestThreads`: `Spec => Guest!Init /\ [][Guest!Next]_Guest!vars`

The argument. `WorkersInv` is the lock invariant: who has a thread in hand, that only the holder of the shared
state is in its quantum, and that `running` is the number of hands. `PlacesInv` gives every thread one
place among the queue, the hands and the threads spawned in a quantum that is not over, `StatesInv`
ties `VmThread::state` to the place. The heart is `ParkedInv`. The pool compares two
counters that are written under different locks, so none of the properties follows from the
queue alone: a thread parked at `blocked_at` is stuck, or an instruction has completed since and `progress` has
passed `blocked_at`; and the pool's copy `seen` is up to date, or a worker
that will bring it up to date is still in hand. So when a worker finds nobody running and everyone
parked at `seen`, `seen` is `progress`, and everyone is stuck. `EndsInv` carries this over from
the worker that reports to the one that `run` asks.

### Cross-module calls: `ModuleCallsProofs`

For every set of loaded modules, every set of pcs, every handler table
and every positive frame limit (`CallConstants`):

- `Invariance`: `Spec => []IInv`
- `TypeCorrect`: `Spec => []TypeOK`
- `ContextRestored`: `Spec => []ContextIsRestored`
- `DataNeitherLostNorDoubled`: `Spec => []DataInOnePlace`
- `ModulesRunOnTheirData`: `Spec => []RunsOnOwnData`
- `FramesMatchModules`: `Spec => []FrameMatchesModule`
- `FramesKept`: `Spec => CallersFramesKept`, an action property

The argument. That the context is right when the host stack is empty says nothing about what the
calls still on it will restore. `IInv` therefore keeps, for the calls on the host stack, the
sequence of contexts they were entered from (`Restorable`): the first is the one `run` began
with, the last is the present one, and leaving a call (`RestoredTo`) turns each into the one
before it. A call keeps this because leaving it at once would undo it (`EnterContext`, which is
where the innermost entry of the caller stack matters); an end of a call keeps it because it drops the last
context, on whichever path. `Restorable` quantifies over all sequences of contexts, so TLC cannot
evaluate it; the rest of `IInv` is `FramesInv`, which it can check
(add it as an INVARIANT to `ModuleCallsNesting.cfg`). It says that saved bases
lead down the stack and that no frame above an unwind floor returns to one below it, for the
present floor and for every floor a call has saved. One lemma for each thing done to the stack (truncate,
push a pending frame, activate it, enter and leave a call) shows that it survives.
An exception stays above the floor because the frame that the handler's frame called lies above
it (`ActiveHasCallee`).

The contexts in that sequence satisfy `DataInv`, a predicate of a context: every block is in use, at home or on the
caller stack, never twice and never nowhere, and the data of the main module is where `ParkedMain` looks for
it. It need be shown once, for entering a call; leaving one restores a context that satisfied
it before. `FrameMatchesModule` needs to know to whom the frames further down belong, because a
return makes one of them current: `OwnersInv` says that the frames between two unwind floors were built for the module the
call between them was made from. It holds while `abandoned` is empty; section 8 says what happens
otherwise. `PlacesInv` (which is `DataInv` of the present context) and `FrameOwnersInv` can be added to `ModuleCallsNesting.cfg` too.

### Descriptors: `FileTableProofs`

For every finite set of files and FD records, every size of the table above its three standard descriptors, and every
bound of a queue (`FileConstants`):

- `Invariant`: `Spec => []IInv`
- `TypeCorrect`: `Spec => []TypeOK`
- `WritersAreCounted`: `Spec => []WritersCounted`
- `OwnersOwnTheirs`: `Spec => []OwnersOwn`
- `PipesEndOnce`: `Spec => PipeEndsOnce`, an action property

The argument. Several calls close one descriptor and open another, and in between a handle exists that is counted but not yet in the
table. `Awaiting(t, h)` is the invariant of such a table: it
counts h as well. Every helper of the table has a lemma that leads from one `Awaiting` to another;
between calls nothing is awaited. That numbers from `next_fd` on are closed and owned by nobody is needed
because `OwnersOwn` would otherwise not survive an open. `PipesEndOnce` also relies on the
table while a read waits: `calls` may hold two reads whose pipes the guest closes in the meantime. Reclaiming
descriptors is a recursive function over their numbers; `Induction` has what it takes to reason about one.

### The heap: `HeapProofs`

For every finite set of ids, threads and words of a thread, all contents of strings and all bounds
(`HeapConstants`), and for every guest that counts what it copies (`CountsItsCopies`):

- `Invariant`: `Spec => []IInv`
- `TypeCorrect`: `Spec => []TypeOK`
- `NothingInUseIsFreed`: `Spec => []NoDangling`
- `EveryHolderIsCounted`: `Spec => []CountsCover`
- `SlicesKeepTheirArray`: `Spec => []SlicesShareTheirRoot`
- `MemoryIsSeparateWords`: `Spec => SeparateWords`, an action property

`CountsItsCopies` excludes the opcodes that copy an id as plain bytes (movm, consm, headm, send, recv), and a spawn
by a thread whose caller stack holds an id: with any of them `NoDangling` is false (section 8). The guest
of `HeapCounts.cfg` satisfies it with all other opcodes.

The argument. Within an opcode the counts do not match the holders: an id is counted before it is written, or still counted
after the word that named it is overwritten. It is in hand. `Covers(h, e)` says that every count of the heap
h covers the holders of the object and what the function e says is in hand; a lemma for each operation (count, release,
write a word, allocate, copy on write) says how e changes, and an opcode is sound
because its operations lead from nothing in hand to nothing in hand. The order matters: `dec_ref` may free an object and
with it whatever that one held, so writing the new id before counting it, or releasing the old one first,
breaks the chain. The lemma about `Released` says that what a release and its cascade free is named by nobody and not
in hand. The sweep is sound because nothing it keeps names anything
it frees; it needs `DeadHoldNothing` (the roots are the words of the living) and `ModulesHoldNothing` (module
objects survive unmarked). `RefsNameArrays` says that a store through an element reference, which is not counted, hits an
array or is dropped, and never the fields of a module object. `SeparateWords` compares what the guest sees before and
after: copy on write replaces an id and changes no contents, so that sharing of strings cannot be observed.

### Case tables: `CaseSearch`

For tables of any length, with any bounds and any value, if the ranges follow each other:

- `SearchFindsTheEntry`: the loop shared by casew, casec and casel ends at an entry that has the value, or at the default
- `WordCaseFindsItsRange` and `BigCaseFindsItsRange`: for ranges of words, and of numbers of two words

The argument is the loop's invariant (`Narrowed`): after k turns at most n - k entries remain, the value is after all entries
in front of them and before all behind. For the ranges it remains to show that the sides of a value
are in order: after some entries, in at most one, before the rest. For bigs that needs `BigBefore`
to be a strict order of pairs of words. That `DataImage` reads the right words of a table is what `CasesFindTheirRange`
checks; for casec there is `SearchFindsTheEntry` only, which supposes that the strings of a table are in order.

### Files, imports and data: `LoadingProofs`

The file format. For modules of any size, with any instructions, types, items of data, names, exports, imports and handlers, with
any signature or none:

- `WrittenModulesAreLoaded`: the value of `Load(file)` is the module the file was written from, and the file is refused
  exactly if that module is not `Valid`
- `CutModulesAreRefused`: every part of the file from its beginning is refused; only the last byte may be missing, and only
  if the flags announce no imports
- `OperandConveyed`, `InstrConveyed`, `DataConveyed`, `HandlerConveyed`, `SectionConveyed`: the same of the parts

They are what `LoadsBack` and `CutFilesAreRefused` say of the files of the `toolchain` run. The hypotheses are two. The file is
`Writable`: the writer has not refused an operand beyond 30 bits. And `IsModule(m)`: the
words, names and kinds are those `module.rs` can hold, and the header counts the sections. It excludes what the
writer does not convey: a module whose header announces imports and has none (the byte after the
section is left out, writer.rs:91, and waited for, decode.rs:318), one that announces handlers but no imports (the count
of imports is written anyway, writer.rs:80, and read as the count of handlers), and a handler with more named cases than 16
bits count. The compiler makes none of these: it always announces imports, and one block of them.

The argument. `Conveys(f, at, s, got, x)` says of a reader that got something at a place of the file f: if the bytes s are there, it is x
and the reader stands behind them; if the file ends among these bytes, it was refused. The second half is why cut files are refused, and it needs
the same induction as the first. Two lemmas, `Compose` and `Afterwards`, put one reader behind
another. An operand conveys its number because the bits that hold its form and sign are apart from those that hold its value
(`FormsAreOperands`). `GatheredConveyed` is the induction over a list of things; it carries over to the readers of fields,
parts, things and sections. The counts of `ReadMany` are bounded by the bytes that are left
(`capacity_for`), so every thing has to take a byte (`ThingTakesAByte`). The data section is the only one without a count: the proof shows
that the loader goes on as long as there are items, because the first byte of an item holds its kind, which is not
0 (`ItemBegins`), and stops at the null byte. The writer's last section is not announced when
there are no imports, and `SectionsAreWritten` says what is left unread then: its count.

Not covered: that the bytes of a name are UTF-8 (a name is a sequence of numbers without 0, and a string of the data any sequence), and
what the loader makes of files that the writer did not write.

The binding of imports. `NamesDecide` is about `op_load` alone: a wanted function is bound to the first export of its name, only if
there is none to the first of its signature, and else to nothing. `CallsReachTheirExport` puts it behind `WrittenModulesAreLoaded`: a module
is written and lies in the first of the candidate files that holds any module; then `mcall` goes to the pc of the
export of the wanted name, and `mframe` makes its frame. Candidates are any sequence of paths: the theorem does not depend on
how `module_candidates` makes them out of a path, which `ImportsAreBound` checks. It supposes that the module exports
the name once; `$self` and built-in modules are not part of it.

The data. `WrittenValuesAreRead` and `OtherValuesAreKept` are about memory of any size: what is written where there is room
is read again, and what is beside it keeps its value, whatever the widths and places. The invariant is
that each byte says of which value it is which part (`WritingIs`), so a value that lost a byte to its neighbour would read as `Garbage`.
`ItemsArePlaced` is about one item of a data section as `init_mp` handles it: values, texts and arrays, in the data or in the array that is being
filled. It says what is read there and that nothing else changes, neither the rest of the memory, nor the other objects, nor, while an array is being filled, the
data. An array is the case with a condition: it must not have more than `MaxArrayBytes`, or `init_mp` leaves the id out.
Both suppose `IsImage`: arrays have their bytes, and what is being filled is one of the objects. It holds at the beginning (`FreshImage`), and
`ItemsKeepTheImage` says that it holds again after every item, if an array is only entered where one was placed.
That a whole section ends with every item in its place, which needs in addition that items do not overlap, is `DataIsMeaning`, and stays with TLC: it is an
induction over the fold in `InitMp`, whose step is an operator.

### What is only model-checked

- Liveness (`RunnableThreadRuns`, `LoanIsReturned`, `DeadlockIsReported`, `PoolTerminates`, `EveryProgramEnds`) and the
  fairness in the two refinements: ENABLED is out of the provers' reach. What is proved of the refinements is
  that initial states and steps map to initial states and steps or stutters.
- The properties of `limbo` and `toolchain` but for what `CaseSearch` and `LoadingProofs` say of their parts. They are about what
  recursive operators over trees and texts compute. The
  library's induction theorems take an operator as a parameter, which no prover here instantiates; `Induction`
  restates induction and recursion over numbers with sets and functions, which is enough for the recursive functions of
  `FileTable`, `ThreadPool`, `CaseSearch` and `Format`, but an operator declared RECURSIVE cannot be reasoned about at all, and the parser and
  the generator are written with such operators. `Toolchain` uses them, so `LoadsBack` and `CutFilesAreRefused` themselves, which are about its states, stay with TLC.
- What the two findings and section 8 refute.

## 6. Not modelled

- The cooperative `Scheduler` and `channel.rs`: only tests call them. The debugger: planned.
- Threads inside module calls: `ModuleCalls` has one guest thread and `VmThreads` no module data.
  A spawned thread copies the data and the caller stack of its creator (`op_spawn`), so
  two threads inside one loaded module hand back different copies.
- Strings, bytes, reals, slices, exceptions, methods and imported functions in `Codegen` and
  `DisMachine`; the generator's rejections of ill-typed programs.
- Numbers with a radix or an exponent, `\u` escapes and literals beyond 64 bits in `Lexer`.
- IEEE rounding, overflow to infinity and the sign of zero, and with them the arithmetic of `ops/float.rs`, `expf`, `cvtrf`, `cvtfr` and all of
  `math.rs`; infinities and NaN written in capitals.
- Offsets, seek, directories, path resolution and the bytes of files; the formatting functions of
  `sys.rs`; graphics, sound, Tk but for its sends; the command line.
- The windows of virtual addresses (`address.rs`) are disjoint ranges by construction; frames and the data
  of other modules are not reached through them.
- The signature of a signed file is kept by the loader and not checked by anybody, so `SignFile` puts
  any there; a module that is not the main one loading another one; the tables of `$Sys`, `$Math`, `$Draw`, `$Tk`.
- The periodic collection in `run` and tracing: no effect on the scheduler's state. `Collect` in `Heap`
  may happen between any two instructions.

Some definitions are stated without a run of their own: every `TypeOK` and, but for `VmThreads`, the `IInv` behind it
(all proved), `FramesInv`, `PlacesInv` and `FrameOwnersInv` of `ModuleCalls` (parts of what is proved), and
those that section 8 names because the code violates them.

## 7. Plan

1. Proofs: that a raise lands on the frame of its handler where no error has left a nested call; that
   the items of a whole data section are where `DataMeaning` says.
2. The debugger's loop as a variant of the step in `VmThreads`, and the cooperative `Scheduler`
   as a third implementation of `GuestThreads`.
3. The windows of `address.rs`, encoded and decoded, with a proof that they are disjoint.
4. Two guest threads in `ModuleCalls`, for copies of module data.
5. Strings and exceptions in `Codegen` and `DisMachine`.

## 8. Where the code and its promises differ

Found while modelling; the passing runs leave these cases out, each at the place named.

Scheduling and calls (`threads_*`, `calls_*`):

- The two findings of section 3.
- `PidsAreStable`: a thread that runs in the slice of a waiting read sees the reader's pid and is queued
  again with it (`sys.rs:644`). Check it with `VmThreadsHost.cfg`.
- `EveryExitIsRecorded`: a thread that exits in such a slice leaves no exit record, so the read of `/prog/N/wait`
  that ran it answers 0 bytes.
- A thread that fails in such a slice is queued again, and its error is that of the reader's read (`sys.rs:644`). `FaultInReader` does the
  same; no property says whose error it is.
- `ExitEndsThread` with a quantum of 8, nested calls in the guest: an exit in a cross-module callee ends the
  callee only (`ops/control.rs:479`).
- `HandlerRunsOnItsFrame`: an error that leaves a callee and is caught in the main module leaves the callee's
  frame in use (`vm.rs:640`).

Heap and descriptors:

- send and recv copy a payload without counting the pointers in it (`ops/concurrency.rs:551`), and so do
  movm, headm and consm. With `Program <- SendingGuest` and `Made = {"channel"}` in `HeapCounts.cfg`,
  `NoDangling` is violated: a sender that drops its own reference frees what is in the channel.
  A spawn copies the caller stack uncounted (`Caller = {}` in the run).
- A listener is lost when accept fails (`filetab.rs:986`), against the comment at `filetab.rs:978`:
  `ListenKeepsDescriptors` is violated with the constants of `FileTable.cfg`.
- The FD records of `sys->pipe` own no descriptor, so reclaiming a write end never lowers the count
  (`sys.rs:1214`).

Limbo's code generator (`limbo/codegen.rs`), left out of `LimboPrograms`:

- The result of a local function that returns a list or a reference is moved without counting it. Arrays of
  references are unmarked (5794, against the comment at 5791), and tuples with reference fields are copied
  uncounted. `Programs <- MCRefs` in `Limbo.cfg` runs such a program.
- A comparison of references outside of a condition is always true; `%= &= |= ^= <<= >>=` add; a
  compound assignment to a field does nothing; `len` of a list is 0; `!` of a big leaves its high half.
- Constructors write their target before they read their operands (`p = ref Node(v, p)`).
- `if (c) return;` at the end of a function drops the final return; an assignment inside an expression to anything but a
  name is dropped; `hd l` is always moved as a pointer and `big :: l` keeps one word; a tuple field takes a
  temporary of one word; big fields of tuples count as words in arithmetic.
- Declared arrays (`a: array of int`) are indexed as strings; `a[i] = p` does not count; nested tuples, tuple
  globals and discarded tuple results get too little room; the descriptor of a function with 13 or more word
  parameters and no temporary stays at 80 bytes; a channel of references moves words.
- The `*` arm of a case matches in its place among the others; `&&` gives the value of its right side; tables about
  arrays, channels and ADTs of locals survive the end of their function.

Limbo's parser (`limbo/parser.rs`), left out of `LimboSources`:

- A statement of a case arm that does not parse is skipped with the rest of the arm, silently; handlers are parsed and
  dropped; the size of a channel, a local con or type are dropped; `(x, int) := t` declares a name.
- `* or p` is accepted in case and refused in alt and pick, although the comment at 103 names all three; a labelled
  block before another arm is taken for a pattern; an array element that begins with `*p` is refused; what needs more than 60 tokens of
  lookahead is read as something else.

Constants and module data (`limbo/codegen.rs`, `limbo/includes.rs`, `limbo/symtab.rs`), left out of `LimboSources`:

- A variable initialised with a big constant and no type gets a slot of one word; `r: real = 1` writes a word into a
  real; casts among integer types do not narrow in a constant.
- iota is 0 in every constant of an included file outside of a module block, and outside of a con; included files
  know no `len`; references to constants declared later are refused; a variable before the module block it
  imports from stays unresolved; a module block that has an error hides the good value of the
  symbol table.
- The items of an array that the loader refuses as too large are written into the data around it (`data.rs:148`).
- The comment of `PointerMap` (`ricevm-core/src/types.rs`) numbers bits from the least significant; the writer and
  the collector use the most significant first, as `Traced` says.

Linking (`ops/control.rs`), left out of `DisModules`:

- A function that is found neither by name nor by signature is called by its place among the exports; signature 0
  matches the first export that has it; a load of `$self` looks at signatures only.
- The comment at 216-225 says that a directory pointing at `dis/` cannot answer for `dis/lib/`: it does
  when the wanted file is missing or is no module.
- A case table with a negative count is read as a huge one.
