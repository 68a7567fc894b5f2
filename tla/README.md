# Thrax: a TLA+ verification of its compiler, engines and tools

Thrax is a pure, statically typed language with effect handlers. Its compiler
and tools are written in Rust (`crates/`), its native programs run on a C
runtime (`crates/ccg/src/runtime.c`), and part of the runtime is written in
Thrax itself (`library/`). This directory holds TLA+ models of two halves of it.
The one is the parts whose correctness depends on the ORDER of steps: threads
that share a task pool, transactions that race, cooperative tasks over channels,
an editor that types while the language server checks, and a cache of checked
modules that lives across compiles. The other is what a program goes through:
type inference, desugaring, the lowering passes, the interpreter, and the C code
generator with its runtime, each against a reference that says what the program
means. TLC checks the models on small instances; TLAPS proves some of
their invariants for every value of the constants. Paths below are relative to
the root of the repository.

- [Inventory](#inventory)
- [Modules](#modules)
- [Runs](#runs)
- [Findings](#findings)
- [Proofs](#proofs)
- [What is not modelled](#what-is-not-modelled)
- [Plan](#plan)

## Inventory

| Component | State it keeps | Operations | Interacts with | Hard behaviour | Correct when |
|---|---|---|---|---|---|
| Task pool (`runtime.c` 3597-3870, `library/PAR.thx`) | a deque per thread, a state per task, `g_queued`, `g_io_pending`, one mutex and condition | `@par`, `@spawn`, `@await`, worker loop, join at exit, shutdown | STM and channels wait through its help loop; globals too | threads interleave at every atomic access; sleep tests read atomics that change without the mutex; helping stacks tasks on one thread | each task is called once; no wakeup is lost; the program ends, and not before its `@spawn` tasks |
| STM (`runtime.c` 4084-4280, `library/STM.thx`) | a version and a value per TVar; a log per THREAD | `atomically`, `read`, `write`, `retry`, `or_else` | a waiting transaction helps the pool | commits between two reads; logs truncated by alternatives; a log shared by what a thread stacks | every transaction is one step |
| Async groups (`library/ASYNC.thx`) | ready queue, channels with buffers and parked tasks, waits for descriptors | `yield`, `spawn`, `chan`, `send`, `recv`, `wait_fd`, `run_async`, `run_io` | `poll(2)` through the POSIX library | parked continuations are one-shot; poll can fail | FIFO channels, nobody parked in vain, no task lost or starved |
| Tasks on one thread (`interpreter/src/machine.rs` 324-485; `runtime.c` 3876-3967 and the branches without threads up to 4276) | a queue of spawned tasks, the stack of those started, channels, one transaction log | `@spawn`, `@await`, `new`, `send`, `recv`, `atomically`, `retry`, the program's end | the same library modules as the pool | a task runs to its end on top of whatever needed it; the queue keeps entries of tasks an `@await` started; native rings wrap and grow | both engines start the same tasks in the same order; the program ends, or reports a deadlock, only when no task waits to be run; no commit fails |
| Native channels (`runtime.c` 3982-4082) | a ring per channel, with threads under its own mutex | `new`, `send`, `recv` | pool's sleep and help | two mutexes and a broadcast | as async channels, across threads |
| Global values and shared thunks (`runtime.c` 3560-3597, `ccg/src/lib.rs` 150-190) | an owner and a state per global | `force_code`, `force_shared`, `mark_level` | helping | the owner helps with a task that forces the same global | computed once; a cycle is told from a race |
| Type inference (`typing.rs`, `typing/`) | type variables with levels, scopes, the declared types and effects, an ambient effect row, notes for desugaring | check a component of definitions | desugaring reads the notes | levels, rows that grow, opaque types of a clause, two modes, one decision taken again by desugaring | an accepted program runs without a fault to a value of its type |
| Patterns and usefulness (`typing/patterns.rs`, `usefulness.rs`) | none across calls | type a pattern, check coverage | type inference | matrices of nested patterns, integer ranges at the edge of a width | a covered match never fails |
| Desugaring (`desugar.rs`) | none across definitions | rewrite to Core | the checker's notes, the layouts of declared types | slots by name and by position, lazy slots, record parameters | the Core means what was checked |
| Lowering (`passes/`, `ir/`) | none across calls | context specialisation, eta folding, match compilation, A-normal form, De Bruijn indices, closure conversion, borrow inference, ownership | both engines run its IR | names that capture, slots shared by a handler's body and the code after it, last uses that are not last in time | the IR does what Core means and gives every reference away once |
| Interpreter (`interpreter/src/machine.rs`) | a continuation, activations, a counted heap, globals | one step per node | lazy slots and globals start nested runs | continuations resumed twice or never, cleanups, recursive closures that reach themselves weakly | shows what Core means, reads nothing emptied or freed, leaks nothing |
| C generator and runtime (`ccg/src/gen.rs`, `runtime.c` 1-3560) | counted cells, activations, a temporary pool, captured slices | a block of C per step, C functions for code that never suspends | the same IR | in-place updates, lent parameters, a C stack that fills up | as the interpreter; every count exact |
| Resident modules (`driver/resident.rs`, `driver.rs`) | kept checkers, a shared type store, ids, the lowered prefix | check a run, lower it | REPL, LSP, embedding API | edits between compiles, lenient rounds, failing imports, truncation of the store | a reused module is what a check from scratch would give |
| Metaprogram expansion (`driver.rs` 952-1190) | expanded sources, round number | expand, splice | resident modules | rounds that do not settle | ends within 100 rounds with a strict check |
| Language server (`lsp/server.rs`, `lsp/analysis.rs`) | open documents, snapshots, failures, three kinds of deadlines, a queue | notifications, requests, `tick` | reader thread, resident modules | messages arrive while documents are checked; deadlines fire late, after edits or a close | diagnostics are of the newest text, never go back, and come in the end |
| Formatter, lexer, parser, REPL, command line | little | conversions and I/O | the compiler | grammar and layout | |

`PROJECT.json` lists the components with their status, and under `hazards` the
places where a test would hardly reach what can go wrong, each with the
properties that cover it.

## Modules

| Module | Models | Extends |
|---|---|---|
| `ParPool` | the threaded build's work-stealing pool, one step per shared access | |
| `ParPoolProofs` | theorems about it: stacks, claims, the join | `ParPool` |
| `PoolSleepProofs` | theorems about it: what is queued, who sleeps | `ParPoolProofs` |
| `AtomicStm` | what `library/STM.thx` promises: a transaction is one step | |
| `Stm` | the transaction log of the runtime, as `atomically`, `attempt` and `or_else` drive it | refines `AtomicStm` |
| `StmProofs` | theorems about it, the refinement among them | `Stm` |
| `Async` | `schedule`, its queues and channels, `run_async` and `run_io` | |
| `AsyncProofs` | theorems about it: channels, tasks and messages | `Async` |
| `TaskQueue` | tasks, channels and transactions of the interpreter, on one thread | |
| `TaskQueueProofs` | theorems about it | `TaskQueue` |
| `TaskRing` | the same in a native program built without threads | refines `TaskQueue` |
| `TaskRingProofs` | theorems about it, the refinement among them | `TaskRing`, `TaskQueueProofs` as an instance |
| `Resident` | the module cache and the lowered prefix | |
| `ResidentProofs` | theorems about it: reuse, what fits together, ids | `Resident` |
| `LspServer` | the server's loop, documents and deadlines | |
| `LspServerProofs` | theorems about it | `LspServer` |
| `Core` | the Core language: terms, patterns, free names | |
| `Matching` | match compilation | `Core` |
| `Ir` | the IR that every engine runs | `Core` |
| `Lowering` | A-normal form, De Bruijn indices, closure conversion | `Ir` |
| `Ownership` | borrow inference and the ownership pass | `Lowering` |
| `Specialize` | context specialisation: clones for known bundles, lifted methods, the caps | `Core` |
| `EtaFold` | eta folding of primitives and methods | `Core` |
| `Passes` | the lowering pipeline, whole or onto a kept prefix | `Specialize`, `EtaFold`, `Matching`, `Ownership` |
| `Machine` | the interpreter | `Ir` |
| `Meaning` | what a Core program means: a reference, not a translation | `Core` |
| `Surface` | the syntax tree | `Unify` |
| `Unify` | types, unification, rows, generalization | `Core` |
| `Declarations` | declared types and effects, signatures | `Surface` |
| `Usefulness` | coverage of a pattern matrix | |
| `Patterns` | typing and coverage of patterns | `Declarations`, `Usefulness` |
| `Infer` | both modes of inference | `Patterns` |
| `Typing` | definitions, components, literals | `Infer` |
| `Desugar` | from the surface to Core | `Declarations` |
| `Frontend` | a program checked and desugared; `Inhabits`, when a shown value is of a type | `Typing`, `Desugar` |
| `Compiler` | the front end, the passes and the machine in a row, with the properties | `Machine`; `Frontend`, `Passes` and `Meaning` as parameters |
| `NativeHeap` | the runtime's memory: counts, activations, boxes, slices | `Ir` |
| `Native` | the blocks and functions that `gen.rs` emits, and the driver that runs them | `NativeHeap` |
| `NativeCompiler` | the passes, the generator and the generated program's `main` in a row, with the properties | `Native`; `Passes`, `Meaning`, the generator and the driver's step as parameters |
| `Samples`, `SurfaceSamples` | programs, in Core and on the surface | `Core`, `Declarations` |
| `MC*` | constants of the model-checked instances, where a configuration cannot write them | their module |

Operators keep the names of the functions they translate where there is one
(`task_claim`, `THxPAR_await`, `send_to`, `did_change`...). The operators marked
`Mutant` in their comments are wrong variants of the definition that follows,
used only to show that a property notices them.

**ParPool.** A thread is a chain of activities: `top[t]` is what it executes,
`below` what that activity interrupted, so that helping (running a queued entry
on top of the waiter) is a push. An activity's program point says which shared
access it makes next. `state` is `Task.state`, `deque` the deques, `queued`
`g_queued` modulo `Wrap` (it is a `size_t` and really passes below zero when an
entry is taken before it is counted), `mu` the owner of `g_mt_mu`. A sleep test
is two loads under the mutex that others' stores may separate, as in the C
code. `on` and `below` say where an executing task is stacked, `knows` which
futures an activity can reach, and `calls` is history. What a task's body does is free: it may spawn unspawned tasks and await
any future (`ForkJoin = FALSE`) or only those it spawned (`ForkJoin = TRUE`).
`SpuriousWakes` lets a condition wait return unasked, as POSIX allows.

**Stm and AtomicStm.** A transaction is a task; threads stack transactions
exactly when the code can: in `THxSTM_wait` (helping after a `retry`) and, if
`AwaitInTx`, in an `@await` within a transaction. The log is a sequence per
thread. Values are abstracted to who wrote them, which is enough to tell any
two states apart. The refinement mapping makes a transaction's commit, and
nothing else, a step of `AtomicStm`, in which reads and writes happen against
one state. Programs that never spawned a task are left out: there
`THxSTM_wait` ends the program with a fault instead of waiting.

**Async.** The two-list queue of the library is kept as two sequences, because
its order is what fairness rests on. A channel records its capacity (negative
requests are clamped to 0, as `chan` does), buffer, count, and the parked
senders and receivers; `sent`, `taken` and `got` are history. `poll_ready` is modelled by
what it can answer: any nonempty set of waiting descriptors, and, when
`PollFails` (as in the run), nothing, because poll(2) failed or the probe found the
descriptor drained.

**TaskQueue and TaskRing.** An activity is a task or the program; it runs until it
needs a task that has not started, which then runs on top of it, so the activities
are a stack and only the last one steps. What each does is free. `TaskQueue` keeps
the queue and the channels as sequences, as `machine.rs` does (`VecDeque`);
`TaskRing` keeps them as `runtime.c` does, an array with a head, a length and a
capacity that doubles, and its refinement mapping is `Contents`, the entries from
the head on. An entry outlives its task's start by an `@await`; `run_next_task`
passes over it. A variable is its version, and a transaction's log the versions it
saw and the variables it wrote. A commit advances a variable's version once, however
often the transaction wrote it: versions are only compared for equality.

**Resident.** A text is one of a few kinds: it gives the exported name, lacks
it, needs it from its import, warns, fails, or has a torn header. A checker is
identified by its text, the set-up it was checked under and the checkers it
imported, which is all that its result depends on; so "equal to a check from
scratch" is equality. The type store is its length; a kept checker remembers
where its types end. Compiles come as `file` (strict), `round` (lenient
expansion) and `session` (the REPL's). `LowerReusing` keeps and looks up the
prefix by ids as `lower_reusing` does.

**LspServer.** The reader thread appends to a queue and increments the counter
`tick` polls; the main loop takes a batch, handles it, then ticks in three
phases, looking at the counter after each document. A deadline is `waits` or
`ready`; time may ripen any of them at any moment, in any order, so every
configuration of delays is covered. A document's text is a version number and a
kind (fine, several errors, a load failure with a place in the document, one
without). One message, `hover`, stands for all requests that go through
`current`; `codeAction` also runs a trial, as the ranking does twice. An open
document has its analyzer's base: how the other documents read when it was built
(`stamps`), the generation, and the part of the type store after the base's mark.
`analyze` drops the old snapshot, keeps the base if `stamps_hold` and builds a new one
otherwise (a failed load leaves none), and `check_root` counts a generation and
rewinds the store; a trial does neither, and cuts its own types off when it ends.
`stamps_hold` compares what is read with what was read, so what a snapshot shows of
other documents is what its base read, however old.

**The compiler: `Compiler` and what it is built from.** A program is a value of
the model, and `Init` picks one, so a run covers every program of a set. A term is
a record, a name a tuple; the names that a pass invents are made of a tag and the
position of the term, so they are fresh as the code's are, and source names are
kept as written (which is what lets them capture). The passes are pure functions
and one step, `LowerProgram`; the front end takes a step per component of the
definitions (`CheckComponent`), then `DesugarProgram` or `Reject`. The checker's
state `c` is a record that its functions take and return, in the order the code
makes its calls: type variables with level and link, the trail that
`save`/`restore` use, scopes, the ambient row, the notes that desugaring reads.
Checking stops at the first component with an error.
`Compiler` and `NativeCompiler` take the pure functions they are put together from
as constant operators (`Lowered`, `Checked`, `Meant`, ...); the configurations
give them the operators of `Typing`, `Desugar`, `Passes`, `Meaning` and `Native`,
directly or through a definition of the MC module. TLC's statistics count an
expression once per way it can be reached, and these functions are recursive
through one another: as parameters they count as one expression (TLC then says
that it found no cost model for what is inside them, which concerns the
statistics only).

**Machine.** One action per IR node and per kind of thing on the continuation.
The heap is a function from addresses to cells; a strong count is the number of
references to a cell, computed rather than stored, and a cell nothing refers to is
gone. A value moved out of a slot leaves `Unk` there. The first read of a global and
the first look at a lazy slot push a nested execution; the node that wanted the
value starts over. `trace` is what the foreign function was given.

**Native and NativeHeap.** The generator's decision for a node and the effect of
the C it prints are one definition: `exec` runs a block of C to its terminator, and
a step of the driver loop is a step of the model (`Bounce`). The program is part
of the runtime's state. Counts are stored, as in C, so
that a wrong `retain` or `release` shows. `room` is the number of nested C calls
that still fit on the stack; a C function that finds none falls back on the
trampoline. The build is the one without threads; immediates are not told from
boxed integers, and the dead list is walked at once.

**Meaning.** An evaluator of Core with nested patterns, names, immutable
environments and immutable continuations, without IR, slots, counts or reuse. It
decides when an abandoned continuation runs its cleanups by what is still
reachable. `SameAsMeaning` and `NativeSameAsMeaning` compare an engine's outcome
(value or fault, and the foreign calls in order) with it. Two engines with
one reference also show that they agree with each other.

## Runs

Bounds that make an instance finite: `Tasks`, `NThreads`, `Wrap` (pool); `MaxLen`
slots of a channel that is still sent to, `MaxOps` log entries, `MaxVersion` commits
to a variable (tasks on one thread);
`MaxOps` log entries per transaction, `MaxMarks` nested alternatives (STM);
`MaxChans`, `MaxMsgs` (async); `MaxId` kept modules ever (resident); `MaxSent`
messages of the editor (server); `MaxVars` type variables of one program and
`Wide` = 2^30 for the 64-bit integer types (front end); `Rooms`, how many nested C
calls fit (native). A program itself ends: the graphs below are finite and
deadlock is checked, so every program either reaches an outcome or is rejected.

| Run | Shows |
|---|---|
| `pool` | `TypeOK`; `AtMostOnce`: a task's function is called at most once; `NoLostWakeup`: a thread sleeps although there is work or its wait is over only while somebody is on the way to broadcast; `QueuedCounts`: `g_queued` is the number of entries, plus those taken and not yet uncounted, minus those pushed and not yet counted, modulo its width; `ExitAfterIo`: main leaves only when every `@spawn` task is done; `PoolNotStuck`: with fork-join use of futures the threads never all sleep; and `MainExits` under fairness, through the join and through the shutdown. |
| `pool_await` | Violates `PoolNotStuck` (see findings). |
| `stm_atomic` | `Stm` implements `AtomicStm` (`RunsAsOneStep`); `NoMarkFault`: the mark of an `or_else` is never past the log's end. |
| `stm_await` | Violates `RunsAsOneStep` when a transaction awaits a future. |
| `async_group` | `ChannelFifo`, `ParkedForCause`, `OnePlace` (a continuation is in one queue), `DeliveredOnce`; `EndsBlocked`: when the group returns, also after a failed poll, every task that has not finished is parked for a cause that stands (a full channel, an empty one, a descriptor), and the answer is `None` exactly when main is one of them; and `ReadyRuns` under fairness. |
| `task_ring` | `EnginesAgree`: every step of `TaskRing` is a step of `TaskQueue`; `EndsAfterTasks`: the program exits, or a receive or a retry reports a deadlock, only when no spawned task waits to be run, and then what it waits for has not happened; `NeverConflicts`: no commit fails. |
| `resident_reuse` | `ReuseIsScratch`, `RewindSparesKept`, `PrefixHoldsUntilEmptied`. |
| `lsp_session` | `SnapshotTypesLive`: while a snapshot is held, its base has seen no later fresh check, and the type store holds its types and nothing else after the base's mark, so the assertion of `Snapshot::checker` cannot fire; `ClosedIsCleared`; `SavedIsSeen`: after a save, the base of another document's snapshot has read the saved version, or that document is queued; `PublishedForward`; and `Settles` under fairness. |
| `compile` | 701 Core programs (63 corner cases; every two-arm match over a list and a number; 13 over a library of contexts, methods and wrapped primitives, whose modules are lowered with the program or kept and lowered onto, `LowerOnto`) and 3226 surface programs (corner cases of each rule; families of lets, matches and handlers, well typed or not). `ChecksOut`: what the checker accepts ends in a value of main's type; `SameAsMeaning`; `ReadsLive`: no moved value is read (`NoEmptyRead`), and no freed recursive closure (`NoDanglingRead`); `NoLeak`: every cell is within reach of the executions and the globals; `HeapOK`: every reference leads to a cell, of the right kind where a let returns; `OnePendingPerSlot`: no two suspended lets return into one slot. |
| `compile_shadowing` | Violates `SameAsMeaning` with a let under a let's value. |
| `compile_opaque` | Violates `ChecksOut` with a literal given to a clause's continuation. |
| `native` | 704 Core programs, each with room for one, two and nine nested C calls: `NativeSameAsMeaning`; `CountsExact`: between two blocks every count is the number of references, from cells, activations, slices, the pool and the continuation; `NothingLeftAtExit`, but for the indirect cycles that `documentation/native-backend.md:395-401` admits. |

**Why the bounds are enough for what is claimed.**
- Pool: two threads and three tasks give an owner and a thief, an awaiter that
  helps two deep, both kinds of tasks, and the wrap of `g_queued`. A
  helping deadlock needs a task, its awaiter and a third task that awaits the
  awaiter: three. `Wrap = 16` is far above any count, so a wrapped value is told
  from a real one exactly as with 2^64. The theorems on this module remove
  the bounds for the safety half, and for all uses of futures where the property
  holds of them: the run has fork-join programs, with which a program always ends.
- Tasks on one thread: the program and two tasks nest three deep, in either order.
  A ring starts with one slot and grows twice, so it grows with its entries in order
  and wrapped, and drops one and two at once. One variable and two operations
  give a transaction that reads and writes, retries, and sees another's commit.
  The theorems remove the bounds for all four properties.
- STM: a lost update or a mixed snapshot takes two transactions and two
  variables; the third transaction lets one help while two others race. Two marks
  give an `or_else` within an `or_else`. The theorems remove
  the bounds for transactions that do not await.
- Async: one channel of either capacity with three tasks has parked senders and
  parked receivers at once in different states, refills, and rendezvous. The
  theorems remove the bounds for all but `ReadyRuns`.
- Resident: three modules in a chain reach the transitive case (a module whose
  import is unchanged but whose import's import is not). `StaleSlack` is the
  code's 64; `resident_reuse` uses -6 so that the set is dropped within 6 ids. Imports are
  acyclic: `load_core` loads a cycle, and the compile then panics in
  `prepare_checker` ("dependency checked first"). The theorems remove the bounds
  for its properties. The module claims no liveness.
- Compiler: the programs are small because a corner case is: two uses of one
  continuation, one escape, one shadowed name. What is covered is every node,
  pattern, builtin of the modelled set, typing rule and kind of call (each has a
  program, and every action of `MachineNext` and `NativeNext` fires), and in the
  families every combination of a few forms. `MaxVars` is never reached but by
  unification that does not end; 2^30 is far above every number written.
- Server: two documents and three messages reach every order of open, edit,
  save, close and request with a check, a grace and a rank deadline of either
  document pending. The theorems remove the bounds for all but `Settles`.

**Fairness.**
- `ParPool!FairSpec`: weak fairness of each thread's step: the operating system
  runs runnable threads, a free mutex is eventually acquired, task bodies end; and
  no thread is woken unasked for ever. Without the last, a sleeper that wakes again
  and again takes `g_mt_mu` each time, and a mutex promises the thread that waits
  for it to broadcast no turn: POSIX allows both, and no program could end under it.
- `TaskRing` and `TaskQueue` claim no liveness.
- `Async!FairSpec`: weak fairness of the scheduler's loop, which is one thread:
  tasks reach their next operation.
- `LspServer!Spec`: weak fairness of the server's loop and of the passing of
  time; none for the editor, which may stop for good.
- Deadlock checking is off where the system may legitimately stop: a program
  that exited, a group that returned, a server that waits for input. For the
  pool `PoolNotStuck` states the part of deadlock freedom that matters, for tasks on
  one thread `EndsAfterTasks`.

`SYMMETRY` is used only in runs without liveness: tasks of the same kind,
threads of the STM, transactions and variables are interchangeable there.

## Findings

Each is shown by a run that must be violated.

1. **Helping can deadlock the pool** (`pool_await`, `runtime.c:3812`). The
   comment above `THxPAR_await` says "a pool whose every thread awaits cannot
   deadlock". Main spawns A, B (awaits A) and C (awaits B), and awaits B. Main
   runs B in place; B finds A running on the worker and helps, running C on top
   of itself; C awaits B, which is buried below it. A finishes, nothing is
   queued, both threads sleep for ever. Fork-join programs are not affected.
2. **`@await` inside a transaction loses its log** (`stm_await`,
   `runtime.c:4172`). The log belongs to the thread; a task helped during the
   await runs its own `atomically` and clears it. `STM.thx:8-11` promises one step.
3. **Floating lets capture** (`compile_shadowing`, `a_normal_form.rs:175`).
   `let y = 1 in let x = (let y = 2 in y) in (x, y)` gives (2, 2): the inner let
   is moved above the outer one's body without renaming it, and no earlier pass
   made the names distinct.
4. **A clause can make up an opaque value** (`compile_opaque`,
   `algorithm_w.rs:2193`). `do throw 1 ctl k | throw m => k 0` passes at any type;
   `language-reference.md:1015` calls it an error. A literal is tied to the opaque
   type, and `default_numerics` skips constructors nobody declared.

Met while modelling and stated by the models, without a run of their own. Each is
reproduced by the change named in brackets.

- **A failing poll ends the group** (`ASYNC.thx:262`): EINTR and a drained
  descriptor give the empty answer that "means none ever will be"
  (`ASYNC.thx:124-125`), and `run_io` returns with tasks waiting, though it "sleeps in
  poll(2) until one is ready" (17-18). `EndsBlocked` is what holds all the same.
  [`SleepsUntilReady` as an invariant in `MCAsync_group.cfg`]
- **Native equality looks at no lazy slot** (`runtime.c:1080-1119`): a thunk on
  either side makes it false, so `1 :: delayed == 1 :: delayed` is true in the
  interpreter, which forces the operands first (`machine.rs:1300`), and false in
  a native program, and whatever the forcing would do is not done.
  [`MCLazyEq` in `native.cfg`]
- **A ranking can be dropped** (`lsp/server.rs:519`): due rankings are removed
  first and run only when no document is dirty; `documentation/lsp.md:87` says
  errors are ranked when typing pauses. [`CheckAll`, `TypingMethods` and
  `RankedWhenPaused` in `MCLspServer_session.cfg`]
- **Resident ids repeat** (`driver/resident.rs:144`): dropping the set resets
  `next_id` while the lowered prefix keyed by ids survives; `resident.rs:39` says
  ids are "Unique in the process". [`ShellTexts`, `ShellRoots`, `SlackOfCode`,
  `Modes = {"session"}`, `MaxId = 200` and `PrefixIsLowering` in
  `MCResident_reuse.cfg`]
- **A call at the end of a `defer` body gives a lent argument away**
  (`borrow.rs:397`): the body is walked as a tail position though the function
  goes on. [`MCDefer` in `native.cfg`] And a C function that does not fit on the
  C stack never drops an argument it ignores. [`MCRoom`, `Rooms = {1}`]
- **A closure escapes from a nested run** (`machine.rs:1596`): a global whose
  value is an inner closure of a local recursive function loses that function
  when the run that computed it ends, and the next call panics at
  `machine.rs:249`.
- **Decisions taken twice.** Positional fields after a named one
  (`algorithm_w.rs:1838`, `patterns.rs:715` count them all, `desugar.rs:1433`,
  `1684` only the positional ones) [`MixedPayload`]; the number of a definition's
  parameters when one destructures (`typing.rs:615` on the tree, `desugar.rs:1704`
  on Core) [`PatternParams`]; the layout of a tag that two unions share
  (`resolved.rs:369`) [`SharedTag`].
- **A spread over an anonymous record is not checked** (`algorithm_w.rs:1679`)
  [`SpreadRecord`].
- **An effect in a lazy slot** happens outside the handler around it, though it
  was typed as handled; `README.md:167` says an unhandled effect is a compile-time
  error. [`LazyEffect`] These five replace `RigidLiteral` in `MCCompiler`'s
  `MCOpaque`.
- **Eta folding does not look at repeated parameters** (`eta_fold.rs:226`):
  `eta_primitive` asks for as many arguments as parameters, in order, and its
  comment says "The parameters must be distinct"; `\a a => @iadd a a`, a
  definition that ignores its first argument, is folded to `@iadd`. [such a global
  among `Samples`' `Interfaces`]
- **Rows with one tail and different heads** (`unify/rows.rs`) are unified for
  ever; the model stops at `MaxVars` and calls the program stuck, which counts
  as not accepted.

Places where one document contradicts another, which no run can decide:

- `library/PAR.thx:11-13` says the interpreter "runs each task where it is spawned";
  `documentation/concurrency-design.md:393-399` says that of `@par` only, and that a
  `@spawn` task runs lazily. The code (`machine.rs:377-392`) and `TaskQueue` do the
  latter.
- `documentation/concurrency-design.md:142` says a group "returns only after every
  task spawned inside it has finished", its line 469 that it "returns once no task in
  it can run". `EndsBlocked` is the latter; the former is false of a group that
  deadlocks.

## Proofs

Each theorem holds for every value of the constants that satisfies the module's
assumption; the bounds of the runs (`MaxSent`, `MaxOps`, `MaxChans`, ...) are such
constants, any naturals. Where a theorem needs more, it says so in an `ASSUME` of
its own. `PROJECT.json` lists the theorems and the run that checks the same property.

**`ParPoolProofs`**, under `PoolAssumption`: at least one thread, finitely many
tasks, which are no threads, and fewer tasks than `g_queued` can count. For any
threads and tasks, with or without spurious wakeups and fork-join:
`WellFormed`, `TypeCorrect`, `TasksRunAtMostOnce`, `ExitsAfterIo`.

`AtMostOnce` is not inductive: that a claimed task cannot be claimed again needs
to know that only the activity that won the claim can be executing the
task, and that it is on one thread's stack only. The invariant `Structure`
says so: `Registers` (what an activity remembers agrees with its program point),
`Chains` (each thread's stack is a chain from `top` that ends),
`Disjoint` (an activity is on one chain), `Progress` (a task's state agrees with
where its activity is). `ExitsAfterIo` adds `IoCount`, that `g_io_pending` is
the cardinality of the spawned and not yet finished `@spawn` tasks, and that the
program points of main after the join imply that it read 0.

**`PoolSleepProofs`** adds what `Structure` does not say of the sleepers:
`QueuedIsCounted`, `WakeupsAreNotLost`, and `PoolNeverAllAsleep` for fork-join
programs (`ASSUME ForkJoin = TRUE`; `pool_await` shows that it is false of others).

- `QueuedCounts` is an equation modulo `Wrap` between the cardinalities of the
  entries, of the threads that pushed and have not counted, and of those that
  took and have not uncounted. It is inductive once each entry is known to be in
  one deque once (`OneEntry`).
- A lost wakeup is excluded by `Sleepers`: a thread between the two loads of its
  sleep test, or asleep, is `Sound`: if its wait is over, somebody stands
  between the store that ended it and the broadcast. A thread at the second load
  holds the mutex (`Mutex`), so that broadcast cannot precede its sleep.
- `PoolNeverAllAsleep` is an argument about the task claimed last. `Newest`: any
  nonempty set of running tasks has a member that none of the set is stacked on and
  that holds no future of the set. Were all threads asleep, that member of all
  running tasks would be on top of a thread and await a future of its own, which is
  not pending (it would be queued, `Kept`, and `g_queued` would not be 0), not
  running (by the choice of the member) and not done (`Sound`).

**`StmProofs`**: `StmTypeCorrect`, for any constants; and, for transactions that
do not await (`ASSUME AwaitInTx = FALSE`; `stm_await` shows the failure
otherwise), `MarksStayInTheLog`, `VersionsIdentifyValues` (`VersionsTell`: equal versions mean equal values) and the refinement
`AtomicallyIsAtomic == Spec => RunsAsOneStep`.

The invariant `AInv` says that a transaction is in one place (`Once`), that all
but the topmost of a thread wait and have an empty log (`Waiting`, `Quiet`), so
that the thread's log is the running transaction's; and `LogOK` of that log: every
recorded read is of a version not above the current one, and if the versions are
equal then of the current value; the marks grow inwards and are within the log;
and, for EVERY store `st`, replaying what the transaction did on `st` gives
the view that the log shows, and succeeds if the log's reads stand in `st`. The
step of a commit validates the log, so the replay succeeds on the present store,
which is a step of `AtomicStm`; every other step is a stutter. The replay is a
recursive function; its values are obtained by the least-counterexample argument
below.

**`AsyncProofs`**, under `AsyncAssumption` (`None` is
neither a task nor a message): for any tasks, channels, capacities and number of
messages `ChannelsAreFifo`, `NobodyParkedInVain`; `AsyncTypeCorrect`,
`ContinuationsAreUnique`, `MessagesArriveOnce`, and `LeavesOnlyBlocked`, with or without
`PollFails`.

- Channels: the inductive invariant is `ChanTypes /\ ChannelFifo /\
  ParkedForCause`. The FIFO equation `sent = taken \o buffer \o parked` survives a
  receive that refills only because parked senders imply a full buffer, and the
  rendezvous case needs that senders and receivers are never parked together.
- Tasks and messages: both are about elements that move between sequences. A
  family of lines is `Placed` for a set `A` if the lines hold each element of `A`
  at one position and nothing else. `TaskLines` are the running task, the ready
  queue, the waiters, and the senders and receivers of every channel; they are
  placed for the tasks born and not ended. `MsgLines` are the messages in the
  ready queue and those each task got; they are placed for the messages handed
  over. Every operation pops an element off one line and pushes it onto another
  (lemmas `Popped`, `Pushed`, `Moved`). That a message is not handed over twice
  comes from the channels' theorem and from the numbering of the messages sent.
- `LeavesOnlyBlocked` puts the three together. When `run_with` returns nothing is ready
  and nobody runs, so by `Placed` a task that was born and has not ended is on one of
  the other lines, parked on a channel or waiting; and `ParkedForCause` says that its
  cause stands. `FlagsInv` adds that the result is there exactly when main ended.
- `wake` is a loop over the waiters. `WalkKeeps` is its loop invariant: after
  `i` rounds the ready queue, the kept waiters and the waiters not looked at
  (`Dropped(i)`) hold the same tasks between them.

**`TaskQueueProofs`**, for any tasks, channels, variables and bounds, when the
program is no task and `None` no fault (`Distinct`): `QueueInvariant`,
`QueueTypeCorrect`, `QueueEndsAfterTasks`, and the action property
`QueueNeverConflicts`.

That a deadlock is reported, or the program exits, only when no task waits rests on
two facts about the queue and the stack. `PendingQueued`: a task that has not started has an
entry, whatever else is in the queue; it survives `run_next_task`, which drops the
entries before the one it runs, because those are of tasks somebody started.
`StackRuns`: the running tasks are exactly those on the stack, above the program,
each once; so when nothing is pending, what was spawned and has not ended is there to be
named in the report. `NeverConflicts` needs that what a transaction has read stays
current, `Unchanged(reads)`, at every moment and not just its own: a task that runs on top of
it may commit, but its own start has emptied the log they share. (That is why
no commit fails, and also why the transaction below loses what it wrote: see
finding 2.) The conjunction `QInv` was checked by TLC as an invariant of `TaskQueue` with two
tasks and two variables (2,084,675 states) before it was proved.

**`TaskRingProofs`**, under `RingAssumption` (the same, no channel or message is
`None`, and a first capacity that is not 0): `NativeEngineAgrees == Spec =>
EnginesAgree`, `RingTypeCorrect`, `RingEndsAfterTasks`, `RingNeverConflicts`, for any first
capacity.

`RingOf` says what a ring is: its live entries lie within its slots. The arithmetic
is in four lemmas: two live entries share no slot, nor does the next free one
(`SlotsDiffer`); growing keeps the entries in order (`GrownRing`); a push appends to
the contents (`PushRing`); dropping takes a prefix off them (`DropRing`). With them
each action has one lemma that maps it to the interpreter's (`SpawnSame`,
`SendSame`, `TakeSame`, ...), and `NextSame` puts them together. The other three
theorems are those of `TaskQueueProofs`, instantiated with the mapping: what holds of every
behaviour of the interpreter holds of the native engine's.

**`LspServerProofs`**, under `LspAssumption` (finitely many documents):
`LspTypeCorrect`, `SnapshotTypesStay`, `ClosedShowsNothing`, `SavesAreSeen`, and
the action property `PublishesForward`.

The invariant `LInv` has two parts. `SrvOK` is about the server: `DocOK` orders
the versions of each open document (published, then snapshot or failure, then
text, then the editor's), a closed one shows nothing, the check queue holds open
documents without repetition, and `SeenBy`: the base of a snapshot has read every save,
or the document waits to be checked. `SnapshotTypesLive` is a part of `DocOK`: a check leaves a base whose
generation and types are the new snapshot's (`FreshCheck`), or neither base nor
snapshot; a trial leaves the base as it was (`TrialLeaves`, and `TrialsLeave` for the
two of a ranking); nothing else touches a base. `Coming` is about the messages under way, handled and
unhandled alike: a document is open when a message that needs it arrives
(`Protocol`), and the versions a document's messages carry do not decrease
(`Versions`). Without it `did_change` could set a version back. The phases of
`tick` publish and mark several documents at once; their effect is stated document
by document, and so are the lemmas about them (`PublishAllKeeps`, `MarkAllKeeps`).

**`ResidentProofs`**, under `ResidentAssumption`: finitely many modules, a prelude
that imports nothing, and texts whose imports form no cycle, whatever text each
module has at the moment. For any such modules, texts, roots, ways to compile and
bounds: `ResidentType`, `ResidentReuseIsScratch`, `ResidentKeptCoherent`,
`ResidentRewindSparesKept`, `ResidentPrefixClosed`, `ResidentPrefixHolds`.

The invariant `ResidentInv` has three parts.

- `ResOK` of the resident set. `KeptOK`: a kept module is a clean check of its own
  text, strict unless it is marked as deferred, against the checkers it imported
  from. `Fitting`: no two of a name or of an id, and what one imported from is the
  kept module of that name. Marks lie within the store, ids below the next one.
- `CompiledOK` and `PrefixOK`: ids and Core go together, the kept part is closed.
- `SerialOK`, until the set is emptied: an id is found with one Core only, among
  the kept modules, the compile handed on and the cached prefix taken together.

`KeptCoherent` (what the set keeps is a clean check against what else it keeps) and
`PrefixClosed` (the kept part of a compile imports only from itself) are steps of this
argument; no run checks them by themselves.

`ReuseIsScratch` follows from `ResOK` alone. With the reused checkers in place every
module of a load is still the check of its text against its imports' checkers
(`ReusedCheckAlike`): a reused one was checked against checkers that `Fitting` shows
to be those of this compile, and a strict check that reports nothing is the lenient
check that defers nothing (`StrictIsLenient`). Two functions that both satisfy this
recursion agree, by going down the imports (`ByDepth`). That a run preserves `Fitting`
is `DropRunOK`: what goes is closed under importers (`GoneFacts`), no reused
module is among it, and what is newly kept imports only from the reused and the
newly kept, none of which failed without an error of its own (`KeepFacts`).
Loading, going down the imports and sifting are recursive functions; that they
have a value, and which, is proved from `Iterates` and `AllAlong` (see Induction).
`Reusable` and `Keepable` are stated as the greatest set that holds itself up, and
`Gone` as what the greatest set that may stay leaves, which the code's loops
compute; the prover needs only that they are such sets. That the order modules are checked in has
dependencies first is not used: a checker is defined from those of its imports.

**Induction.** The induction theorems of the library take a predicate as a
parameter, which the installed provers cannot instantiate. Where a proof needs
induction over a number (the replay of a transaction, wake's loop, a load), it takes the SET of counterexamples and its least element
(`Least`, `FirstFailure`), which is first-order.

**Only model-checked.** Liveness (`MainExits`, `ReadyRuns`, `Settles`) is
outside the prover's fragment. So are the invariants of `compile` and `native`: the
compiler's modules are recursive through and through (terms,
types, evaluation), what a recursive definition computes for every input needs
induction over data, and the prover can do neither RECURSIVE operators nor that
induction: for them the runs are the evidence.

## What is not modelled

- Lexing, parsing, formatting, the text of the C, the REPL's line
  editing, the command line, foreign calls: conversions and I/O without
  interleaving.
- In the front end: contexts (`@use`) and instances, literal hooks, sequences and
  sized tensors, aliases, splices, metaprograms, imports, casts, operations that
  several effects declare, holes, and recovery after an error. `==` and `<=` are
  taken at every type, as the contexts they really carry are left out. Context
  specialisation and eta folding are therefore exercised by programs written in
  Core (bundles of methods as the checker would leave them), not by the front end's.
- In `Machine` and `Native`: most of the builtins (those that share, update in
  place, store, force or compare are there), tasks, channels and transactions
  (modelled on their own), real numbers. `Native` is the build without threads,
  without unboxed integers and their signatures, and has no tensors (the program
  `Tensor` is run on the interpreter only). A stored continuation that is
  dropped without being resumed does not run its cleanups in either engine; `Meaning`
  follows them.
- libffi and the C library: third party.
- In `TaskQueue` and `TaskRing`: `@par`. The interpreter runs its task in place
  (a call), a native program queues it; a pure task that awaits the future of a
  `@spawn` task can so start that task earlier in the one than in the other, which
  `EnginesAgree` does not speak of. The marks of `or_else`, which only shorten the
  log (`Stm` has them); the interpreter's truncation is silent at a mark past
  the log's end, where `runtime.c` reports a fault. `THxPAR_shutdown`. That a
  receive reports a deadlock when the task it waits for is buried below it, though
  threads would make progress, is in the models: `documentation/concurrency-design.md:398`
  says so of the interpreter, and `EndsAfterTasks` allows it.
- Native channels with threads (`runtime.c:4068-4079`): a receiver there sleeps on
  the pool's condition variable with the channel under a mutex of its own.
- In `ParPool`: failures of
  `pthread_create` and of memory, and weak memory. The atomics are
  acquire/release; the model interleaves them. The sleep tests do not depend on
  more: whoever changes what a test reads takes `g_mt_mu` afterwards to
  broadcast, so a test either comes before that (and the sleeper is woken) or
  sees the change; claims and counters are read-modify-writes of one location.
- In `LspServer`: what an analysis finds, wording and severity of diagnostics,
  fixes and the shutdown flag. Of the base: that `Base::build` stamps its files after it
  has read and checked them (`analysis.rs:304`; a file written in between keeps a stale base),
  a new file that shadows an import without changing a stamp, texts whose imports
  differ (texts that load import the same), and a file written again as it was,
  which a time stamp may or may not show.
- In `Resident`: cyclic imports (no check reports them; `prepare_checker` panics at
  the first module of the cycle, so no kept module comes of one), and what the
  checker computes beyond whether it fails, warns or defers.
- The components the inventory names and `PROJECT.json` marks `not_modelled`.

## Plan

What would come next, in this order; each step adds its module, its properties with
their wrong variants, and then its proofs.

1. Native channels with threads as part of the pool: sleep tests that read a third
   variable, and `Sound` (see `PoolSleepProofs`) extended to it.
2. `Globals`: `force_code`, `force_shared` and black holes, with helping, and the
   sharing levels of published values.
3. `Expand`: the rounds of metaprogram expansion over `Resident`. For the language
   server's base: a file written while it is read, and texts whose imports change.
4. In the front end: contexts and instances, sequences with their hooks, casts.
5. Proofs: what the pool promises stated as an abstract pool (a task runs once, its
   result reaches whoever awaits it) that `ParPool` and `TaskQueue` both refine; the
   ring lemmas of `TaskRingProofs` for the pool's deques, which the model keeps as
   sequences.
