------------------------------ MODULE ParPool ------------------------------
(***************************************************************************)
(* The work-stealing pool of the native runtime: `@par`, `@spawn`,         *)
(* `@await` and the end of a program, as a threaded build of              *)
(* crates/ccg/src/runtime.c runs them.                                     *)
(*                                                                         *)
(* A thread's C stack is a chain of activities.  An activity is a thread's *)
(* base (the program's main function on thread 0, worker_main on the       *)
(* others) or a task being executed; below[t] is the activity that called  *)
(* task_exec on t.  Only the topmost activity of a thread runs: whoever    *)
(* waits (THxPAR_await, THxPAR_join_io) helps by running queued tasks ON   *)
(* TOP of itself.                                                          *)
(*                                                                         *)
(* One step is one access to shared memory.  The mutex of the condition    *)
(* variable, g_mt_mu, is held across the two loads of a sleep test, so it  *)
(* is a variable; the mutex of a deque covers one step and needs none.     *)
(***************************************************************************)
EXTENDS Naturals, Integers, Sequences, FiniteSets, SequencesExt

CONSTANTS
  NThreads,      \* g_nthreads: thread 0 is the main thread, the rest workers
  Tasks,         \* the tasks a run may spawn
  IoTasks,       \* those spawned by `@spawn`; the others are pure (`@par`)
  None,          \* no task, no thread
  Wrap,          \* 2^64 in the code: g_queued is a size_t and wraps
  ForkJoin,      \* TRUE: a task awaits only futures it spawned itself
  SpuriousWakes  \* TRUE: pthread_cond_wait may return without a broadcast

Threads == 0 .. NThreads - 1
Workers == Threads \ {0}
Activities == Threads \cup Tasks

ASSUME PoolAssumption ==
  /\ NThreads \in Nat \ {0}
  /\ IoTasks \subseteq Tasks
  /\ IsFiniteSet(Tasks)
  /\ Tasks \cap Threads = {}
  /\ None \notin Activities
  /\ Wrap \in Nat \ {0} /\ Cardinality(Tasks) < Wrap
  /\ {ForkJoin, SpuriousWakes} \subseteq BOOLEAN

VARIABLES
  state,      \* Task.state; "unborn" until the task is spawned
  deque,      \* g_deques: the owner works at the end, thieves at the front
  queued,     \* g_queued
  ioPending,  \* g_io_pending
  started,    \* g_mt_started
  stop,       \* g_mt_stop
  mu,         \* the thread holding g_mt_mu, or None
  pc,         \* where the topmost activity of each thread is
  top,        \* the topmost activity of each thread
  on,         \* the thread each executing task is on the stack of
  below,      \* the activity each executing task was called from
  awaits,     \* the task an activity is waiting for in THxPAR_await
  scan,       \* how many deques mt_find_work has looked at
  item,       \* the deque entry a thread holds (being pushed or just taken)
  knows,      \* the futures an activity can reach and has not awaited yet
  calls       \* history: how often each task's function was called

vars == <<state, deque, queued, ioPending, started, stop, mu, pc, top, on, below,
          awaits, scan, item, knows, calls>>

Init ==
  /\ state = [t \in Tasks |-> "unborn"]
  /\ deque = [th \in Threads |-> <<>>]
  /\ queued = 0
  /\ ioPending = 0
  /\ started = FALSE
  /\ stop = FALSE
  /\ mu = None
  /\ pc = [th \in Threads |-> IF th = 0 THEN "body" ELSE "off"]
  /\ top = [th \in Threads |-> th]
  /\ on = [t \in Tasks |-> None]
  /\ below = [t \in Tasks |-> None]
  /\ awaits = [a \in Activities |-> None]
  /\ scan = [th \in Threads |-> 0]
  /\ item = [th \in Threads |-> None]
  /\ knows = [a \in Activities |-> {}]
  /\ calls = [t \in Tasks |-> 0]

Goto(th, label) == pc' = [pc EXCEPT ![th] = label]

\* main() returned: the process is gone, workers included.
Exited == pc[0] = "exited"

\* mt_start, on the first spawn: the workers begin in worker_main.
mt_start(p) ==
  [th \in Threads |-> IF p[th] = "off" THEN "scan" ELSE p[th]]

(***************************************************************************)
(* spawn_task.  `@spawn` is an `@IO` operation, so only the program's main *)
(* function and `@spawn` tasks perform it; `@par` is pure and open to all. *)
(* What the task's closure captures is what the spawner could reach.       *)
(***************************************************************************)
MaySpawn(a, t) == t \in IoTasks => a \in IoTasks \cup {0}

SpawnTask(th, t) ==
  /\ pc[th] = "body"
  /\ state[t] = "unborn"
  /\ MaySpawn(top[th], t)
  /\ started' = TRUE
  /\ state' = [state EXCEPT ![t] = "pending"]
  /\ ioPending' = IF t \in IoTasks THEN ioPending + 1 ELSE ioPending
  /\ item' = [item EXCEPT ![th] = t]
  /\ knows' = [knows EXCEPT ![t] = IF ForkJoin THEN {} ELSE knows[top[th]],
                            ![top[th]] = @ \cup {t}]
  /\ pc' = [mt_start(pc) EXCEPT ![th] = "push"]
  /\ UNCHANGED <<deque, queued, stop, mu, top, on, below, awaits, scan, calls>>

deque_push(th) ==
  /\ pc[th] = "push"
  /\ deque' = [deque EXCEPT ![th] = Append(@, item[th])]
  /\ item' = [item EXCEPT ![th] = None]
  /\ Goto(th, "count")
  /\ UNCHANGED <<state, queued, ioPending, started, stop, mu, top, on, below,
                 awaits, scan, knows, calls>>

CountQueued(th) ==
  /\ pc[th] = "count"
  /\ queued' = (queued + 1) % Wrap
  /\ Goto(th, "wake")
  /\ UNCHANGED <<state, deque, ioPending, started, stop, mu, top, on, below,
                 awaits, scan, item, knows, calls>>

\* pthread_cond_broadcast: every sleeper is to take the mutex and test again.
Broadcast(p) ==
  [th \in Threads |-> IF p[th] = "asleep" THEN "woken" ELSE p[th]]

\* mt_wake_all after a push: the spawner goes on with its future.
WakeAfterPush(th) ==
  /\ pc[th] = "wake"
  /\ mu = None
  /\ pc' = [Broadcast(pc) EXCEPT ![th] = "body"]
  /\ UNCHANGED <<state, deque, queued, ioPending, started, stop, mu, top, on,
                 below, awaits, scan, item, knows, calls>>

(***************************************************************************)
(* task_exec, from the claim to the wakeup.                                *)
(***************************************************************************)
\* The claim succeeded: call the task's function on top of the claimant.
Enter(th, t) ==
  /\ state' = [state EXCEPT ![t] = "running"]
  /\ on' = [on EXCEPT ![t] = th]
  /\ below' = [below EXCEPT ![t] = top[th]]
  /\ top' = [top EXCEPT ![th] = t]
  /\ calls' = [calls EXCEPT ![t] = @ + 1]
  /\ Goto(th, "body")

\* Mutant: a claim that looks at the state without comparing it to PENDING.
ClaimUnlessDone(t) == state[t] # "done"

\* task_claim: a compare-and-swap from PENDING to RUNNING.
task_claim(t) == state[t] = "pending"

\* The function returned: publish the result.
Publish(th) ==
  /\ pc[th] = "body"
  /\ top[th] \in Tasks
  /\ state' = [state EXCEPT ![top[th]] = "done"]
  /\ Goto(th, IF top[th] \in IoTasks THEN "iodec" ELSE "wakedone")
  /\ UNCHANGED <<deque, queued, ioPending, started, stop, mu, top, on, below,
                 awaits, scan, item, knows, calls>>

IoFinished(th) ==
  /\ pc[th] = "iodec"
  /\ ioPending' = ioPending - 1
  /\ Goto(th, "wakedone")
  /\ UNCHANGED <<state, deque, queued, started, stop, mu, top, on, below,
                 awaits, scan, item, knows, calls>>

\* Where a thread goes on when its topmost activity (re)enters its wait loop.
LoopOf(a) == IF a \in Workers THEN "scan" ELSE "load"

\* Mutant: the result is published and nobody is told.
FinishSilently(th) ==
  LET t == top[th]
      a == below[t]
  IN  /\ pc[th] = "wakedone"
      /\ pc' = [pc EXCEPT ![th] = LoopOf(a)]
      /\ top' = [top EXCEPT ![th] = a]
      /\ on' = [on EXCEPT ![t] = None]
      /\ below' = [below EXCEPT ![t] = None]
      /\ scan' = [scan EXCEPT ![th] = 0]
      /\ UNCHANGED <<state, deque, queued, ioPending, started, stop, mu,
                     awaits, item, knows, calls>>

\* mt_wake_all at the end of task_exec, and the return to the caller's loop.
WakeAfterDone(th) ==
  LET t == top[th]
      a == below[t]
  IN  /\ pc[th] = "wakedone"
      /\ mu = None
      /\ pc' = [Broadcast(pc) EXCEPT ![th] = LoopOf(a)]
      /\ top' = [top EXCEPT ![th] = a]
      /\ on' = [on EXCEPT ![t] = None]
      /\ below' = [below EXCEPT ![t] = None]
      /\ scan' = [scan EXCEPT ![th] = 0]
      /\ UNCHANGED <<state, deque, queued, ioPending, started, stop, mu,
                     awaits, item, knows, calls>>

(***************************************************************************)
(* THxPAR_await: one load of the task's state per turn of its loop.        *)
(***************************************************************************)
THxPAR_await(th, t) ==
  /\ pc[th] = "body"
  /\ t \in knows[top[th]]
  /\ awaits' = [awaits EXCEPT ![top[th]] = t]
  /\ Goto(th, "load")
  /\ UNCHANGED <<state, deque, queued, ioPending, started, stop, mu, top, on,
                 below, scan, item, knows, calls>>

\* DONE: the result is returned, with whatever futures it holds.  (Awaiting a
\* finished task again returns at once, so the future is forgotten.)
AwaitDone(th) ==
  LET a == top[th]
      t == awaits[a]
  IN  /\ pc[th] = "load"
      /\ t # None
      /\ state[t] = "done"
      /\ awaits' = [awaits EXCEPT ![a] = None]
      /\ knows' = [knows EXCEPT ![a] =
                     (@ \ {t}) \cup (IF ForkJoin THEN {} ELSE knows[t])]
      /\ Goto(th, "body")
      /\ UNCHANGED <<state, deque, queued, ioPending, started, stop, mu, top,
                     on, below, scan, item, calls>>

\* PENDING: try to claim it.  RUNNING: look for other work.
AwaitNotDone(th) ==
  LET t == awaits[top[th]]
  IN  /\ pc[th] = "load"
      /\ t # None
      /\ state[t] # "done"
      /\ Goto(th, IF state[t] = "pending" THEN "claim" ELSE "scan")
      /\ scan' = [scan EXCEPT ![th] = 0]
      /\ UNCHANGED <<state, deque, queued, ioPending, started, stop, mu, top,
                     on, below, awaits, item, knows, calls>>

AwaitClaim(th) ==
  LET t == awaits[top[th]]
  IN  /\ pc[th] = "claim"
      /\ \/ task_claim(t) /\ Enter(th, t)
         \/ ~task_claim(t) /\ Goto(th, "scan") /\ UNCHANGED <<state, on,
                                                              below, top,
                                                              calls>>
      /\ UNCHANGED <<deque, queued, ioPending, started, stop, mu, awaits,
                     scan, item, knows>>

(***************************************************************************)
(* mt_find_work: its own deque newest first, then the others' oldest       *)
(* first, one deque per step.                                              *)
(***************************************************************************)
deque_take(th, d) ==
  IF d = th THEN <<Last(deque[d]), Front(deque[d])>>
            ELSE <<Head(deque[d]), Tail(deque[d])>>

\* Mutant: the entry is taken and never uncounted.
ScanTakeUncounted(th) ==
  LET d == (th + scan[th]) % NThreads
  IN  /\ pc[th] = "scan"
      /\ deque[d] # <<>>
      /\ item' = [item EXCEPT ![th] = deque_take(th, d)[1]]
      /\ deque' = [deque EXCEPT ![d] = deque_take(th, d)[2]]
      /\ Goto(th, "entry")
      /\ UNCHANGED <<state, queued, ioPending, started, stop, mu, top, on,
                     below, awaits, scan, knows, calls>>

ScanTake(th) ==
  LET d == (th + scan[th]) % NThreads
  IN  /\ pc[th] = "scan"
      /\ deque[d] # <<>>
      /\ item' = [item EXCEPT ![th] = deque_take(th, d)[1]]
      /\ deque' = [deque EXCEPT ![d] = deque_take(th, d)[2]]
      /\ Goto(th, "uncount")
      /\ UNCHANGED <<state, queued, ioPending, started, stop, mu, top, on,
                     below, awaits, scan, knows, calls>>

ScanNext(th) ==
  LET d == (th + scan[th]) % NThreads
      more == scan[th] + 1 < NThreads
  IN  /\ pc[th] = "scan"
      /\ deque[d] = <<>>
      /\ scan' = [scan EXCEPT ![th] = IF more THEN @ + 1 ELSE 0]
      /\ Goto(th, IF more THEN "scan" ELSE "test")
      /\ UNCHANGED <<state, deque, queued, ioPending, started, stop, mu, top, on,
                     below, awaits, item, knows, calls>>

\* Mutant: the counter is signed.
UncountSigned(th) ==
  /\ pc[th] = "uncount"
  /\ queued' = queued - 1
  /\ Goto(th, "entry")
  /\ UNCHANGED <<state, deque, ioPending, started, stop, mu, top, on, below,
                 awaits, scan, item, knows, calls>>

\* The entry left its deque before g_queued says so; taking it before its
\* spawner counted it makes the counter wrap below zero for a moment.
UncountQueued(th) ==
  /\ pc[th] = "uncount"
  /\ queued' = (queued + Wrap - 1) % Wrap
  /\ Goto(th, "entry")
  /\ UNCHANGED <<state, deque, ioPending, started, stop, mu, top, on, below,
                 awaits, scan, item, knows, calls>>

\* Run the entry unless its awaiter already claimed it.
mt_run_entry(th) ==
  /\ pc[th] = "entry"
  /\ \/ task_claim(item[th]) /\ Enter(th, item[th])
     \/ /\ ~task_claim(item[th])
        /\ Goto(th, LoopOf(top[th]))
        /\ UNCHANGED <<state, on, below, top, calls>>
  /\ item' = [item EXCEPT ![th] = None]
  /\ scan' = [scan EXCEPT ![th] = 0]
  /\ UNCHANGED <<deque, queued, ioPending, started, stop, mu, awaits, knows>>

(***************************************************************************)
(* Sleeping.  The test has two loads, both made under g_mt_mu; what they   *)
(* load changes without it.                                                *)
(***************************************************************************)
\* The first load: what this waiter waits for has happened already.
WaitIsOver(a) ==
  IF a \in Workers THEN stop
  ELSE IF awaits[a] # None THEN state[awaits[a]] = "done"
  ELSE ioPending <= 0

\* Mutant: the first load is made outside g_mt_mu.
SleepTestUnlocked(th) ==
  LET over == WaitIsOver(top[th])
  IN  /\ pc[th] \in {"test", "woken"}
      /\ Goto(th, IF ~over THEN "test2"
                  ELSE IF top[th] \in Workers THEN "exited" ELSE "load")
      /\ UNCHANGED <<state, deque, queued, ioPending, started, stop, mu, top, on,
                     below, awaits, scan, item, knows, calls>>

SleepTest(th) ==
  LET over == WaitIsOver(top[th])
  IN  /\ pc[th] \in {"test", "woken"}
      /\ mu = None
      /\ mu' = IF over THEN None ELSE th
      /\ Goto(th, IF ~over THEN "test2"
                  ELSE IF top[th] \in Workers THEN "exited" ELSE "load")
      /\ UNCHANGED <<state, deque, queued, ioPending, started, stop, top, on,
                     below, awaits, scan, item, knows, calls>>

\* The second load, and pthread_cond_wait, which gives up the mutex.
SleepOrRescan(th) ==
  /\ pc[th] = "test2"
  /\ mu' = None
  /\ Goto(th, IF queued = 0 THEN "asleep" ELSE LoopOf(top[th]))
  /\ UNCHANGED <<state, deque, queued, ioPending, started, stop, top, on,
                 below, awaits, scan, item, knows, calls>>

SpuriousWake(th) ==
  /\ SpuriousWakes
  /\ pc[th] = "asleep"
  /\ Goto(th, "woken")
  /\ UNCHANGED <<state, deque, queued, ioPending, started, stop, mu, top, on,
                 below, awaits, scan, item, knows, calls>>

(***************************************************************************)
(* The end of the program, on the main thread.                             *)
(***************************************************************************)
\* Entry::Main: the entry returned, and THxPAR_join_io begins.
MainReturns(th) ==
  /\ pc[th] = "body"
  /\ top[th] = 0
  /\ Goto(th, "load")
  /\ UNCHANGED <<state, deque, queued, ioPending, started, stop, mu, top, on,
                 below, awaits, scan, item, knows, calls>>

\* Entry::Show: a global was evaluated and printed, without any `@IO`, and
\* THxPAR_shutdown begins (it returns at once if the pool never started).
ShowReturns(th) ==
  /\ pc[th] = "body"
  /\ top[th] = 0
  /\ \A t \in IoTasks : state[t] = "unborn"
  /\ Goto(th, IF started THEN "shutdown" ELSE "exited")
  /\ UNCHANGED <<state, deque, queued, ioPending, started, stop, mu, top, on,
                 below, awaits, scan, item, knows, calls>>

\* Mutant: the program ends when nothing is queued any more.
JoinQueued(th) ==
  /\ pc[th] = "load"
  /\ top[th] = 0
  /\ awaits[0] = None
  /\ Goto(th, IF queued > 0 THEN "scan" ELSE "exited")
  /\ scan' = [scan EXCEPT ![th] = 0]
  /\ UNCHANGED <<state, deque, queued, ioPending, started, stop, mu, top, on,
                 below, awaits, item, knows, calls>>

\* THxPAR_join_io: help until no `@spawn` task is left.
THxPAR_join_io(th) ==
  /\ pc[th] = "load"
  /\ top[th] = 0
  /\ awaits[0] = None
  /\ Goto(th, IF ioPending > 0 THEN "scan" ELSE "exited")
  /\ scan' = [scan EXCEPT ![th] = 0]
  /\ UNCHANGED <<state, deque, queued, ioPending, started, stop, mu, top, on,
                 below, awaits, item, knows, calls>>

\* THxPAR_shutdown: tell the workers to stop, ...
ShutdownStop(th) ==
  /\ pc[th] = "shutdown"
  /\ mu = None
  /\ stop' = TRUE
  /\ pc' = [Broadcast(pc) EXCEPT ![th] = "join"]
  /\ UNCHANGED <<state, deque, queued, ioPending, started, mu, top, on,
                 below, awaits, scan, item, knows, calls>>

\* ... join them, and drop the tasks nobody ran.
ShutdownJoin(th) ==
  /\ pc[th] = "join"
  /\ \A w \in Workers : pc[w] = "exited"
  /\ deque' = [d \in Threads |-> <<>>]
  /\ queued' = 0
  /\ started' = FALSE
  /\ stop' = FALSE
  /\ Goto(th, "exited")
  /\ UNCHANGED <<state, ioPending, mu, top, on, below, awaits, scan, item,
                 knows, calls>>

-----------------------------------------------------------------------------
SpawnStep(th) ==
  \/ \E t \in Tasks : SpawnTask(th, t)
  \/ deque_push(th)
  \/ CountQueued(th)
  \/ WakeAfterPush(th)

ExecStep(th) ==
  \/ Publish(th)
  \/ IoFinished(th)
  \/ WakeAfterDone(th)

AwaitStep(th) ==
  \/ \E t \in Tasks : THxPAR_await(th, t)
  \/ AwaitDone(th)
  \/ AwaitNotDone(th)
  \/ AwaitClaim(th)

HelpStep(th) ==
  \/ ScanTake(th)
  \/ ScanNext(th)
  \/ UncountQueued(th)
  \/ mt_run_entry(th)
  \/ SleepTest(th)
  \/ SleepOrRescan(th)

EndStep(th) ==
  \/ MainReturns(th)
  \/ ShowReturns(th)
  \/ THxPAR_join_io(th)
  \/ ShutdownStop(th)
  \/ ShutdownJoin(th)

Step(th) ==
  /\ ~Exited
  /\ SpawnStep(th) \/ ExecStep(th) \/ AwaitStep(th) \/ HelpStep(th) \/ EndStep(th)

Next == \E th \in Threads : Step(th) \/ (~Exited /\ SpuriousWake(th))

Spec == Init /\ [][Next]_vars

\* The operating system runs every thread that can run, a task's body comes to
\* an end, and no thread is woken unasked for ever (each time it would take
\* g_mt_mu, and a mutex promises its other waiters no turn).
FairSpec ==
  /\ Spec
  /\ \A th \in Threads : WF_vars(Step(th))
  /\ <>[][\A th \in Threads : ~SpuriousWake(th)]_vars

-----------------------------------------------------------------------------
Labels == {"off", "body", "push", "count", "wake", "iodec", "wakedone", "load",
           "claim", "scan", "uncount", "entry", "test", "test2", "asleep",
           "woken", "shutdown", "join", "exited"}

\* The shape of the pool's state.
TypeOK ==
  /\ state \in [Tasks -> {"unborn", "pending", "running", "done"}]
  /\ deque \in [Threads -> Seq(Tasks)]
  /\ queued \in 0 .. Wrap - 1
  /\ ioPending \in Int
  /\ started \in BOOLEAN
  /\ stop \in BOOLEAN
  /\ mu \in Threads \cup {None}
  /\ pc \in [Threads -> Labels]
  /\ top \in [Threads -> Activities]
  /\ on \in [Tasks -> Threads \cup {None}]
  /\ below \in [Tasks -> Activities \cup {None}]
  /\ awaits \in [Activities -> Tasks \cup {None}]
  /\ scan \in [Threads -> 0 .. NThreads - 1]
  /\ item \in [Threads -> Tasks \cup {None}]
  /\ knows \in [Activities -> SUBSET Tasks]
  /\ calls \in [Tasks -> Nat]

\* A task's function is called at most once, however the awaiter that claims
\* it in place races the threads that take its entry from a deque.
AtMostOnce == \A t \in Tasks : calls[t] <= 1

\* runtime.c: "Sleepers test it under `g_mt_mu`, and every push or completion
\* broadcasts under it, so no wakeup is lost."  A thread sleeping although its
\* wait is over, or although an entry is queued, is about to be woken by the
\* very thread whose step ended the wait.
NoLostWakeup ==
  \A th \in Threads : pc[th] = "asleep" =>
    /\ queued # 0 => \E o \in Threads : pc[o] \in {"count", "wake"}
    /\ WaitIsOver(top[th]) =>
         \E o \in Threads :
           /\ pc[o] \in {"iodec", "wakedone"}
           /\ awaits[top[th]] # None => top[o] = awaits[top[th]]

\* The entries of all deques, as positions.
Slots == UNION {{d} \X DOMAIN deque[d] : d \in Threads}

\* g_queued counts the entries of all deques, up to the entries pushed and not
\* yet counted or taken and not yet uncounted, and modulo its wrap below zero.
QueuedCounts ==
  LET At(label) == Cardinality({th \in Threads : pc[th] = label})
  IN  queued = (Cardinality(Slots) + At("uncount") + Wrap - At("count")) % Wrap

\* PAR.thx: "A program exits only after every `spawn` task has finished."
ExitAfterIo ==
  Exited => \A t \in IoTasks : state[t] \in {"unborn", "done"}

\* runtime.c: "the waiter helps with queued work until its task is done, so a
\* pool whose every thread awaits cannot deadlock."  Were all threads asleep
\* (and no one left to broadcast), the program would hang.
PoolNotStuck ==
  Exited \/ \E th \in Threads : pc[th] \notin {"asleep", "off", "exited"}

\* Every program whose tasks await only what they spawned comes to its end:
\* the join of its `@spawn` tasks, or the shutdown of the pool, included.
MainExits == <>Exited

=============================================================================
