--------------------------- MODULE ParPoolProofs ---------------------------
(***************************************************************************)
(* Proofs about the pool, for any number of threads and any finite set of  *)
(* tasks.  IInv is the inductive invariant behind them: besides the types  *)
(* it says what a thread's registers hold at each label, that the stacks   *)
(* of the threads are disjoint chains, how far a task on a stack has come, *)
(* and which `@spawn` tasks g_io_pending counts.                           *)
(***************************************************************************)
EXTENDS ParPool, TLAPS, FiniteSetTheorems

Finishing == {"iodec", "wakedone"}
Leaving == {"shutdown", "join", "exited"}

\* What the registers of a thread hold at each label.
Registers ==
  \A th \in Threads :
    /\ pc[th] \in {"push", "uncount", "entry"} => item[th] \in Tasks
    /\ pc[th] = "claim" => awaits[top[th]] \in Tasks
    /\ pc[th] \in Finishing => top[th] \in Tasks
    /\ pc[th] = "iodec" => top[th] \in IoTasks

\* Each thread's stack is a chain that ends in its own base.
Chains ==
  /\ \A th \in Threads : top[th] \in Threads => top[th] = th
  /\ \A th \in Threads : top[th] \in Tasks => on[top[th]] = th
  /\ \A t \in Tasks : on[t] # None =>
       /\ below[t] \in Activities
       /\ below[t] \in Threads => below[t] = on[t]
       /\ below[t] \in Tasks => on[below[t]] = on[t]
  /\ \A t \in Tasks : on[t] = None => below[t] = None

\* No activity is called from twice, or called from while it is on top.
Disjoint ==
  /\ \A t, u \in Tasks : below[t] # None /\ below[t] = below[u] => t = u
  /\ \A th \in Threads, t \in Tasks : top[th] # below[t]

\* How far a task has come, from where it is on a stack.
Progress ==
  /\ \A th \in Threads : top[th] \in Tasks =>
       state[top[th]] = IF pc[th] \in Finishing THEN "done" ELSE "running"
  /\ \A t \in Tasks : below[t] \in Tasks => state[below[t]] = "running"
  /\ \A t \in Tasks : state[t] \in {"unborn", "pending"} => on[t] = None /\ calls[t] = 0
  /\ \A t \in Tasks : state[t] \in {"running", "done"} => calls[t] = 1

\* The `@spawn` tasks g_io_pending stands for: spawned and not yet finished, or
\* finished on a thread that has yet to say so.
IoOpen ==
  {t \in IoTasks : \/ state[t] \in {"pending", "running"}
                   \/ \E th \in Threads : pc[th] = "iodec" /\ top[th] = t}

IoCount == ioPending = Cardinality(IoOpen)

\* Past its entry, the main thread leaves no `@spawn` task behind.
MainLeaves ==
  pc[0] \in Leaving =>
    top[0] = 0 /\ \A t \in IoTasks : state[t] \in {"unborn", "done"}

\* The pool shuts down (Entry::Show) only if nothing was `@spawn`ed at all.
ShowLeaves ==
  pc[0] \in {"shutdown", "join"} => \A t \in IoTasks : state[t] = "unborn"

Structure == TypeOK /\ Registers /\ Chains /\ Disjoint /\ Progress
IInv == Structure /\ IoCount /\ MainLeaves /\ ShowLeaves

-----------------------------------------------------------------------------
\* The threads and the tasks do not overlap, and None is neither.
LEMMA Kinds ==
  /\ 0 \in Threads
  /\ Threads \cap Tasks = {}
  /\ None \notin Threads /\ None \notin Tasks
  /\ Threads \subseteq Activities /\ Tasks \subseteq Activities
  /\ IoTasks \subseteq Tasks
BY PoolAssumption DEF Threads, Activities

\* The deque mt_find_work looks at is the deque of a thread.
LEMMA ScanInRange ==
  ASSUME TypeOK, NEW th \in Threads
  PROVE  (th + scan[th]) % NThreads \in Threads
<1>1. th + scan[th] \in Nat
  <2>1. scan[th] \in 0 .. NThreads - 1
    BY DEF TypeOK
  <2> QED
    BY <2>1, PoolAssumption DEF Threads
<1>2. \A m \in Nat, n \in Nat \ {0} : m % n \in 0 .. n - 1
  OBVIOUS
<1> QED
  BY <1>1, <1>2, PoolAssumption DEF Threads

\* What mt_find_work takes from a deque that is not empty.
LEMMA TakeTypes ==
  ASSUME TypeOK, NEW th \in Threads, NEW d \in Threads, deque[d] # <<>>
  PROVE  /\ deque_take(th, d)[1] \in Tasks
         /\ deque_take(th, d)[2] \in Seq(Tasks)
<1>1. deque[d] \in Seq(Tasks) /\ Len(deque[d]) \in Nat \ {0}
  BY DEF TypeOK
<1>2. /\ Head(deque[d]) \in Tasks /\ Tail(deque[d]) \in Seq(Tasks)
      /\ Last(deque[d]) \in Tasks /\ Front(deque[d]) \in Seq(Tasks)
  BY <1>1 DEF Last, Front
<1> QED
  BY <1>2 DEF deque_take

LEMMA TypeStep ==
  ASSUME Structure, [Next]_vars
  PROVE  TypeOK'
<1> USE Kinds, PoolAssumption DEF Structure, TypeOK, Registers, Chains, Goto, Labels, Workers
<1>1. ASSUME NEW th \in Threads, NEW t \in Tasks, SpawnTask(th, t)
      PROVE  TypeOK'
  <2> USE <1>1 DEF SpawnTask
  <2>1. mt_start(pc) \in [Threads -> Labels]
    BY DEF mt_start
  <2>2. pc' \in [Threads -> Labels]
    BY <2>1
  <2>3. knows' \in [Activities -> SUBSET Tasks]
    <3>1. top[th] \in Activities /\ t \in Activities
      OBVIOUS
    <3>2. knows[top[th]] \cup {t} \in SUBSET Tasks
      BY <3>1
    <3>3. (IF ForkJoin THEN {} ELSE knows[top[th]]) \in SUBSET Tasks
      BY <3>1
    <3> QED
      BY <3>1, <3>2, <3>3
  <2>4. ioPending' \in Int
    OBVIOUS
  <2> QED
    BY <2>2, <2>3, <2>4
<1>2. ASSUME NEW th \in Threads, deque_push(th)
      PROVE  TypeOK'
  BY <1>2 DEF deque_push
<1>3. ASSUME NEW th \in Threads, CountQueued(th)
      PROVE  TypeOK'
  BY <1>3 DEF CountQueued
<1>4. ASSUME NEW th \in Threads, WakeAfterPush(th)
      PROVE  TypeOK'
  BY <1>4 DEF WakeAfterPush, Broadcast
<1>5. ASSUME NEW th \in Threads, Publish(th)
      PROVE  TypeOK'
  BY <1>5 DEF Publish
<1>6. ASSUME NEW th \in Threads, IoFinished(th)
      PROVE  TypeOK'
  BY <1>6 DEF IoFinished
<1>7. ASSUME NEW th \in Threads, WakeAfterDone(th)
      PROVE  TypeOK'
  BY <1>7 DEF WakeAfterDone, Broadcast, LoopOf, Finishing
<1>8. ASSUME NEW th \in Threads, NEW t \in Tasks, THxPAR_await(th, t)
      PROVE  TypeOK'
  BY <1>8 DEF THxPAR_await
<1>9. ASSUME NEW th \in Threads, AwaitDone(th)
      PROVE  TypeOK'
  BY <1>9 DEF AwaitDone
<1>10. ASSUME NEW th \in Threads, AwaitNotDone(th)
      PROVE  TypeOK'
  BY <1>10 DEF AwaitNotDone
<1>11. ASSUME NEW th \in Threads, AwaitClaim(th)
      PROVE  TypeOK'
  <2> USE <1>11 DEF AwaitClaim
  <2> DEFINE u == awaits[top[th]]
  <2>1. u \in Tasks
    OBVIOUS
  <2>2. CASE task_claim(u) /\ Enter(th, u)
    BY <2>1, <2>2 DEF Enter
  <2>3. CASE ~task_claim(u) /\ pc' = [pc EXCEPT ![th] = "scan"]
             /\ UNCHANGED <<state, on, below, top, calls>>
    BY <2>3
  <2> QED
    BY <2>2, <2>3
<1>12. ASSUME NEW th \in Threads, ScanTake(th)
      PROVE  TypeOK'
  <2> USE <1>12 DEF ScanTake
  <2> DEFINE d == (th + scan[th]) % NThreads
  <2>1. d \in Threads
    BY ScanInRange
  <2>2. /\ deque_take(th, d)[1] \in Tasks
        /\ deque_take(th, d)[2] \in Seq(Tasks)
    BY <2>1, TakeTypes
  <2> HIDE DEF d
  <2>3. /\ item' = [item EXCEPT ![th] = deque_take(th, d)[1]]
        /\ deque' = [deque EXCEPT ![d] = deque_take(th, d)[2]]
    BY DEF d
  <2>4. /\ item' \in [Threads -> Tasks \cup {None}]
        /\ deque' \in [Threads -> Seq(Tasks)]
    BY ZenonT(40), <2>1, <2>2, <2>3
  <2> QED
    BY <2>4
<1>13. ASSUME NEW th \in Threads, ScanNext(th)
      PROVE  TypeOK'
  <2>1. /\ scan[th] \in 0 .. NThreads - 1
        /\ scan' = [scan EXCEPT ![th] = IF scan[th] + 1 < NThreads THEN scan[th] + 1 ELSE 0]
    BY <1>13 DEF ScanNext
  <2>2. (IF scan[th] + 1 < NThreads THEN scan[th] + 1 ELSE 0) \in 0 .. NThreads - 1
    BY <2>1
  <2>3. scan' \in [Threads -> 0 .. NThreads - 1]
    BY <2>1, <2>2
  <2>4. pc' \in [Threads -> Labels]
    BY <1>13 DEF ScanNext
  <2>5. UNCHANGED <<state, deque, queued, ioPending, started, stop, mu, top, on,
                    below, awaits, item, knows, calls>>
    BY <1>13 DEF ScanNext
  <2> QED
    BY <2>3, <2>4, <2>5
<1>14. ASSUME NEW th \in Threads, UncountQueued(th)
      PROVE  TypeOK'
  <2>1. queued' \in 0 .. Wrap - 1
    <3>1. Wrap \in Nat \ {0} /\ queued + Wrap - 1 \in Int
      OBVIOUS
    <3> QED
      BY <1>14, <3>1 DEF UncountQueued
  <2>2. pc' \in [Threads -> Labels]
    BY <1>14 DEF UncountQueued
  <2> QED
    BY <1>14, <2>1, <2>2 DEF UncountQueued
<1>15. ASSUME NEW th \in Threads, mt_run_entry(th)
      PROVE  TypeOK'
  <2> USE <1>15 DEF mt_run_entry
  <2>1. item[th] \in Tasks
    OBVIOUS
  <2>2. CASE task_claim(item[th]) /\ Enter(th, item[th])
    BY <2>1, <2>2 DEF Enter
  <2>3. CASE ~task_claim(item[th]) /\ pc' = [pc EXCEPT ![th] = LoopOf(top[th])]
             /\ UNCHANGED <<state, on, below, top, calls>>
    BY <2>3 DEF LoopOf
  <2> QED
    BY <2>2, <2>3
<1>16. ASSUME NEW th \in Threads, SleepTest(th)
      PROVE  TypeOK'
  BY <1>16 DEF SleepTest
<1>17. ASSUME NEW th \in Threads, SleepOrRescan(th)
      PROVE  TypeOK'
  BY <1>17 DEF SleepOrRescan, LoopOf
<1>18. ASSUME NEW th \in Threads, SpuriousWake(th)
      PROVE  TypeOK'
  BY <1>18 DEF SpuriousWake
<1>19. ASSUME NEW th \in Threads, MainReturns(th)
      PROVE  TypeOK'
  BY <1>19 DEF MainReturns
<1>20. ASSUME NEW th \in Threads, ShowReturns(th)
      PROVE  TypeOK'
  BY <1>20 DEF ShowReturns
<1>21. ASSUME NEW th \in Threads, THxPAR_join_io(th)
      PROVE  TypeOK'
  BY <1>21 DEF THxPAR_join_io
<1>22. ASSUME NEW th \in Threads, ShutdownStop(th)
      PROVE  TypeOK'
  BY <1>22 DEF ShutdownStop, Broadcast
<1>23. ASSUME NEW th \in Threads, ShutdownJoin(th)
      PROVE  TypeOK'
  <2> USE <1>23 DEF ShutdownJoin
  <2>1. deque' \in [Threads -> Seq(Tasks)]
    OBVIOUS
  <2>2. queued' \in 0 .. Wrap - 1
    OBVIOUS
  <2>3. pc' \in [Threads -> Labels]
    OBVIOUS
  <2>4. /\ started' \in BOOLEAN /\ stop' \in BOOLEAN
    OBVIOUS
  <2> QED
    BY <2>1, <2>2, <2>3, <2>4
<1>24. CASE UNCHANGED vars
  BY <1>24 DEF vars
<1>25. QED
  BY <1>1, <1>2, <1>3, <1>4, <1>5, <1>6, <1>7, <1>8, <1>9, <1>10, <1>11, <1>12, <1>13, <1>14, <1>15, <1>16, <1>17, <1>18, <1>19, <1>20, <1>21, <1>22, <1>23, <1>24
     DEF Next, Step, SpawnStep, ExecStep, AwaitStep, HelpStep, EndStep

\* No activity is on top of two threads.
LEMMA DistinctTops ==
  ASSUME Structure, NEW o \in Threads, NEW th \in Threads, top[o] = top[th]
  PROVE  o = th
<1>1. top[o] \in Threads \/ top[o] \in Tasks
  BY DEF Structure, TypeOK, Activities
<1>2. CASE top[o] \in Threads
  BY <1>2 DEF Structure, Chains
<1>3. CASE top[o] \in Tasks
  BY <1>3 DEF Structure, Chains
<1> QED
  BY <1>1, <1>2, <1>3

LEMMA RegistersStep ==
  ASSUME Structure, [Next]_vars
  PROVE  Registers'
<1> USE Kinds DEF Structure, TypeOK, Registers, Goto, Finishing
<1>1. ASSUME NEW th \in Threads, NEW t \in Tasks, SpawnTask(th, t)
      PROVE  Registers'
  BY <1>1 DEF SpawnTask, mt_start
<1>2. ASSUME NEW th \in Threads, deque_push(th)
      PROVE  Registers'
  BY <1>2 DEF deque_push
<1>3. ASSUME NEW th \in Threads, CountQueued(th)
      PROVE  Registers'
  BY <1>3 DEF CountQueued
<1>4. ASSUME NEW th \in Threads, WakeAfterPush(th)
      PROVE  Registers'
  BY <1>4 DEF WakeAfterPush, Broadcast
<1>5. ASSUME NEW th \in Threads, Publish(th)
      PROVE  Registers'
  BY <1>5 DEF Publish
<1>6. ASSUME NEW th \in Threads, IoFinished(th)
      PROVE  Registers'
  BY <1>6 DEF IoFinished
<1>7. ASSUME NEW th \in Threads, WakeAfterDone(th)
      PROVE  Registers'
  BY <1>7 DEF WakeAfterDone, Broadcast, LoopOf
<1>8. ASSUME NEW th \in Threads, NEW t \in Tasks, THxPAR_await(th, t)
      PROVE  Registers'
  BY <1>8 DEF THxPAR_await
<1>9. ASSUME NEW th \in Threads, AwaitDone(th)
      PROVE  Registers'
  <2>1. \A o \in Threads : o # th => top[o] # top[th]
    BY DistinctTops
  <2> QED
    BY <1>9, <2>1 DEF AwaitDone
<1>10. ASSUME NEW th \in Threads, AwaitNotDone(th)
      PROVE  Registers'
  BY <1>10 DEF AwaitNotDone
<1>11. ASSUME NEW th \in Threads, AwaitClaim(th)
      PROVE  Registers'
  BY <1>11 DEF AwaitClaim, Enter
<1>12. ASSUME NEW th \in Threads, ScanTake(th)
      PROVE  Registers'
  <2> DEFINE d == (th + scan[th]) % NThreads
  <2>1. deque_take(th, d)[1] \in Tasks
    BY <1>12, ScanInRange, TakeTypes DEF ScanTake
  <2> HIDE DEF d
  <2>2. item' = [item EXCEPT ![th] = deque_take(th, d)[1]]
    BY <1>12 DEF ScanTake, d
  <2>3. /\ pc' = [pc EXCEPT ![th] = "uncount"]
        /\ UNCHANGED <<awaits, top>>
    BY <1>12 DEF ScanTake
  <2> QED
    BY <2>1, <2>2, <2>3
<1>13. ASSUME NEW th \in Threads, ScanNext(th)
      PROVE  Registers'
  BY <1>13 DEF ScanNext
<1>14. ASSUME NEW th \in Threads, UncountQueued(th)
      PROVE  Registers'
  BY <1>14 DEF UncountQueued
<1>15. ASSUME NEW th \in Threads, mt_run_entry(th)
      PROVE  Registers'
  BY <1>15 DEF mt_run_entry, Enter, LoopOf
<1>16. ASSUME NEW th \in Threads, SleepTest(th)
      PROVE  Registers'
  BY <1>16 DEF SleepTest
<1>17. ASSUME NEW th \in Threads, SleepOrRescan(th)
      PROVE  Registers'
  BY <1>17 DEF SleepOrRescan, LoopOf
<1>18. ASSUME NEW th \in Threads, SpuriousWake(th)
      PROVE  Registers'
  BY <1>18 DEF SpuriousWake
<1>19. ASSUME NEW th \in Threads, MainReturns(th)
      PROVE  Registers'
  BY <1>19 DEF MainReturns
<1>20. ASSUME NEW th \in Threads, ShowReturns(th)
      PROVE  Registers'
  BY <1>20 DEF ShowReturns
<1>21. ASSUME NEW th \in Threads, THxPAR_join_io(th)
      PROVE  Registers'
  BY <1>21 DEF THxPAR_join_io
<1>22. ASSUME NEW th \in Threads, ShutdownStop(th)
      PROVE  Registers'
  BY <1>22 DEF ShutdownStop, Broadcast
<1>23. ASSUME NEW th \in Threads, ShutdownJoin(th)
      PROVE  Registers'
  BY <1>23 DEF ShutdownJoin
<1>24. CASE UNCHANGED vars
  BY <1>24 DEF vars
<1>25. QED
  BY <1>1, <1>2, <1>3, <1>4, <1>5, <1>6, <1>7, <1>8, <1>9, <1>10, <1>11,
     <1>12, <1>13, <1>14, <1>15, <1>16, <1>17, <1>18, <1>19, <1>20,
     <1>21, <1>22, <1>23, <1>24
     DEF Next, Step, SpawnStep, ExecStep, AwaitStep, HelpStep, EndStep

\* A step that leaves the stacks alone and finishes no task.
LEMMA QuietStack ==
  ASSUME Structure, UNCHANGED <<state, top, on, below, calls>>,
         \A th \in Threads : (pc'[th] \in Finishing) = (pc[th] \in Finishing)
  PROVE  Chains' /\ Disjoint' /\ Progress'
<1>1. Chains'
  BY DEF Structure, Chains
<1>2. Disjoint'
  BY DEF Structure, Disjoint
<1>3. Progress'
  BY DEF Structure, Progress
<1> QED
  BY <1>1, <1>2, <1>3

\* Calling a claimed task pushes it on the caller's stack.
LEMMA EnterStack ==
  ASSUME Structure, NEW th \in Threads, NEW t \in Tasks, state[t] = "pending",
         pc[th] \notin Finishing, Enter(th, t)
  PROVE  Chains' /\ Disjoint' /\ Progress'
<1> USE Kinds DEF Structure, TypeOK, Enter, Goto
<1>1. /\ on[t] = None /\ below[t] = None /\ calls[t] = 0
      /\ \A u \in Tasks : below[u] # t
      /\ \A o \in Threads : top[o] # t
  BY DEF Progress, Chains
<1>2. \A o \in Threads : o # th => top[o] # top[th]
  BY DistinctTops
<1>3. Chains'
  BY <1>1 DEF Chains, Activities
<1>4. Disjoint'
  BY <1>1, <1>2 DEF Disjoint
<1>5. Progress'
  BY <1>1 DEF Progress, Finishing, Activities
<1> QED
  BY <1>3, <1>4, <1>5

\* The end of a task pops it off its thread's stack.
LEMMA ReturnStack ==
  ASSUME Structure, NEW th \in Threads, WakeAfterDone(th)
  PROVE  Chains' /\ Disjoint' /\ Progress'
<1> DEFINE t == top[th]
           a == below[t]
<1> USE Kinds DEF Structure, TypeOK
<1>1. /\ t \in Tasks /\ on[t] = th /\ a \in Activities
      /\ state[t] = "done"
      /\ pc[th] \in Finishing
  BY DEF WakeAfterDone, Registers, Chains, Progress, Finishing
<1>2. \A o \in Threads : o # th => top[o] # t /\ top[o] # a
  BY <1>1, DistinctTops DEF Disjoint
<1>3. \A u \in Tasks : below[u] # t /\ (u # t => below[u] # a)
  BY <1>1 DEF Disjoint, Activities
<1>4. /\ top' = [top EXCEPT ![th] = a]
      /\ on' = [on EXCEPT ![t] = None]
      /\ below' = [below EXCEPT ![t] = None]
      /\ UNCHANGED <<state, calls>>
  BY DEF WakeAfterDone
<1>5. /\ pc'[th] \notin Finishing
      /\ \A o \in Threads : o # th => (pc'[o] \in Finishing) = (pc[o] \in Finishing)
  BY DEF WakeAfterDone, Broadcast, LoopOf, Finishing
<1> HIDE DEF t, a
<1>6. a = below[t] /\ top[th] = t
  BY DEF t, a
<1>7. Chains'
  BY <1>1, <1>2, <1>3, <1>4, <1>6 DEF Chains, Activities
<1>8. Disjoint'
  BY SMTT(30), <1>1, <1>2, <1>3, <1>4, <1>6 DEF Disjoint, Activities
<1>9. Progress'
  BY <1>1, <1>2, <1>3, <1>4, <1>5, <1>6 DEF Progress, Activities
<1> QED
  BY <1>7, <1>8, <1>9

\* The function of a task returned.
LEMMA PublishStack ==
  ASSUME Structure, NEW th \in Threads, Publish(th)
  PROVE  Chains' /\ Disjoint' /\ Progress'
<1> DEFINE t == top[th]
<1> USE Kinds DEF Structure, TypeOK
<1>1. /\ t \in Tasks /\ state[t] = "running"
      /\ \A u \in Tasks : below[u] # t
      /\ \A o \in Threads : o # th => top[o] # t
  BY DistinctTops DEF Publish, Progress, Disjoint, Finishing
<1>2. Chains'
  BY DEF Publish, Chains
<1>3. Disjoint'
  BY DEF Publish, Disjoint
<1>4. Progress'
  BY <1>1 DEF Publish, Progress, Finishing, Goto
<1> QED
  BY <1>2, <1>3, <1>4

\* A new task is on no stack yet.
LEMMA SpawnStack ==
  ASSUME Structure, NEW th \in Threads, NEW t \in Tasks, SpawnTask(th, t)
  PROVE  Chains' /\ Disjoint' /\ Progress'
<1> USE Kinds DEF Structure, TypeOK
<1>1. /\ \A o \in Threads : top[o] # t
      /\ \A u \in Tasks : below[u] # t
  BY ZenonT(40) DEF SpawnTask, Progress, Finishing
<1>2. \A o \in Threads : (pc'[o] \in Finishing) = (pc[o] \in Finishing)
  BY DEF SpawnTask, mt_start, Finishing
<1>3. Chains'
  BY DEF SpawnTask, Chains
<1>4. Disjoint'
  BY DEF SpawnTask, Disjoint
<1>5. Progress'
  BY <1>1, <1>2 DEF SpawnTask, Progress
<1> QED
  BY <1>3, <1>4, <1>5

LEMMA StackStep ==
  ASSUME Structure, [Next]_vars
  PROVE  Chains' /\ Disjoint' /\ Progress'
<1> USE DEF Goto, Finishing
<1>0. Registers /\ TypeOK
  BY DEF Structure
<1>1. ASSUME NEW th \in Threads, NEW t \in Tasks, SpawnTask(th, t)
      PROVE  Chains' /\ Disjoint' /\ Progress'
  BY <1>1, SpawnStack
<1>2. ASSUME NEW th \in Threads, deque_push(th)
      PROVE  Chains' /\ Disjoint' /\ Progress'
  BY <1>0, <1>2, QuietStack DEF deque_push, TypeOK
<1>3. ASSUME NEW th \in Threads, CountQueued(th)
      PROVE  Chains' /\ Disjoint' /\ Progress'
  BY <1>0, <1>3, QuietStack DEF CountQueued, TypeOK
<1>4. ASSUME NEW th \in Threads, WakeAfterPush(th)
      PROVE  Chains' /\ Disjoint' /\ Progress'
  BY <1>0, <1>4, QuietStack DEF WakeAfterPush, Broadcast, TypeOK
<1>5. ASSUME NEW th \in Threads, Publish(th)
      PROVE  Chains' /\ Disjoint' /\ Progress'
  BY <1>5, PublishStack
<1>6. ASSUME NEW th \in Threads, IoFinished(th)
      PROVE  Chains' /\ Disjoint' /\ Progress'
  BY <1>0, <1>6, QuietStack DEF IoFinished, TypeOK
<1>7. ASSUME NEW th \in Threads, WakeAfterDone(th)
      PROVE  Chains' /\ Disjoint' /\ Progress'
  BY <1>7, ReturnStack
<1>8. ASSUME NEW th \in Threads, NEW t \in Tasks, THxPAR_await(th, t)
      PROVE  Chains' /\ Disjoint' /\ Progress'
  BY <1>0, <1>8, QuietStack DEF THxPAR_await, TypeOK
<1>9. ASSUME NEW th \in Threads, AwaitDone(th)
      PROVE  Chains' /\ Disjoint' /\ Progress'
  BY <1>0, <1>9, QuietStack DEF AwaitDone, TypeOK
<1>10. ASSUME NEW th \in Threads, AwaitNotDone(th)
      PROVE  Chains' /\ Disjoint' /\ Progress'
  BY <1>0, <1>10, QuietStack DEF AwaitNotDone, TypeOK
<1>11. ASSUME NEW th \in Threads, AwaitClaim(th)
      PROVE  Chains' /\ Disjoint' /\ Progress'
  <2> DEFINE u == awaits[top[th]]
  <2>1. u \in Tasks /\ pc[th] \notin Finishing
    BY <1>0, <1>11 DEF AwaitClaim, Registers
  <2>2. CASE task_claim(u) /\ Enter(th, u)
    BY <2>1, <2>2, EnterStack DEF task_claim
  <2>3. CASE Goto(th, "scan") /\ UNCHANGED <<state, on, below, top, calls>>
    BY <1>0, <1>11, <2>3, QuietStack DEF AwaitClaim, TypeOK
  <2> QED
    BY <1>11, <2>2, <2>3 DEF AwaitClaim
<1>12. ASSUME NEW th \in Threads, ScanTake(th)
      PROVE  Chains' /\ Disjoint' /\ Progress'
  BY <1>0, <1>12, QuietStack DEF ScanTake, TypeOK
<1>13. ASSUME NEW th \in Threads, ScanNext(th)
      PROVE  Chains' /\ Disjoint' /\ Progress'
  BY <1>0, <1>13, QuietStack DEF ScanNext, TypeOK
<1>14. ASSUME NEW th \in Threads, UncountQueued(th)
      PROVE  Chains' /\ Disjoint' /\ Progress'
  BY <1>0, <1>14, QuietStack DEF UncountQueued, TypeOK
<1>15. ASSUME NEW th \in Threads, mt_run_entry(th)
      PROVE  Chains' /\ Disjoint' /\ Progress'
  <2>1. item[th] \in Tasks /\ pc[th] \notin Finishing
    BY <1>0, <1>15 DEF mt_run_entry, Registers
  <2>2. CASE task_claim(item[th]) /\ Enter(th, item[th])
    BY <2>1, <2>2, EnterStack DEF task_claim
  <2>3. CASE Goto(th, LoopOf(top[th])) /\ UNCHANGED <<state, on, below, top, calls>>
    BY <1>0, <1>15, <2>3, QuietStack DEF mt_run_entry, LoopOf, TypeOK
  <2> QED
    BY <1>15, <2>2, <2>3 DEF mt_run_entry
<1>16. ASSUME NEW th \in Threads, SleepTest(th)
      PROVE  Chains' /\ Disjoint' /\ Progress'
  BY <1>0, <1>16, QuietStack DEF SleepTest, TypeOK
<1>17. ASSUME NEW th \in Threads, SleepOrRescan(th)
      PROVE  Chains' /\ Disjoint' /\ Progress'
  BY <1>0, <1>17, QuietStack DEF SleepOrRescan, LoopOf, TypeOK
<1>18. ASSUME NEW th \in Threads, SpuriousWake(th)
      PROVE  Chains' /\ Disjoint' /\ Progress'
  BY <1>0, <1>18, QuietStack DEF SpuriousWake, TypeOK
<1>19. ASSUME NEW th \in Threads, MainReturns(th)
      PROVE  Chains' /\ Disjoint' /\ Progress'
  BY <1>0, <1>19, QuietStack DEF MainReturns, TypeOK
<1>20. ASSUME NEW th \in Threads, ShowReturns(th)
      PROVE  Chains' /\ Disjoint' /\ Progress'
  BY <1>0, <1>20, QuietStack DEF ShowReturns, TypeOK
<1>21. ASSUME NEW th \in Threads, THxPAR_join_io(th)
      PROVE  Chains' /\ Disjoint' /\ Progress'
  BY <1>0, <1>21, QuietStack DEF THxPAR_join_io, TypeOK
<1>22. ASSUME NEW th \in Threads, ShutdownStop(th)
      PROVE  Chains' /\ Disjoint' /\ Progress'
  BY <1>0, <1>22, QuietStack DEF ShutdownStop, Broadcast, TypeOK
<1>23. ASSUME NEW th \in Threads, ShutdownJoin(th)
      PROVE  Chains' /\ Disjoint' /\ Progress'
  BY <1>0, <1>23, QuietStack DEF ShutdownJoin, TypeOK
<1>24. CASE UNCHANGED vars
  BY <1>24, QuietStack DEF vars
<1>25. QED
  BY <1>1, <1>2, <1>3, <1>4, <1>5, <1>6, <1>7, <1>8, <1>9, <1>10, <1>11,
     <1>12, <1>13, <1>14, <1>15, <1>16, <1>17, <1>18, <1>19, <1>20,
     <1>21, <1>22, <1>23, <1>24
     DEF Next, Step, SpawnStep, ExecStep, AwaitStep, HelpStep, EndStep

LEMMA StructureStep == Structure /\ [Next]_vars => Structure'
BY TypeStep, RegistersStep, StackStep DEF Structure

LEMMA StructureInit == Init => Structure
<1> SUFFICES ASSUME Init PROVE Structure
  OBVIOUS
<1> USE Kinds, PoolAssumption DEF Init
<1>1. TypeOK
  <2>1. queued \in 0 .. Wrap - 1 /\ scan \in [Threads -> 0 .. NThreads - 1]
    OBVIOUS
  <2>2. deque \in [Threads -> Seq(Tasks)]
    OBVIOUS
  <2>3. pc \in [Threads -> Labels]
    BY DEF Labels
  <2> QED
    BY <2>1, <2>2, <2>3 DEF TypeOK
<1>2. Registers
  BY DEF Registers, Finishing
<1>3. Chains
  BY DEF Chains
<1>4. Disjoint /\ Progress
  BY DEF Disjoint, Progress
<1> QED
  BY <1>1, <1>2, <1>3, <1>4 DEF Structure

\* The stacks of the pool are well formed in every reachable state.
THEOREM WellFormed == Spec => []Structure
BY StructureInit, StructureStep, PTL DEF Spec

\* The type invariant the runs check.
THEOREM TypeCorrect == Spec => []TypeOK
<1>1. Structure => TypeOK
  BY DEF Structure
<1> QED
  BY <1>1, WellFormed, PTL

\* No task's function is called twice.
THEOREM TasksRunAtMostOnce == Spec => []AtMostOnce
<1>1. ASSUME Structure, NEW t \in Tasks
      PROVE  calls[t] <= 1
  <2>1. state[t] \in {"unborn", "pending"} \/ state[t] \in {"running", "done"}
    BY <1>1 DEF Structure, TypeOK
  <2>2. calls[t] \in {0, 1}
    BY <1>1, <2>1 DEF Structure, Progress
  <2> QED
    BY <2>2
<1>2. Structure => AtMostOnce
  BY <1>1 DEF AtMostOnce
<1> QED
  BY <1>2, WellFormed, PTL

-----------------------------------------------------------------------------
\* A step that neither spawns, finishes nor accounts for a `@spawn` task.
LEMMA QuietIo ==
  ASSUME IoCount, ioPending' = ioPending,
         \A t \in IoTasks : (state'[t] \in {"pending", "running"})
                              = (state[t] \in {"pending", "running"}),
         \A th \in Threads, t \in IoTasks :
           (pc'[th] = "iodec" /\ top'[th] = t) = (pc[th] = "iodec" /\ top[th] = t)
  PROVE  IoCount'
<1>1. IoOpen' = IoOpen
  BY DEF IoOpen
<1> QED
  BY <1>1 DEF IoCount

LEMMA IoOpenFinite == IsFiniteSet(IoOpen) /\ Cardinality(IoOpen) \in Nat
<1>1. IoOpen \in SUBSET Tasks
  BY PoolAssumption DEF IoOpen
<1>2. IsFiniteSet(IoOpen)
  BY <1>1, PoolAssumption, FS_Subset
<1> QED
  BY <1>2, FS_CardinalityType

LEMMA IoStep ==
  ASSUME Structure, IoCount, [Next]_vars
  PROVE  IoCount'
<1> USE Kinds DEF Goto
<1>0. TypeOK /\ Registers /\ Progress
  BY DEF Structure
<1>1. ASSUME NEW th \in Threads, NEW t \in Tasks, SpawnTask(th, t)
      PROVE  IoCount'
  <2>1. CASE t \notin IoTasks
    BY <1>0, <1>1, <2>1, QuietIo DEF SpawnTask, mt_start, TypeOK
  <2>2. CASE t \in IoTasks
    <3>1. \A o \in Threads : top[o] # t /\ (pc'[o] = "iodec") = (pc[o] = "iodec")
      <4> SUFFICES ASSUME NEW o \in Threads
                   PROVE  top[o] # t /\ (pc'[o] = "iodec") = (pc[o] = "iodec")
        OBVIOUS
      <4>1. top[o] # t
        <5>1. state[t] = "unborn"
          BY <1>1 DEF SpawnTask
        <5> QED
          BY <1>0, <5>1 DEF Progress
      <4>2. /\ pc[th] = "body"
            /\ pc' = [mt_start(pc) EXCEPT ![th] = "push"]
        BY <1>1 DEF SpawnTask
      <4>3. pc'[o] = IF o = th THEN "push" ELSE IF pc[o] = "off" THEN "scan" ELSE pc[o]
        BY <4>2 DEF mt_start
      <4> QED
        BY <4>1, <4>2, <4>3
    <3>2. t \notin IoOpen /\ IoOpen' = IoOpen \cup {t}
      BY <1>0, <1>1, <2>2, <3>1 DEF SpawnTask, IoOpen, TypeOK
    <3>3. Cardinality(IoOpen') = Cardinality(IoOpen) + 1
      BY <3>2, IoOpenFinite, FS_AddElement
    <3> QED
      BY <1>1, <2>2, <3>3 DEF SpawnTask, IoCount
  <2> QED
    BY <2>1, <2>2
<1>2. ASSUME NEW th \in Threads, deque_push(th)
      PROVE  IoCount'
  BY <1>0, <1>2, QuietIo DEF deque_push, TypeOK
<1>3. ASSUME NEW th \in Threads, CountQueued(th)
      PROVE  IoCount'
  BY <1>0, <1>3, QuietIo DEF CountQueued, TypeOK
<1>4. ASSUME NEW th \in Threads, WakeAfterPush(th)
      PROVE  IoCount'
  BY <1>0, <1>4, QuietIo DEF WakeAfterPush, Broadcast, TypeOK
<1>5. ASSUME NEW th \in Threads, Publish(th)
      PROVE  IoCount'
  <2> DEFINE u == top[th]
  <2>1. /\ u \in Tasks /\ state[u] = "running" /\ pc[th] = "body"
        /\ \A o \in Threads : o # th => top[o] # u
    BY <1>0, <1>5, DistinctTops DEF Publish, Progress, Finishing
  <2>2. IoOpen' = IoOpen
    BY <1>0, <1>5, <2>1 DEF Publish, IoOpen, TypeOK
  <2> QED
    BY <1>5, <2>2 DEF Publish, IoCount
<1>6. ASSUME NEW th \in Threads, IoFinished(th)
      PROVE  IoCount'
  <2> DEFINE u == top[th]
  <2>1. /\ u \in IoTasks /\ state[u] = "done" /\ pc[th] = "iodec"
        /\ \A o \in Threads : o # th => top[o] # u
    BY <1>0, <1>6, DistinctTops DEF IoFinished, Registers, Progress, Finishing
  <2>2. u \in IoOpen /\ IoOpen' = IoOpen \ {u}
    BY <1>0, <1>6, <2>1 DEF IoFinished, IoOpen, TypeOK
  <2>3. Cardinality(IoOpen') = Cardinality(IoOpen) - 1
    BY <2>2, IoOpenFinite, FS_RemoveElement
  <2> QED
    BY <1>6, <2>3 DEF IoFinished, IoCount
<1>7. ASSUME NEW th \in Threads, WakeAfterDone(th)
      PROVE  IoCount'
  BY <1>0, <1>7, QuietIo DEF WakeAfterDone, Broadcast, LoopOf, TypeOK
<1>8. ASSUME NEW th \in Threads, NEW t \in Tasks, THxPAR_await(th, t)
      PROVE  IoCount'
  BY <1>0, <1>8, QuietIo DEF THxPAR_await, TypeOK
<1>9. ASSUME NEW th \in Threads, AwaitDone(th)
      PROVE  IoCount'
  BY <1>0, <1>9, QuietIo DEF AwaitDone, TypeOK
<1>10. ASSUME NEW th \in Threads, AwaitNotDone(th)
      PROVE  IoCount'
  BY <1>0, <1>10, QuietIo DEF AwaitNotDone, TypeOK
<1>11. ASSUME NEW th \in Threads, AwaitClaim(th)
      PROVE  IoCount'
  BY <1>0, <1>11, QuietIo DEF AwaitClaim, Enter, task_claim, Registers, TypeOK
<1>12. ASSUME NEW th \in Threads, ScanTake(th)
      PROVE  IoCount'
  BY <1>0, <1>12, QuietIo DEF ScanTake, TypeOK
<1>13. ASSUME NEW th \in Threads, ScanNext(th)
      PROVE  IoCount'
  BY <1>0, <1>13, QuietIo DEF ScanNext, TypeOK
<1>14. ASSUME NEW th \in Threads, UncountQueued(th)
      PROVE  IoCount'
  BY <1>0, <1>14, QuietIo DEF UncountQueued, TypeOK
<1>15. ASSUME NEW th \in Threads, mt_run_entry(th)
      PROVE  IoCount'
  BY <1>0, <1>15, QuietIo DEF mt_run_entry, Enter, task_claim, LoopOf, Registers, TypeOK
<1>16. ASSUME NEW th \in Threads, SleepTest(th)
      PROVE  IoCount'
  BY <1>0, <1>16, QuietIo DEF SleepTest, TypeOK
<1>17. ASSUME NEW th \in Threads, SleepOrRescan(th)
      PROVE  IoCount'
  BY <1>0, <1>17, QuietIo DEF SleepOrRescan, LoopOf, TypeOK
<1>18. ASSUME NEW th \in Threads, SpuriousWake(th)
      PROVE  IoCount'
  BY <1>0, <1>18, QuietIo DEF SpuriousWake, TypeOK
<1>19. ASSUME NEW th \in Threads, MainReturns(th)
      PROVE  IoCount'
  BY <1>0, <1>19, QuietIo DEF MainReturns, TypeOK
<1>20. ASSUME NEW th \in Threads, ShowReturns(th)
      PROVE  IoCount'
  BY <1>0, <1>20, QuietIo DEF ShowReturns, TypeOK
<1>21. ASSUME NEW th \in Threads, THxPAR_join_io(th)
      PROVE  IoCount'
  BY <1>0, <1>21, QuietIo DEF THxPAR_join_io, TypeOK
<1>22. ASSUME NEW th \in Threads, ShutdownStop(th)
      PROVE  IoCount'
  BY <1>0, <1>22, QuietIo DEF ShutdownStop, Broadcast, TypeOK
<1>23. ASSUME NEW th \in Threads, ShutdownJoin(th)
      PROVE  IoCount'
  BY <1>0, <1>23, QuietIo DEF ShutdownJoin, TypeOK
<1>24. CASE UNCHANGED vars
  BY <1>24, QuietIo DEF vars
<1>25. QED
  BY <1>1, <1>2, <1>3, <1>4, <1>5, <1>6, <1>7, <1>8, <1>9, <1>10, <1>11,
     <1>12, <1>13, <1>14, <1>15, <1>16, <1>17, <1>18, <1>19, <1>20,
     <1>21, <1>22, <1>23, <1>24
     DEF Next, Step, SpawnStep, ExecStep, AwaitStep, HelpStep, EndStep

\* A step of another thread, or one that keeps the main thread where it is, does
\* not bring a `@spawn` task into a pool that is shutting down.
LEMMA QuietLeave ==
  ASSUME MainLeaves, ShowLeaves,
         pc'[0] \in Leaving => pc[0] \in Leaving /\ top'[0] = top[0],
         pc'[0] \in {"shutdown", "join"} => pc[0] \in {"shutdown", "join"},
         pc'[0] \in Leaving => \A t \in IoTasks : state'[t] = state[t]
  PROVE  MainLeaves' /\ ShowLeaves'
BY DEF MainLeaves, ShowLeaves, Leaving

LEMMA LeaveStep ==
  ASSUME Structure, IoCount, MainLeaves, ShowLeaves, [Next]_vars
  PROVE  MainLeaves' /\ ShowLeaves'
<1> USE Kinds DEF Goto, Leaving
<1>0. TypeOK /\ Registers /\ Progress /\ Chains
  BY DEF Structure
<1>1. ASSUME NEW th \in Threads, NEW t \in Tasks, ~Exited, SpawnTask(th, t)
      PROVE  MainLeaves' /\ ShowLeaves'
  <2>1. CASE pc'[0] \notin Leaving
    BY <2>1 DEF MainLeaves, ShowLeaves
  <2>2. CASE pc'[0] \in Leaving
    <3>1. pc[0] \in {"shutdown", "join"} /\ th # 0
      BY <1>0, <1>1, <2>2 DEF SpawnTask, mt_start, Exited, TypeOK
    <3>2. \A u \in IoTasks : state[u] = "unborn"
      BY <3>1 DEF ShowLeaves
    <3>3. top[th] \notin IoTasks \cup {0}
      BY <1>0, <1>1, <3>1, <3>2 DEF SpawnTask, Chains, Progress, Finishing
    <3>4. t \notin IoTasks
      BY <1>1, <3>3 DEF SpawnTask, MaySpawn
    <3> QED
      BY <1>0, <1>1, <3>1, <3>4, QuietLeave DEF SpawnTask, mt_start, TypeOK
  <2> QED
    BY <2>1, <2>2
<1>2. ASSUME NEW th \in Threads, ~Exited, deque_push(th)
      PROVE  MainLeaves' /\ ShowLeaves'
  BY <1>0, <1>2, QuietLeave DEF deque_push, TypeOK
<1>3. ASSUME NEW th \in Threads, ~Exited, CountQueued(th)
      PROVE  MainLeaves' /\ ShowLeaves'
  BY <1>0, <1>3, QuietLeave DEF CountQueued, TypeOK
<1>4. ASSUME NEW th \in Threads, ~Exited, WakeAfterPush(th)
      PROVE  MainLeaves' /\ ShowLeaves'
  BY <1>0, <1>4, QuietLeave DEF WakeAfterPush, Broadcast, TypeOK
<1>5. ASSUME NEW th \in Threads, ~Exited, Publish(th)
      PROVE  MainLeaves' /\ ShowLeaves'
  <2>1. CASE pc'[0] \notin Leaving
    BY <2>1 DEF MainLeaves, ShowLeaves
  <2>2. CASE pc'[0] \in Leaving
    <3>1. pc[0] \in {"shutdown", "join"} /\ th # 0
      BY <1>0, <1>5, <2>2 DEF Publish, Exited, TypeOK
    <3>2. \A u \in IoTasks : state[u] = "unborn"
      BY <3>1 DEF ShowLeaves
    <3>3. top[th] \notin IoTasks
      BY <1>0, <1>5, <3>2 DEF Publish, Progress, Finishing
    <3> QED
      BY <1>0, <1>5, <3>1, <3>3, QuietLeave DEF Publish, TypeOK
  <2> QED
    BY <2>1, <2>2
<1>6. ASSUME NEW th \in Threads, ~Exited, IoFinished(th)
      PROVE  MainLeaves' /\ ShowLeaves'
  BY <1>0, <1>6, QuietLeave DEF IoFinished, TypeOK
<1>7. ASSUME NEW th \in Threads, ~Exited, WakeAfterDone(th)
      PROVE  MainLeaves' /\ ShowLeaves'
  BY <1>0, <1>7, QuietLeave DEF WakeAfterDone, Broadcast, LoopOf, TypeOK
<1>8. ASSUME NEW th \in Threads, NEW t \in Tasks, ~Exited, THxPAR_await(th, t)
      PROVE  MainLeaves' /\ ShowLeaves'
  BY <1>0, <1>8, QuietLeave DEF THxPAR_await, TypeOK
<1>9. ASSUME NEW th \in Threads, ~Exited, AwaitDone(th)
      PROVE  MainLeaves' /\ ShowLeaves'
  BY <1>0, <1>9, QuietLeave DEF AwaitDone, TypeOK
<1>10. ASSUME NEW th \in Threads, ~Exited, AwaitNotDone(th)
      PROVE  MainLeaves' /\ ShowLeaves'
  BY <1>0, <1>10, QuietLeave DEF AwaitNotDone, TypeOK
<1>11. ASSUME NEW th \in Threads, ~Exited, AwaitClaim(th)
      PROVE  MainLeaves' /\ ShowLeaves'
  <2>1. CASE pc'[0] \notin Leaving
    BY <2>1 DEF MainLeaves, ShowLeaves
  <2>2. CASE pc'[0] \in Leaving
    <3>1. pc[0] \in {"shutdown", "join"} /\ th # 0
      BY <1>0, <1>11, <2>2 DEF AwaitClaim, Enter, Exited, TypeOK
    <3>2. \A u \in IoTasks : state[u] = "unborn"
      BY <3>1 DEF ShowLeaves
    <3> QED
      BY <1>0, <1>11, <3>1, <3>2, QuietLeave
         DEF AwaitClaim, Enter, task_claim, Registers, TypeOK
  <2> QED
    BY <2>1, <2>2
<1>12. ASSUME NEW th \in Threads, ~Exited, ScanTake(th)
      PROVE  MainLeaves' /\ ShowLeaves'
  BY <1>0, <1>12, QuietLeave DEF ScanTake, TypeOK
<1>13. ASSUME NEW th \in Threads, ~Exited, ScanNext(th)
      PROVE  MainLeaves' /\ ShowLeaves'
  BY <1>0, <1>13, QuietLeave DEF ScanNext, TypeOK
<1>14. ASSUME NEW th \in Threads, ~Exited, UncountQueued(th)
      PROVE  MainLeaves' /\ ShowLeaves'
  BY <1>0, <1>14, QuietLeave DEF UncountQueued, TypeOK
<1>15. ASSUME NEW th \in Threads, ~Exited, mt_run_entry(th)
      PROVE  MainLeaves' /\ ShowLeaves'
  <2>1. CASE pc'[0] \notin Leaving
    BY <2>1 DEF MainLeaves, ShowLeaves
  <2>2. CASE pc'[0] \in Leaving
    <3>1. pc[0] \in {"shutdown", "join"} /\ th # 0
      BY <1>0, <1>15, <2>2 DEF mt_run_entry, Enter, LoopOf, Exited, TypeOK
    <3>2. \A u \in IoTasks : state[u] = "unborn"
      BY <3>1 DEF ShowLeaves
    <3> QED
      BY <1>0, <1>15, <3>1, <3>2, QuietLeave
         DEF mt_run_entry, Enter, task_claim, Registers, TypeOK
  <2> QED
    BY <2>1, <2>2
<1>16. ASSUME NEW th \in Threads, ~Exited, SleepTest(th)
      PROVE  MainLeaves' /\ ShowLeaves'
  <2>1. th = 0 => top[th] \notin Workers
    BY <1>0 DEF Chains, Workers
  <2> QED
    BY <1>0, <1>16, <2>1, QuietLeave DEF SleepTest, TypeOK
<1>17. ASSUME NEW th \in Threads, ~Exited, SleepOrRescan(th)
      PROVE  MainLeaves' /\ ShowLeaves'
  BY <1>0, <1>17, QuietLeave DEF SleepOrRescan, LoopOf, TypeOK
<1>18. ASSUME NEW th \in Threads, ~Exited, SpuriousWake(th)
      PROVE  MainLeaves' /\ ShowLeaves'
  BY <1>0, <1>18, QuietLeave DEF SpuriousWake, TypeOK
<1>19. ASSUME NEW th \in Threads, ~Exited, MainReturns(th)
      PROVE  MainLeaves' /\ ShowLeaves'
  BY <1>0, <1>19, QuietLeave DEF MainReturns, TypeOK
<1>20. ASSUME NEW th \in Threads, ~Exited, ShowReturns(th)
      PROVE  MainLeaves' /\ ShowLeaves'
  <2>1. th = 0 /\ top'[0] = 0
    BY <1>0, <1>20 DEF ShowReturns, Chains
  <2>2. \A u \in IoTasks : state'[u] = "unborn"
    BY <1>20 DEF ShowReturns
  <2> QED
    BY <2>1, <2>2 DEF MainLeaves, ShowLeaves
<1>21. ASSUME NEW th \in Threads, ~Exited, THxPAR_join_io(th)
      PROVE  MainLeaves' /\ ShowLeaves'
  <2>1. th = 0 /\ top'[0] = 0 /\ state' = state
    BY <1>0, <1>21 DEF THxPAR_join_io, Chains
  <2>2. pc'[0] = IF ioPending > 0 THEN "scan" ELSE "exited"
    BY <1>0, <1>21, <2>1 DEF THxPAR_join_io, TypeOK
  <2>3. CASE ioPending > 0
    BY <2>2, <2>3 DEF MainLeaves, ShowLeaves
  <2>4. CASE ~(ioPending > 0)
    <3>1. Cardinality(IoOpen) = 0
      BY <2>4, IoOpenFinite DEF IoCount
    <3>2. IoOpen = {}
      BY <3>1, IoOpenFinite, FS_EmptySet
    <3>3. \A u \in IoTasks : state[u] \in {"unborn", "done"}
      BY <1>0, <3>2 DEF IoOpen, TypeOK
    <3> QED
      BY <2>1, <2>2, <2>4, <3>3 DEF MainLeaves, ShowLeaves
  <2> QED
    BY <2>3, <2>4
<1>22. ASSUME NEW th \in Threads, ~Exited, ShutdownStop(th)
      PROVE  MainLeaves' /\ ShowLeaves'
  BY <1>0, <1>22, QuietLeave DEF ShutdownStop, Broadcast, TypeOK
<1>23. ASSUME NEW th \in Threads, ~Exited, ShutdownJoin(th)
      PROVE  MainLeaves' /\ ShowLeaves'
  BY <1>0, <1>23, QuietLeave DEF ShutdownJoin, TypeOK
<1>24. CASE UNCHANGED vars
  BY <1>24, QuietLeave DEF vars
<1>25. QED
  BY <1>1, <1>2, <1>3, <1>4, <1>5, <1>6, <1>7, <1>8, <1>9, <1>10, <1>11,
     <1>12, <1>13, <1>14, <1>15, <1>16, <1>17, <1>18, <1>19, <1>20,
     <1>21, <1>22, <1>23, <1>24
     DEF Next, Step, SpawnStep, ExecStep, AwaitStep, HelpStep, EndStep

\* PAR.thx: "A program exits only after every `spawn` task has finished."
THEOREM ExitsAfterIo == Spec => []ExitAfterIo
<1>1. Init => IInv
  <2> SUFFICES ASSUME Init PROVE IInv
    OBVIOUS
  <2>1. IoOpen = {}
    BY Kinds DEF Init, IoOpen
  <2>2. IoCount
    BY <2>1, FS_EmptySet DEF Init, IoCount
  <2>3. MainLeaves /\ ShowLeaves
    BY Kinds DEF Init, MainLeaves, ShowLeaves, Leaving
  <2> QED
    BY <2>2, <2>3, StructureInit DEF IInv
<1>2. IInv /\ [Next]_vars => IInv'
  BY StructureStep, IoStep, LeaveStep DEF IInv
<1>3. IInv => ExitAfterIo
  BY DEF IInv, MainLeaves, Leaving, ExitAfterIo, Exited
<1> QED
  BY <1>1, <1>2, <1>3, PTL DEF Spec

=============================================================================
