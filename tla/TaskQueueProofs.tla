-------------------------- MODULE TaskQueueProofs --------------------------
(***************************************************************************)
(* Theorems about TaskQueue.  The inductive invariant is QInv: a task that *)
(* waits to start has an entry in the queue, the running tasks are the     *)
(* ones on the stack, each once, and what a transaction has read is still  *)
(* current, because nothing commits between its first read and its end     *)
(* but a transaction that empties the log.                                 *)
(***************************************************************************)
EXTENDS TaskQueue, TLAPS, SequenceTheorems

\* What the constants must satisfy, where the proofs need it.
Distinct == Main \notin Tasks /\ None \notin {"deadlock", "awaits itself"}

\* Nobody is forgotten: every pending task has an entry.
PendingQueued == \A t \in Tasks : task[t] = "pending" => \E i \in 1 .. Len(tasks) : tasks[i] = t

\* The running tasks are those on the stack, above the program, each once.
StackRuns ==
  /\ stack[1] = Main
  /\ \A i, j \in 1 .. Len(stack) : stack[i] = stack[j] => i = j
  /\ \A t \in Tasks : task[t] = "running" <=> \E i \in 1 .. Len(stack) : stack[i] = t

\* Only the program finishes, and then it is alone.
EndsLast ==
  /\ \A t \in Tasks : pc[t] \notin {"finish", "exited"}
  /\ pc[Main] = "exited" => Len(stack) = 1 /\ \A t \in Tasks : task[t] \in {"new", "done"}

QInv ==
  /\ TypeOK
  /\ PendingQueued
  /\ StackRuns
  /\ EndsLast
  /\ Unchanged(reads)
  /\ DeadlockTriedAll

-----------------------------------------------------------------------------
(* Lemmas. *)

\* The sequence without its last element.
LEMMA AllButLast ==
  ASSUME NEW S, NEW s \in Seq(S), s # <<>>
  PROVE  LET f == SubSeq(s, 1, Len(s) - 1)
         IN  /\ f \in Seq(S) /\ Len(f) = Len(s) - 1
             /\ \A i \in 1 .. Len(s) - 1 : f[i] = s[i]
<1> DEFINE n == Len(s) - 1
<1>1. n \in Nat /\ Len(s) = n + 1 /\ \A i \in 1 .. n + 1 : s[i] \in S
  BY EmptySeq
<1> HIDE DEF n
<1>2. /\ SubSeq(s, 1, n) \in Seq(S)
      /\ Len(SubSeq(s, 1, n)) = IF 1 <= n THEN n - 1 + 1 ELSE 0
      /\ \A i \in 1 .. n - 1 + 1 : SubSeq(s, 1, n)[i] = s[1 + i - 1]
  BY <1>1, SubSeqProperties
<1>3. ASSUME NEW i \in 1 .. n
      PROVE  SubSeq(s, 1, n)[i] = s[i]
  <2>1. n - 1 + 1 = n /\ 1 + i - 1 = i
    BY <1>1
  <2> QED
    BY <1>2, <2>1
<1>4. Len(SubSeq(s, 1, n)) = n
  BY <1>1, <1>2
<1> QED
  BY <1>2, <1>3, <1>4 DEF n

\* The sequence without its first i elements.
LEMMA Dropped ==
  ASSUME NEW S, NEW s \in Seq(S), NEW i \in 0 .. Len(s)
  PROVE  LET d == SubSeq(s, i + 1, Len(s))
         IN  /\ d \in Seq(S) /\ Len(d) = Len(s) - i
             /\ \A j \in 1 .. Len(s) - i : d[j] = s[i + j]
<1> DEFINE n == Len(s)
           d == SubSeq(s, i + 1, n)
<1>1. n \in Nat /\ i \in Nat /\ i <= n /\ \A j \in 1 .. n : s[j] \in S
  OBVIOUS
<1> HIDE DEF n
<1>2. /\ d \in Seq(S)
      /\ Len(d) = IF i + 1 <= n THEN n - (i + 1) + 1 ELSE 0
      /\ \A j \in 1 .. n - (i + 1) + 1 : d[j] = s[i + 1 + j - 1]
  BY <1>1, SubSeqProperties
<1>3. ASSUME NEW j \in 1 .. n - i
      PROVE  d[j] = s[i + j]
  <2>1. n - (i + 1) + 1 = n - i /\ i + 1 + j - 1 = i + j
    BY <1>1
  <2> QED
    BY <1>2, <2>1
<1>4. Len(d) = n - i
  BY <1>1, <1>2
<1> QED
  BY <1>2, <1>3, <1>4 DEF n

-----------------------------------------------------------------------------
(* Every step keeps QInv. *)

\* A step that leaves the queue, the stack and the tasks alone, keeps the log
\* current, and does not end the program.
LEMMA QuietSteps ==
  ASSUME Distinct, QInv, UNCHANGED <<task, tasks, stack>>, fault' = None, TypeOK',
         \A t \in Tasks : pc'[t] \notin {"finish", "exited"},
         pc'[Main] # "exited",
         Unchanged(reads)'
  PROVE  QInv'
<1>1. PendingQueued' /\ StackRuns'
  BY DEF QInv, PendingQueued, StackRuns
<1>2. EndsLast' /\ DeadlockTriedAll'
  BY DEF EndsLast, DeadlockTriedAll, Distinct
<1> QED
  BY <1>1, <1>2 DEF QInv

LEMMA TopFacts ==
  ASSUME TypeOK
  PROVE  Len(stack) \in Nat /\ Len(stack) >= 1 /\ Top \in Activities
<1>1. stack \in Seq(Activities) /\ stack # <<>>
  BY DEF TypeOK
<1>2. Len(stack) \in Nat /\ Len(stack) # 0
  BY <1>1, EmptySeq
<1>3. \A i \in 1 .. Len(stack) : stack[i] \in Activities
  BY <1>1
<1> QED
  BY <1>2, <1>3 DEF Top

\* The program, on top or not, has not exited while it can do something.
LEMMA NotExited ==
  ASSUME QInv, NEW a \in Activities, fault = None, a = Top, pc[a] # "exited"
  PROVE  pc[Main] # "exited"
<1> SUFFICES ASSUME pc[Main] = "exited"
             PROVE  FALSE
  OBVIOUS
<1>1. Len(stack) = 1 /\ stack[1] = Main
  BY DEF QInv, EndsLast, StackRuns
<1> QED
  BY <1>1 DEF Top

LEMMA InitQ == ASSUME Distinct, Init PROVE QInv
<1>1. /\ Main \in Activities /\ <<Main>> \in Seq(Activities) /\ Len(<<Main>>) = 1 /\ <<Main>>[1] = Main
      /\ <<Main>> # <<>>
  BY DEF Activities
<1>2. TypeOK
  BY <1>1 DEF Init, TypeOK
<1>3. PendingQueued
  BY DEF Init, PendingQueued
<1>4. StackRuns
  <2>1. stack[1] = Main /\ Len(stack) = 1 /\ \A t \in Tasks : task[t] # "running" /\ t # Main
    BY <1>1 DEF Init, Distinct
  <2> QED
    BY <2>1 DEF StackRuns
<1>5. EndsLast
  BY <1>1 DEF Init, EndsLast, Activities
<1>6. Len(reads) = 0 /\ fault = None
  BY DEF Init
<1>7. Unchanged(reads)
  BY <1>6 DEF Unchanged
<1>8. DeadlockTriedAll
  BY <1>6 DEF DeadlockTriedAll, Distinct
<1> QED
  BY <1>2, <1>3, <1>4, <1>5, <1>7, <1>8 DEF QInv

LEMMA SpawnQ ==
  ASSUME Distinct, QInv, NEW a \in Activities, NEW t \in Tasks, Spawn(a, t)
  PROVE  QInv'
<1>0. /\ TypeOK /\ fault = None /\ pc[Main] # "exited"
      /\ UNCHANGED <<stack, pc, from, got, chan, version, reads, writes, watch, fault>>
      /\ task' = [task EXCEPT ![t] = "pending"] /\ tasks' = Append(tasks, t)
  BY NotExited DEF QInv, Spawn, At, stm
<1>1. /\ task \in [Tasks -> {"new", "pending", "running", "done"}]
      /\ tasks \in Seq(Tasks) /\ Len(tasks) \in Nat
  BY <1>0 DEF TypeOK
<1>2. /\ tasks' \in Seq(Tasks) /\ Len(tasks') = Len(tasks) + 1
      /\ tasks'[Len(tasks) + 1] = t
      /\ \A i \in 1 .. Len(tasks) : tasks'[i] = tasks[i]
  BY <1>0, <1>1
<1>3. task' \in [Tasks -> {"new", "pending", "running", "done"}]
  BY <1>0, <1>1
<1>4. TypeOK'
  BY <1>0, <1>2, <1>3 DEF TypeOK
<1>5. PendingQueued'
  <2> SUFFICES ASSUME NEW u \in Tasks, task'[u] = "pending"
               PROVE  \E i \in 1 .. Len(tasks') : tasks'[i] = u
    BY DEF PendingQueued
  <2>1. CASE u = t
    BY <1>1, <1>2, <2>1
  <2>2. CASE u # t
    <3>1. PICK i \in 1 .. Len(tasks) : tasks[i] = u
      BY <1>0, <1>1, <2>2 DEF QInv, PendingQueued
    <3> QED
      BY <1>1, <1>2, <3>1
  <2> QED
    BY <2>1, <2>2
<1>6. StackRuns'
  <2>1. \A u \in Tasks : task'[u] = "running" <=> task[u] = "running"
    BY <1>0, <1>1 DEF Spawn
  <2> QED
    BY <1>0, <2>1 DEF QInv, StackRuns
<1>7. EndsLast'
  BY <1>0 DEF QInv, EndsLast
<1>8. Unchanged(reads)'
  BY <1>0 DEF QInv, Unchanged
<1>9. DeadlockTriedAll'
  BY <1>0 DEF DeadlockTriedAll, Distinct
<1> QED
  BY <1>4, <1>5, <1>6, <1>7, <1>8, <1>9 DEF QInv


\* A task that has not started is put on the stack, by `@await` or from the queue.
LEMMA PushedOnStack ==
  ASSUME Distinct, QInv, NEW t \in Tasks, task[t] = "pending", run_task(t)
  PROVE  /\ task' \in [Tasks -> {"new", "pending", "running", "done"}]
         /\ stack' \in Seq(Activities) /\ stack' # <<>> /\ Len(stack') # 1
         /\ StackRuns'
<1> USE DEF QInv
<1>1. /\ stack \in Seq(Activities) /\ Len(stack) \in Nat /\ Len(stack) >= 1
      /\ t \in Activities
  BY TopFacts DEF TypeOK, Activities
<1>2. /\ stack' \in Seq(Activities)
      /\ Len(stack') = Len(stack) + 1
      /\ stack'[Len(stack) + 1] = t
      /\ \A i \in 1 .. Len(stack) : stack'[i] = stack[i]
  BY <1>1 DEF run_task
<1>3. task' = [task EXCEPT ![t] = "running"] /\ task \in [Tasks -> {"new", "pending", "running", "done"}]
  BY DEF run_task, TypeOK
<1>4. \A i \in 1 .. Len(stack) : stack[i] # t
  BY DEF StackRuns
<1>5. \A i, j \in 1 .. Len(stack') : stack'[i] = stack'[j] => i = j
  BY <1>1, <1>2, <1>4 DEF StackRuns
<1>6. ASSUME NEW u \in Tasks
      PROVE  task'[u] = "running" <=> \E i \in 1 .. Len(stack') : stack'[i] = u
  <2>1. CASE u = t
    BY <1>1, <1>2, <1>3, <2>1
  <2>2. CASE u # t
    BY <1>1, <1>2, <1>3, <2>2 DEF StackRuns
  <2> QED
    BY <2>1, <2>2
<1>7. stack'[1] = Main
  BY <1>1, <1>2 DEF StackRuns
<1>8. stack' # <<>> /\ Len(stack') # 1
  BY <1>1, <1>2
<1> QED
  BY <1>2, <1>3, <1>5, <1>6, <1>7, <1>8 DEF StackRuns

LEMMA AwaitQ ==
  ASSUME Distinct, QInv, NEW a \in Activities, NEW t \in Tasks, Await(a, t)
  PROVE  QInv'
<1> USE DEF QInv
<1>0. pc[Main] # "exited" /\ fault = None
  BY NotExited DEF Await, At
<1>1. UNCHANGED <<tasks, pc, from, got, chan, version, reads, writes, watch>>
  BY DEF Await, stm
<1>2. CASE task[t] = "pending" /\ run_task(t) /\ UNCHANGED fault
  <2>1. /\ task' \in [Tasks -> {"new", "pending", "running", "done"}]
        /\ stack' \in Seq(Activities) /\ stack' # <<>>
        /\ StackRuns'
    BY <1>2, PushedOnStack
  <2>2. TypeOK'
    BY <1>1, <1>2, <2>1 DEF TypeOK
  <2>3. PendingQueued'
    BY <1>1, <1>2 DEF run_task, PendingQueued, TypeOK
  <2>4. EndsLast'
    BY <1>0, <1>1 DEF EndsLast
  <2>5. Unchanged(reads)'
    BY <1>1 DEF Unchanged
  <2>6. DeadlockTriedAll'
    BY <1>0, <1>2 DEF DeadlockTriedAll, Distinct
  <2> QED
    BY <2>1, <2>2, <2>3, <2>4, <2>5, <2>6
<1>3. CASE task[t] = "running" /\ fault' = "awaits itself" /\ UNCHANGED <<task, stack>>
  <2>1. TypeOK'
    BY <1>1, <1>3 DEF TypeOK
  <2>2. PendingQueued' /\ StackRuns' /\ EndsLast'
    BY <1>1, <1>3 DEF PendingQueued, StackRuns, EndsLast
  <2>3. Unchanged(reads)' /\ DeadlockTriedAll'
    BY <1>1, <1>3 DEF Unchanged, DeadlockTriedAll
  <2> QED
    BY <2>1, <2>2, <2>3
<1> QED
  BY <1>2, <1>3 DEF Await

LEMMA ReturnQ ==
  ASSUME Distinct, QInv, NEW a \in Activities, Return(a)
  PROVE  QInv'
<1> USE DEF QInv
<1> DEFINE n == Len(stack)
<1>0. /\ pc[Main] # "exited" /\ fault = None /\ a \in Tasks /\ a = stack[n]
      /\ UNCHANGED <<tasks, pc, from, got, chan, version, reads, writes, watch, fault>>
  BY NotExited DEF Return, At, Activities, Top, stm
<1>1. n \in Nat /\ n >= 1 /\ stack \in Seq(Activities) /\ stack # <<>>
  BY TopFacts DEF TypeOK
<1>2. n > 1
  <2>1. stack[1] = Main
    BY DEF StackRuns
  <2>2. stack[n] # Main
    BY <1>0 DEF Distinct
  <2> HIDE DEF QInv, n
  <2> QED
    BY <1>1, <2>1, <2>2
<1>3. /\ stack' \in Seq(Activities) /\ Len(stack') = n - 1
      /\ \A i \in 1 .. n - 1 : stack'[i] = stack[i]
  BY <1>1, AllButLast DEF Return
<1>4. task' = [task EXCEPT ![a] = "done"] /\ task \in [Tasks -> {"new", "pending", "running", "done"}]
  BY DEF Return, TypeOK
<1>5. stack' # <<>>
  BY <1>2, <1>3
<1>6. TypeOK'
  BY <1>0, <1>3, <1>4, <1>5 DEF TypeOK
<1>7. StackRuns'
  <2>1. stack'[1] = Main
    BY <1>2, <1>3 DEF StackRuns
  <2>2. \A i, j \in 1 .. Len(stack') : stack'[i] = stack'[j] => i = j
    BY <1>1, <1>3 DEF StackRuns
  <2>3. ASSUME NEW u \in Tasks
        PROVE  task'[u] = "running" <=> \E i \in 1 .. Len(stack') : stack'[i] = u
    <3>1. CASE u = a
      BY <1>0, <1>1, <1>3, <1>4, <3>1 DEF StackRuns
    <3>2. CASE u # a
      <4>1. task'[u] = task[u]
        BY <1>4, <3>2
      <4>2. (\E i \in 1 .. n : stack[i] = u) <=> \E i \in 1 .. n - 1 : stack'[i] = u
        BY <1>0, <1>1, <1>3, <3>2
      <4> QED
        BY <1>3, <4>1, <4>2 DEF StackRuns
    <3> QED
      BY <3>1, <3>2
  <2> QED
    BY <2>1, <2>2, <2>3 DEF StackRuns
<1>8. PendingQueued'
  BY <1>0, <1>4 DEF PendingQueued
<1>9. EndsLast'
  BY <1>0 DEF EndsLast
<1>10. Unchanged(reads)'
  BY <1>0 DEF Unchanged
<1>11. DeadlockTriedAll'
  BY <1>0 DEF DeadlockTriedAll, Distinct
<1> QED
  BY <1>6, <1>7, <1>8, <1>9, <1>10, <1>11

LEMMA ChanSendQ ==
  ASSUME Distinct, QInv, NEW a \in Activities, NEW c \in Chans, NEW m \in Msgs, ChanSend(a, c, m)
  PROVE  QInv'
<1>0. /\ TypeOK /\ fault = None /\ pc[Main] # "exited"
      /\ UNCHANGED <<task, tasks, stack, pc, from, got, version, reads, writes, watch, fault>>
  BY NotExited DEF QInv, ChanSend, At, stm, queues
<1>1. chan' \in [Chans -> Seq(Msgs)]
  BY <1>0 DEF TypeOK, ChanSend
<1>2. TypeOK'
  BY <1>0, <1>1 DEF TypeOK
<1>3. \A t \in Tasks : pc'[t] \notin {"finish", "exited"}
  BY <1>0 DEF QInv, EndsLast
<1>4. Unchanged(reads)'
  BY <1>0 DEF QInv, Unchanged
<1> QED
  BY <1>0, <1>2, <1>3, <1>4, QuietSteps

LEMMA ChanRecvQ ==
  ASSUME Distinct, QInv, NEW a \in Activities, NEW c \in Chans, ChanRecv(a, c)
  PROVE  QInv'
<1>0. /\ TypeOK /\ fault = None /\ pc[Main] # "exited"
      /\ UNCHANGED <<task, tasks, stack, got, chan, version, reads, writes, watch, fault>>
  BY NotExited DEF QInv, ChanRecv, At, stm, queues
<1>1. from' \in [Activities -> Chans \cup {None}]
  BY <1>0 DEF TypeOK, ChanRecv
<1>2. pc' \in [Activities -> {"body", "recv", "begin", "tx", "wait", "finish", "exited"}]
  BY <1>0 DEF TypeOK, Goto, ChanRecv
<1>3. \A b \in Activities : pc'[b] = "recv" => from'[b] \in Chans
  BY <1>0 DEF TypeOK, Goto, ChanRecv
<1>4. TypeOK'
  BY <1>0, <1>1, <1>2, <1>3 DEF TypeOK
<1>5. pc'[Main] # "exited" /\ \A t \in Tasks : pc'[t] \notin {"finish", "exited"}
  BY <1>0 DEF QInv, TypeOK, EndsLast, Goto, Activities, Distinct, ChanRecv
<1>6. Unchanged(reads)'
  BY <1>0 DEF QInv, Unchanged
<1> QED
  BY <1>0, <1>4, <1>5, <1>6, QuietSteps

LEMMA RecvTakeQ ==
  ASSUME Distinct, QInv, NEW a \in Activities, RecvTake(a)
  PROVE  QInv'
<1>0. /\ TypeOK /\ fault = None /\ pc[Main] # "exited"
      /\ UNCHANGED <<task, tasks, stack, version, reads, writes, watch, fault>>
  BY NotExited DEF QInv, RecvTake, At, stm, queues
<1>1. from[a] \in Chans /\ chan[from[a]] \in Seq(Msgs) /\ chan[from[a]] # <<>>
  BY <1>0 DEF TypeOK, At, RecvTake
<1>2. Head(chan[from[a]]) \in Msgs /\ Tail(chan[from[a]]) \in Seq(Msgs)
  BY <1>1
<1>3. got' \in Msgs \cup {None} /\ chan' \in [Chans -> Seq(Msgs)]
  BY <1>0, <1>1, <1>2 DEF TypeOK, RecvTake
<1>4. from' \in [Activities -> Chans \cup {None}]
  BY <1>0 DEF TypeOK, RecvTake
<1>5. pc' \in [Activities -> {"body", "recv", "begin", "tx", "wait", "finish", "exited"}]
  BY <1>0 DEF TypeOK, Goto, RecvTake
<1>6. \A b \in Activities : pc'[b] = "recv" => from'[b] \in Chans
  BY <1>0 DEF TypeOK, Goto, RecvTake
<1>7. TypeOK'
  BY <1>0, <1>1, <1>2, <1>3, <1>4, <1>5, <1>6 DEF TypeOK
<1>8. pc'[Main] # "exited" /\ \A t \in Tasks : pc'[t] \notin {"finish", "exited"}
  BY <1>0 DEF QInv, TypeOK, EndsLast, Goto, Activities, Distinct, RecvTake
<1>9. Unchanged(reads)'
  BY <1>0 DEF QInv, Unchanged
<1> QED
  BY <1>0, <1>7, <1>8, <1>9, QuietSteps

LEMMA StmBeginQ ==
  ASSUME Distinct, QInv, NEW a \in Activities, StmBegin(a)
  PROVE  QInv'
<1>0. /\ TypeOK /\ fault = None /\ pc[Main] # "exited"
      /\ UNCHANGED <<task, tasks, stack, from, got, chan, version, watch, fault>>
  BY NotExited DEF QInv, StmBegin, At, queues
<1>1. reads' \in Seq([tv : TVars, version : Nat]) /\ writes' \in Seq(TVars)
  BY DEF StmBegin
<1>2. pc' \in [Activities -> {"body", "recv", "begin", "tx", "wait", "finish", "exited"}]
  BY <1>0 DEF TypeOK, Goto, StmBegin
<1>3. \A b \in Activities : pc'[b] = "recv" => from'[b] \in Chans
  BY <1>0 DEF TypeOK, Goto, StmBegin
<1>4. TypeOK'
  BY <1>0, <1>1, <1>2, <1>3 DEF TypeOK
<1>5. pc'[Main] # "exited" /\ \A t \in Tasks : pc'[t] \notin {"finish", "exited"}
  BY <1>0 DEF QInv, TypeOK, EndsLast, Goto, Activities, Distinct, StmBegin
<1>6. Unchanged(reads)'
  BY DEF Unchanged, StmBegin
<1> QED
  BY <1>0, <1>4, <1>5, <1>6, QuietSteps


\* What is read is the version of now.
LEMMA StmReadQ ==
  ASSUME Distinct, QInv, NEW a \in Activities, NEW tv \in TVars, StmRead(a, tv)
  PROVE  QInv'
<1> DEFINE e == [tv |-> tv, version |-> version[tv]]
<1>0. /\ TypeOK /\ fault = None /\ pc[Main] # "exited"
      /\ UNCHANGED <<task, tasks, stack, pc, from, got, chan, version, writes, watch, fault>>
      /\ reads' = Append(reads, e)
  BY NotExited DEF QInv, StmRead, At, queues
<1>1. e \in [tv : TVars, version : Nat] /\ reads \in Seq([tv : TVars, version : Nat])
  BY <1>0 DEF TypeOK
<1>2. /\ reads' \in Seq([tv : TVars, version : Nat])
      /\ Len(reads') = Len(reads) + 1 /\ Len(reads) \in Nat
      /\ reads'[Len(reads) + 1] = e
      /\ \A j \in 1 .. Len(reads) : reads'[j] = reads[j]
  BY <1>0, <1>1
<1>3. TypeOK'
  BY <1>0, <1>2 DEF TypeOK
<1>4. Unchanged(reads)'
  <2> SUFFICES ASSUME NEW i \in 1 .. Len(reads')
               PROVE  version'[reads'[i].tv] = reads'[i].version
    BY DEF Unchanged
  <2>1. CASE i = Len(reads) + 1
    BY <1>0, <1>2, <2>1
  <2>2. CASE i \in 1 .. Len(reads)
    BY <1>0, <1>2, <2>2 DEF QInv, Unchanged
  <2> QED
    BY <1>2, <2>1, <2>2
<1>5. \A t \in Tasks : pc'[t] \notin {"finish", "exited"}
  BY <1>0 DEF QInv, EndsLast
<1> QED
  BY <1>0, <1>3, <1>4, <1>5, QuietSteps

LEMMA StmWriteQ ==
  ASSUME Distinct, QInv, NEW a \in Activities, NEW tv \in TVars, StmWrite(a, tv)
  PROVE  QInv'
<1>0. /\ TypeOK /\ fault = None /\ pc[Main] # "exited"
      /\ UNCHANGED <<task, tasks, stack, pc, from, got, chan, version, reads, watch, fault>>
  BY NotExited DEF QInv, StmWrite, At, queues
<1>1. writes' \in Seq(TVars)
  BY <1>0 DEF TypeOK, StmWrite
<1>2. TypeOK'
  BY <1>0, <1>1 DEF TypeOK
<1>3. \A t \in Tasks : pc'[t] \notin {"finish", "exited"}
  BY <1>0 DEF QInv, EndsLast
<1>4. Unchanged(reads)'
  BY <1>0 DEF QInv, Unchanged
<1> QED
  BY <1>0, <1>2, <1>3, <1>4, QuietSteps

LEMMA StmCommitQ ==
  ASSUME Distinct, QInv, NEW a \in Activities, StmCommit(a)
  PROVE  QInv'
<1>0. /\ TypeOK /\ fault = None /\ pc[Main] # "exited"
      /\ UNCHANGED <<task, tasks, stack, from, got, chan, watch, fault>>
  BY NotExited DEF QInv, StmCommit, At, queues
<1>1. version' \in [TVars -> Nat]
  BY <1>0 DEF TypeOK, StmCommit
<1>2. reads' \in Seq([tv : TVars, version : Nat]) /\ writes' \in Seq(TVars)
  BY DEF StmCommit
<1>3. pc' \in [Activities -> {"body", "recv", "begin", "tx", "wait", "finish", "exited"}]
  BY <1>0 DEF TypeOK, Goto, StmCommit
<1>4. \A b \in Activities : pc'[b] = "recv" => from'[b] \in Chans
  BY <1>0 DEF TypeOK, Goto, StmCommit
<1>5. TypeOK'
  BY <1>0, <1>1, <1>2, <1>3, <1>4 DEF TypeOK
<1>6. pc'[Main] # "exited" /\ \A t \in Tasks : pc'[t] \notin {"finish", "exited"}
  BY <1>0 DEF QInv, TypeOK, EndsLast, Goto, Activities, Distinct, StmCommit
<1>7. Unchanged(reads)'
  BY DEF Unchanged, StmCommit
<1> QED
  BY <1>0, <1>5, <1>6, <1>7, QuietSteps

LEMMA StmWaitQ ==
  ASSUME Distinct, QInv, NEW a \in Activities, StmWait(a)
  PROVE  QInv'
<1>0. /\ TypeOK /\ fault = None /\ pc[Main] # "exited"
      /\ UNCHANGED <<task, tasks, stack, from, got, chan, version, fault>>
  BY NotExited DEF QInv, StmWait, At, queues
<1>1. watch' \in [Activities -> Seq([tv : TVars, version : Nat])]
  BY <1>0 DEF TypeOK, StmWait
<1>2. reads' \in Seq([tv : TVars, version : Nat]) /\ writes' \in Seq(TVars)
  BY DEF StmWait
<1>3. pc' \in [Activities -> {"body", "recv", "begin", "tx", "wait", "finish", "exited"}]
  BY <1>0 DEF TypeOK, Goto, StmWait
<1>4. \A b \in Activities : pc'[b] = "recv" => from'[b] \in Chans
  BY <1>0 DEF TypeOK, Goto, StmWait
<1>5. TypeOK'
  BY <1>0, <1>1, <1>2, <1>3, <1>4 DEF TypeOK
<1>6. pc'[Main] # "exited" /\ \A t \in Tasks : pc'[t] \notin {"finish", "exited"}
  BY <1>0 DEF QInv, TypeOK, EndsLast, Goto, Activities, Distinct, StmWait
<1>7. Unchanged(reads)'
  BY DEF Unchanged, StmWait
<1> QED
  BY <1>0, <1>5, <1>6, <1>7, QuietSteps

LEMMA WaitOverQ ==
  ASSUME Distinct, QInv, NEW a \in Activities, WaitOver(a)
  PROVE  QInv'
<1>0. /\ TypeOK /\ fault = None /\ pc[Main] # "exited"
      /\ UNCHANGED <<task, tasks, stack, from, got, chan, version, reads, writes, fault>>
  BY NotExited DEF QInv, WaitOver, At, queues
<1>1. <<>> \in Seq([tv : TVars, version : Nat])
  OBVIOUS
<1>2. watch' \in [Activities -> Seq([tv : TVars, version : Nat])]
  BY <1>0, <1>1 DEF TypeOK, WaitOver
<1>3. pc' \in [Activities -> {"body", "recv", "begin", "tx", "wait", "finish", "exited"}]
  BY <1>0 DEF TypeOK, Goto, WaitOver
<1>4. \A b \in Activities : pc'[b] = "recv" => from'[b] \in Chans
  BY <1>0 DEF TypeOK, Goto, WaitOver
<1>5. TypeOK'
  BY <1>0, <1>1, <1>2, <1>3, <1>4 DEF TypeOK
<1>6. pc'[Main] # "exited" /\ \A t \in Tasks : pc'[t] \notin {"finish", "exited"}
  BY <1>0 DEF QInv, TypeOK, EndsLast, Goto, Activities, Distinct, WaitOver
<1>7. Unchanged(reads)'
  BY <1>0 DEF QInv, Unchanged
<1> QED
  BY <1>0, <1>5, <1>6, <1>7, QuietSteps

LEMMA MainReturnsQ ==
  ASSUME Distinct, QInv, MainReturns
  PROVE  QInv'
<1>0. /\ TypeOK /\ fault = None
      /\ UNCHANGED <<task, tasks, stack, from, got, chan, version, reads, writes, watch, fault>>
  BY DEF QInv, MainReturns, At, stm, queues
<1>1. pc' \in [Activities -> {"body", "recv", "begin", "tx", "wait", "finish", "exited"}]
  BY <1>0 DEF TypeOK, Goto, MainReturns
<1>2. \A b \in Activities : pc'[b] = "recv" => from'[b] \in Chans
  BY <1>0 DEF TypeOK, Goto, MainReturns
<1>3. TypeOK'
  BY <1>0, <1>1, <1>2 DEF TypeOK
<1>4. pc'[Main] # "exited" /\ \A t \in Tasks : pc'[t] \notin {"finish", "exited"}
  BY <1>0 DEF QInv, TypeOK, EndsLast, Goto, Activities, Distinct, MainReturns
<1>5. Unchanged(reads)'
  BY <1>0 DEF QInv, Unchanged
<1> QED
  BY <1>0, <1>3, <1>4, <1>5, QuietSteps

\* The entries before the first pending one, which are dropped with it, are of
\* tasks that are not pending.
LEMMA HelpQ ==
  ASSUME Distinct, QInv, NEW a \in Activities, Help(a)
  PROVE  QInv'
<1>0. /\ TypeOK /\ fault = None /\ pc[Main] # "exited"
      /\ UNCHANGED <<pc, from, got, chan, version, reads, writes, watch, fault>>
  BY NotExited DEF QInv, Help, Blocked, At, stm
<1>1. /\ task \in [Tasks -> {"new", "pending", "running", "done"}]
      /\ tasks \in Seq(Tasks) /\ Len(tasks) \in Nat
  BY <1>0 DEF TypeOK
<1>2. PICK i \in 1 .. Len(tasks) :
        /\ FirstPending(i)
        /\ tasks' = SubSeq(tasks, i + 1, Len(tasks))
        /\ run_task(tasks[i])
  BY DEF Help, run_next_task
<1>3. tasks[i] \in Tasks /\ task[tasks[i]] = "pending"
      /\ \A j \in 1 .. i - 1 : task[tasks[j]] # "pending"
  BY <1>1, <1>2 DEF FirstPending
<1>4. /\ task' \in [Tasks -> {"new", "pending", "running", "done"}]
      /\ stack' \in Seq(Activities) /\ stack' # <<>> /\ StackRuns'
  BY <1>2, <1>3, PushedOnStack
<1>5. i \in 0 .. Len(tasks) /\ i \in Nat
  BY <1>1
<1>6. /\ tasks' \in Seq(Tasks) /\ Len(tasks') = Len(tasks) - i
      /\ \A j \in 1 .. Len(tasks) - i : tasks'[j] = tasks[i + j]
  BY <1>1, <1>2, <1>5, Dropped
<1>7. TypeOK'
  BY <1>0, <1>4, <1>6 DEF TypeOK
<1>8. PendingQueued'
  <2> SUFFICES ASSUME NEW u \in Tasks, task'[u] = "pending"
               PROVE  \E k \in 1 .. Len(tasks') : tasks'[k] = u
    BY DEF PendingQueued
  <2>1. task[u] = "pending" /\ u # tasks[i]
    BY <1>1, <1>2, <1>3 DEF run_task
  <2>2. PICK j \in 1 .. Len(tasks) : tasks[j] = u
    BY <2>1 DEF QInv, PendingQueued
  <2>3. j > i /\ j - i \in 1 .. Len(tasks) - i /\ i + (j - i) = j
    BY <1>1, <1>3, <1>5, <2>1, <2>2
  <2> QED
    BY <1>6, <2>2, <2>3
<1>9. EndsLast'
  BY <1>0 DEF QInv, EndsLast
<1>10. Unchanged(reads)'
  BY <1>0 DEF QInv, Unchanged
<1>11. DeadlockTriedAll'
  BY <1>0 DEF DeadlockTriedAll, Distinct
<1> QED
  BY <1>4, <1>7, <1>8, <1>9, <1>10, <1>11 DEF QInv

\* Nothing in the queue is pending, so nothing is: every task that was spawned
\* and has not ended is on the stack.
LEMMA GiveUpQ ==
  ASSUME Distinct, QInv, NEW a \in Activities, GiveUp(a)
  PROVE  QInv'
<1>0. /\ TypeOK /\ fault = None /\ a = Top /\ Blocked(a)
      /\ UNCHANGED <<task, stack, from, got, chan, version, reads, writes, watch>>
      /\ tasks' = <<>>
  BY DEF QInv, GiveUp, NoTaskLeft, Blocked, At, stm
<1>1. /\ task \in [Tasks -> {"new", "pending", "running", "done"}]
      /\ stack \in Seq(Activities) /\ Len(stack) \in Nat /\ Len(stack) >= 1
  BY <1>0, TopFacts DEF TypeOK
<1>2. \A t \in Tasks : task[t] # "pending"
  <2>1. \A i \in 1 .. Len(tasks) : task[tasks[i]] # "pending"
    BY DEF GiveUp, NoTaskLeft
  <2> QED
    BY <2>1 DEF QInv, PendingQueued
<1>3. PendingQueued'
  BY <1>0, <1>2 DEF PendingQueued
<1>4. StackRuns'
  BY <1>0 DEF QInv, StackRuns
<1>5. Unchanged(reads)'
  BY <1>0 DEF QInv, Unchanged
<1>8. tasks' \in Seq(Tasks)
  BY <1>0
<1>6. CASE pc[a] = "finish" /\ Goto(a, "exited") /\ UNCHANGED fault
  <2>1. a = Main
    BY <1>6 DEF QInv, EndsLast, Activities
  <2>2. \A t \in Tasks : pc'[t] \notin {"finish", "exited"}
    BY <1>0, <1>6, <2>1 DEF QInv, EndsLast, TypeOK, Goto, Distinct, Activities
  <2>3. Len(stack) = 1 /\ stack[1] = Main
    <3>1. stack[1] = Main /\ \A i, j \in 1 .. Len(stack) : stack[i] = stack[j] => i = j
      BY DEF QInv, StackRuns
    <3>2. stack[Len(stack)] = Main
      BY <1>0, <2>1 DEF Top
    <3>3. 1 \in 1 .. Len(stack) /\ Len(stack) \in 1 .. Len(stack)
      BY <1>1
    <3> QED
      BY <3>1, <3>2, <3>3
  <2>4. \A t \in Tasks : task[t] # "running"
    <3>1. \A t \in Tasks : task[t] = "running" <=> \E i \in 1 .. Len(stack) : stack[i] = t
      BY DEF QInv, StackRuns
    <3>2. ASSUME NEW t \in Tasks, NEW i \in 1 .. Len(stack)
          PROVE  stack[i] # t
      <4>1. i = 1
        BY <2>3
      <4> QED
        BY <2>3, <4>1 DEF Distinct
    <3> QED
      BY <3>1, <3>2
  <2>5. \A t \in Tasks : task[t] \in {"new", "done"}
    BY <1>1, <1>2, <2>4
  <2>6. EndsLast'
    BY <1>0, <2>2, <2>3, <2>5 DEF EndsLast
  <2>7. pc' \in [Activities -> {"body", "recv", "begin", "tx", "wait", "finish", "exited"}]
        /\ \A b \in Activities : pc'[b] = "recv" => from'[b] \in Chans
    BY <1>0, <1>6 DEF TypeOK, Goto
  <2>8. TypeOK'
    BY <1>0, <1>6, <1>8, <2>7 DEF TypeOK
  <2>9. DeadlockTriedAll'
    BY <1>0, <1>6 DEF DeadlockTriedAll, Distinct
  <2> QED
    BY <1>3, <1>4, <1>5, <2>6, <2>8, <2>9 DEF QInv
<1>7. CASE pc[a] # "finish" /\ fault' = "deadlock" /\ UNCHANGED pc
  <2>1. TypeOK'
    BY <1>0, <1>7, <1>8 DEF TypeOK
  <2>2. pc[Main] # "exited"
    BY <1>0, NotExited DEF Blocked, At
  <2>3. EndsLast'
    BY <1>7, <2>2 DEF QInv, EndsLast
  <2>4. {t \in Tasks : task[t] \notin {"new", "done"}} = {stack[i] : i \in 1 .. Len(stack)} \ {Main}
    <3>1. \A i \in 1 .. Len(stack) : stack[i] \in Tasks \cup {Main}
      BY <1>1 DEF Activities
    <3>2. \A t \in Tasks : task[t] \notin {"new", "done"} <=> task[t] = "running"
      BY <1>1, <1>2
    <3>3. \A t \in Tasks : task[t] = "running" <=> \E i \in 1 .. Len(stack) : stack[i] = t
      BY DEF QInv, StackRuns
    <3>4. ASSUME NEW t \in Tasks, task[t] \notin {"new", "done"}
          PROVE  t \in {stack[i] : i \in 1 .. Len(stack)} \ {Main}
      BY <3>2, <3>3, <3>4 DEF Distinct
    <3>5. ASSUME NEW t \in {stack[i] : i \in 1 .. Len(stack)} \ {Main}
          PROVE  t \in Tasks /\ task[t] \notin {"new", "done"}
      <4>1. t \in Tasks /\ \E i \in 1 .. Len(stack) : stack[i] = t
        BY <3>1
      <4> QED
        BY <3>2, <3>3, <4>1
    <3> QED
      BY <3>4, <3>5
  <2>5. \A i, j \in 1 .. Len(stack) : stack[i] = stack[j] => i = j
    BY DEF QInv, StackRuns
  <2>6. \/ pc[Top] = "recv" /\ chan[from[Top]] = <<>>
        \/ pc[Top] = "wait" /\ Unchanged(watch[Top])
    BY <1>0, <1>7 DEF Blocked, At
  <2>7. DeadlockTriedAll
    BY <2>4, <2>5, <2>6 DEF DeadlockTriedAll
  <2>8. DeadlockTriedAll'
    BY <1>0, <1>7, <2>4, <2>5, <2>6 DEF DeadlockTriedAll, Top, Unchanged
  <2> QED
    BY <1>3, <1>4, <1>5, <2>1, <2>3, <2>8 DEF QInv
<1> QED
  BY <1>6, <1>7 DEF GiveUp

LEMMA NextQ == ASSUME Distinct, QInv, [Next]_vars PROVE QInv'
<1>1. CASE UNCHANGED vars
  <2>1. PendingQueued' /\ StackRuns' /\ EndsLast'
    BY <1>1 DEF QInv, PendingQueued, StackRuns, EndsLast, vars
  <2>2. TypeOK' /\ Unchanged(reads)'
    BY <1>1 DEF QInv, TypeOK, Unchanged, vars
  <2>3. DeadlockTriedAll'
    BY <1>1 DEF QInv, DeadlockTriedAll, Top, Unchanged, vars
  <2> QED
    BY <2>1, <2>2, <2>3 DEF QInv
<1>2. CASE MainReturns
  BY <1>2, MainReturnsQ
<1>3. ASSUME NEW a \in Activities, Step(a)
      PROVE  QInv'
  <2>1. ASSUME NEW t \in Tasks, Spawn(a, t) \/ Await(a, t)
        PROVE  QInv'
    BY <2>1, SpawnQ, AwaitQ
  <2>2. ASSUME NEW c \in Chans, ChanRecv(a, c) \/ \E m \in Msgs : ChanSend(a, c, m)
        PROVE  QInv'
    BY <2>2, ChanRecvQ, ChanSendQ
  <2>3. ASSUME NEW tv \in TVars, StmRead(a, tv) \/ StmWrite(a, tv)
        PROVE  QInv'
    BY <2>3, StmReadQ, StmWriteQ
  <2>4. CASE StmBegin(a) \/ StmCommit(a) \/ StmWait(a) \/ WaitOver(a)
    BY <2>4, StmBeginQ, StmCommitQ, StmWaitQ, WaitOverQ
  <2>5. CASE Return(a) \/ RecvTake(a) \/ Help(a) \/ GiveUp(a)
    BY <2>5, ReturnQ, RecvTakeQ, HelpQ, GiveUpQ
  <2> QED
    BY <1>3, <2>1, <2>2, <2>3, <2>4, <2>5 DEF Step
<1> QED
  BY <1>1, <1>2, <1>3 DEF Next

-----------------------------------------------------------------------------
THEOREM QueueInvariant == ASSUME Distinct PROVE Spec => []QInv
<1>1. Init => QInv
  BY InitQ
<1>2. QInv /\ [Next]_vars => QInv'
  BY NextQ
<1> QED
  BY <1>1, <1>2, PTL DEF Spec

\* The state keeps its shape.
THEOREM QueueTypeCorrect == ASSUME Distinct PROVE Spec => []TypeOK
<1>1. QInv => TypeOK
  BY DEF QInv
<1> QED
  BY <1>1, QueueInvariant, PTL

\* PAR.thx: "A program exits only after every `spawn` task has finished."  A
\* deadlock is reported only when every task was run that could be.
THEOREM QueueEndsAfterTasks == ASSUME Distinct PROVE Spec => []EndsAfterTasks
<1>1. QInv => EndsAfterTasks
  BY DEF QInv, EndsLast, ExitsAfterTasks, EndsAfterTasks
<1> QED
  BY <1>1, QueueInvariant, PTL

\* STM.thx: "a transaction there never conflicts."  At a commit the log is
\* current, so it does not fail; no other step takes a transaction to its start.
LEMMA NoConflictStep ==
  ASSUME QInv, [Next]_vars
  PROVE  [\A a \in Activities : ~(pc[a] = "tx" /\ pc'[a] = "begin")]_vars
<1> SUFFICES ASSUME NEW a \in Activities, pc[a] = "tx", pc'[a] = "begin"
             PROVE  FALSE
  OBVIOUS
<1>1. pc \in [Activities -> {"body", "recv", "begin", "tx", "wait", "finish", "exited"}] /\ pc' # pc
  BY DEF QInv, TypeOK
<1>2. Next
  BY <1>1 DEF vars
<1>3. \A b \in Activities, l \in {"body", "recv", "tx", "wait", "finish", "exited"} : ~Goto(b, l)
  BY <1>1 DEF Goto
<1>4. \A b \in Activities : ~StmCommit(b)
  BY <1>3 DEF QInv, StmCommit
<1>5. \A b \in Activities : ~WaitOver(b)
  BY <1>1 DEF WaitOver, At, Goto
<1>6. ~MainReturns
  BY <1>3 DEF MainReturns, Activities
<1>7. PICK b \in Activities : Step(b)
  BY <1>2, <1>6 DEF Next
<1>8. ASSUME NEW t \in Tasks PROVE ~Spawn(b, t) /\ ~Await(b, t)
  BY <1>1 DEF Spawn, Await
<1>9. ASSUME NEW c \in Chans PROVE ~ChanRecv(b, c) /\ \A m \in Msgs : ~ChanSend(b, c, m)
  BY <1>1, <1>3 DEF ChanRecv, ChanSend
<1>10. ASSUME NEW tv \in TVars PROVE ~StmRead(b, tv) /\ ~StmWrite(b, tv)
  BY <1>1 DEF StmRead, StmWrite
<1>11. ~RecvTake(b) /\ ~StmBegin(b) /\ ~StmWait(b)
  BY <1>3 DEF RecvTake, StmBegin, StmWait
<1>12. ~Return(b) /\ ~Help(b)
  BY <1>1 DEF Return, Help
<1>13. ~GiveUp(b)
  BY <1>1, <1>3 DEF GiveUp
<1> QED
  BY <1>4, <1>5, <1>7, <1>8, <1>9, <1>10, <1>11, <1>12, <1>13 DEF Step

THEOREM QueueNeverConflicts == ASSUME Distinct PROVE Spec => NeverConflicts
<1>1. QInv /\ [Next]_vars => [\A a \in Activities : ~(pc[a] = "tx" /\ pc'[a] = "begin")]_vars
  BY NoConflictStep
<1> QED
  BY <1>1, QueueInvariant, PTL DEF Spec, NeverConflicts

=============================================================================
