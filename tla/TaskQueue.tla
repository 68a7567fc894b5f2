----------------------------- MODULE TaskQueue -----------------------------
(***************************************************************************)
(* Tasks on one thread: the reference interpreter's `@spawn`, `@await`,    *)
(* channels and transactions (crates/interpreter/src/machine.rs 324-485).  *)
(*                                                                         *)
(* A spawned task waits in a queue until something needs it: an `@await`,  *)
(* a receive or a retry that cannot go on, or the end of the program.  It  *)
(* then runs to its end on top of whatever needed it, so the activities    *)
(* form a stack of which only the last runs.  What the program does is     *)
(* free.  A task of `@par` is an ordinary call here and no activity.       *)
(***************************************************************************)
EXTENDS Naturals, Sequences

CONSTANTS
  Tasks,      \* the tasks of `@spawn`
  Main,       \* the program itself
  Chans,      \* the channels
  Msgs,       \* what is sent
  TVars,      \* the transactional variables
  None,       \* no message, no channel, no fault
  MaxLen,     \* bound: messages in a channel
  MaxOps,     \* bound: operations logged in one run of a transaction
  MaxVersion  \* bound: commits to a variable

VARIABLES
  task,     \* Task: "new" before its `@spawn`, then as in the enum Task
  tasks,    \* Machine.tasks: the tasks in the order spawned
  stack,    \* the activities suspended on each other, the running one last
  pc,       \* what each activity is doing
  from,     \* the channel a receiver receives from
  got,      \* the message received last
  chan,     \* the messages in each channel
  version,  \* TVar.version
  reads,    \* StmLog.reads: variables and the versions seen
  writes,   \* StmLog.writes: the variables written
  watch,    \* the reads a retrying transaction took out of the log
  fault     \* how the program failed

vars == <<task, tasks, stack, pc, from, got, chan, version, reads, writes, watch, fault>>
queues == <<task, tasks, stack>>
stm == <<version, reads, writes, watch>>

Activities == Tasks \cup {Main}

Init ==
  /\ task = [t \in Tasks |-> "new"]
  /\ tasks = <<>>
  /\ stack = <<Main>>
  /\ pc = [a \in Activities |-> "body"]
  /\ from = [a \in Activities |-> None]
  /\ got = None
  /\ chan = [c \in Chans |-> <<>>]
  /\ version = [tv \in TVars |-> 0]
  /\ reads = <<>>
  /\ writes = <<>>
  /\ watch = [a \in Activities |-> <<>>]
  /\ fault = None

Top == stack[Len(stack)]
At(a, label) == fault = None /\ a = Top /\ pc[a] = label
Goto(a, label) == pc' = [pc EXCEPT ![a] = label]

-----------------------------------------------------------------------------
(* Running tasks. *)

\* run_task, of a task nobody has started.
run_task(t) ==
  /\ task' = [task EXCEPT ![t] = "running"]
  /\ stack' = Append(stack, t)

\* run_next_task: drop the entries of tasks somebody started, run the first other.
FirstPending(i) ==
  /\ task[tasks[i]] = "pending"
  /\ \A j \in 1 .. i - 1 : task[tasks[j]] # "pending"

run_next_task ==
  \E i \in 1 .. Len(tasks) :
    /\ FirstPending(i)
    /\ tasks' = SubSeq(tasks, i + 1, Len(tasks))
    /\ run_task(tasks[i])

\* run_next_task when there is none: every entry is dropped.
NoTaskLeft ==
  /\ \A i \in 1 .. Len(tasks) : task[tasks[i]] # "pending"
  /\ tasks' = <<>>
  /\ UNCHANGED <<task, stack>>

Spawn(a, t) ==
  /\ At(a, "body")
  /\ task[t] = "new"
  /\ task' = [task EXCEPT ![t] = "pending"]
  /\ tasks' = Append(tasks, t)
  /\ UNCHANGED <<stack, pc, from, got, chan, stm, fault>>

\* `@await` is pure, so a transaction may await too.  A finished task's result
\* is handed back at once.
Await(a, t) ==
  /\ At(a, "body") \/ At(a, "tx")
  /\ \/ task[t] = "pending" /\ run_task(t) /\ UNCHANGED fault
     \/ task[t] = "running" /\ fault' = "awaits itself" /\ UNCHANGED <<task, stack>>
  /\ UNCHANGED <<tasks, pc, from, got, chan, stm>>

\* A task's function returned: the activity below goes on where it was.
Return(a) ==
  /\ At(a, "body")
  /\ a # Main
  /\ task' = [task EXCEPT ![a] = "done"]
  /\ stack' = SubSeq(stack, 1, Len(stack) - 1)
  /\ UNCHANGED <<tasks, pc, from, got, chan, stm, fault>>

-----------------------------------------------------------------------------
(* Channels. *)
ChanSend(a, c, m) ==
  /\ At(a, "body")
  /\ Len(chan[c]) < MaxLen
  /\ chan' = [chan EXCEPT ![c] = Append(@, m)]
  /\ UNCHANGED <<queues, pc, from, got, stm, fault>>

ChanRecv(a, c) ==
  /\ At(a, "body")
  /\ Goto(a, "recv")
  /\ from' = [from EXCEPT ![a] = c]
  /\ UNCHANGED <<queues, got, chan, stm, fault>>

RecvTake(a) ==
  /\ At(a, "recv")
  /\ chan[from[a]] # <<>>
  /\ got' = Head(chan[from[a]])
  /\ chan' = [chan EXCEPT ![from[a]] = Tail(@)]
  /\ from' = [from EXCEPT ![a] = None]
  /\ Goto(a, "body")
  /\ UNCHANGED <<queues, stm, fault>>

-----------------------------------------------------------------------------
(* Transactions, as `atomically` of library/STM.thx drives them.  The marks *)
(* of `or_else` only shorten the list of writes; Stm models them.           *)
Written == {writes[i] : i \in 1 .. Len(writes)}

\* `atomically`: the first run, or another after a conflict or a retry.
StmBegin(a) ==
  /\ At(a, "body") \/ At(a, "begin")
  /\ reads' = <<>>
  /\ writes' = <<>>
  /\ Goto(a, "tx")
  /\ UNCHANGED <<queues, from, got, chan, version, watch, fault>>

StmRead(a, tv) ==
  /\ At(a, "tx")
  /\ Len(reads) + Len(writes) < MaxOps
  /\ tv \notin Written
  /\ reads' = Append(reads, [tv |-> tv, version |-> version[tv]])
  /\ UNCHANGED <<queues, pc, from, got, chan, version, writes, watch, fault>>

StmWrite(a, tv) ==
  /\ At(a, "tx")
  /\ Len(reads) + Len(writes) < MaxOps
  /\ version[tv] < MaxVersion
  /\ writes' = Append(writes, tv)
  /\ UNCHANGED <<queues, pc, from, got, chan, version, reads, watch, fault>>

Unchanged(rs) == \A i \in 1 .. Len(rs) : version[rs[i].tv] = rs[i].version

\* The written variables get new versions: several writes are told from one
\* only by a larger number, which nobody compares.
StmCommit(a) ==
  /\ At(a, "tx")
  /\ version' = [tv \in TVars |-> IF Unchanged(reads) /\ tv \in Written THEN version[tv] + 1 ELSE version[tv]]
  /\ Goto(a, IF Unchanged(reads) THEN "body" ELSE "begin")
  /\ reads' = <<>>
  /\ writes' = <<>>
  /\ UNCHANGED <<queues, from, got, chan, watch, fault>>

StmWait(a) ==
  /\ At(a, "tx")
  /\ watch' = [watch EXCEPT ![a] = reads]
  /\ reads' = <<>>
  /\ writes' = <<>>
  /\ Goto(a, "wait")
  /\ UNCHANGED <<queues, from, got, chan, version, fault>>

WaitOver(a) ==
  /\ At(a, "wait")
  /\ ~Unchanged(watch[a])
  /\ watch' = [watch EXCEPT ![a] = <<>>]
  /\ Goto(a, "begin")
  /\ UNCHANGED <<queues, from, got, chan, version, reads, writes, fault>>

-----------------------------------------------------------------------------
(* An activity that cannot go on runs the tasks that wait to start. *)
MainReturns ==
  /\ At(Main, "body")
  /\ Goto(Main, "finish")
  /\ UNCHANGED <<queues, from, got, chan, stm, fault>>

Blocked(a) ==
  \/ At(a, "recv") /\ chan[from[a]] = <<>>
  \/ At(a, "wait") /\ Unchanged(watch[a])
  \/ At(a, "finish")

Help(a) ==
  /\ Blocked(a)
  /\ run_next_task
  /\ UNCHANGED <<pc, from, got, chan, stm, fault>>

\* finish_tasks is done, or nobody is left to end the wait.
GiveUp(a) ==
  /\ Blocked(a)
  /\ NoTaskLeft
  /\ \/ pc[a] = "finish" /\ Goto(a, "exited") /\ UNCHANGED fault
     \/ pc[a] # "finish" /\ fault' = "deadlock" /\ UNCHANGED pc
  /\ UNCHANGED <<from, got, chan, stm>>

Step(a) ==
  \/ \E t \in Tasks : Spawn(a, t) \/ Await(a, t)
  \/ Return(a)
  \/ \E c \in Chans : ChanRecv(a, c) \/ \E m \in Msgs : ChanSend(a, c, m)
  \/ RecvTake(a)
  \/ StmBegin(a)
  \/ \E tv \in TVars : StmRead(a, tv) \/ StmWrite(a, tv)
  \/ StmCommit(a) \/ StmWait(a) \/ WaitOver(a)
  \/ Help(a)
  \/ GiveUp(a)

Next == MainReturns \/ \E a \in Activities : Step(a)

Spec == Init /\ [][Next]_vars

-----------------------------------------------------------------------------
\* The shape of the state.
TypeOK ==
  /\ task \in [Tasks -> {"new", "pending", "running", "done"}]
  /\ tasks \in Seq(Tasks)
  /\ stack \in Seq(Activities) /\ stack # <<>>
  /\ pc \in [Activities -> {"body", "recv", "begin", "tx", "wait", "finish", "exited"}]
  /\ from \in [Activities -> Chans \cup {None}]
  /\ \A a \in Activities : pc[a] = "recv" => from[a] \in Chans
  /\ got \in Msgs \cup {None}
  /\ chan \in [Chans -> Seq(Msgs)]
  /\ version \in [TVars -> Nat]
  /\ reads \in Seq([tv : TVars, version : Nat])
  /\ writes \in Seq(TVars)
  /\ watch \in [Activities -> Seq([tv : TVars, version : Nat])]
  /\ fault \in {None, "deadlock", "awaits itself"}

\* PAR.thx: "A program exits only after every `spawn` task has finished."
\* Whoever started a task, in whatever order, none is dropped from the queue.
ExitsAfterTasks ==
  pc[Main] = "exited" => \A t \in Tasks : task[t] \in {"new", "done"}

\* "receiving from a channel that no task will send to": when a deadlock is
\* reported, every task that was spawned and has not ended is among those
\* suspended on each other, none of which was called twice, and what the last of
\* them waits for has not happened.
DeadlockTriedAll ==
  fault = "deadlock" =>
    /\ {t \in Tasks : task[t] \notin {"new", "done"}} = {stack[i] : i \in 1 .. Len(stack)} \ {Main}
    /\ \A i, j \in 1 .. Len(stack) : stack[i] = stack[j] => i = j
    /\ \/ pc[Top] = "recv" /\ chan[from[Top]] = <<>>
       \/ pc[Top] = "wait" /\ Unchanged(watch[Top])

\* A program ends, by itself or by a deadlock, only when no task it spawned waits
\* to be run.
EndsAfterTasks == ExitsAfterTasks /\ DeadlockTriedAll

\* STM.thx: "a transaction there never conflicts": however tasks are nested and
\* whatever they commit meanwhile, no commit fails.
NeverConflicts == [][\A a \in Activities : ~(pc[a] = "tx" /\ pc'[a] = "begin")]_vars

=============================================================================
