------------------------------ MODULE TaskRing ------------------------------
(***************************************************************************)
(* Tasks in a native program built without threads: the queue g_tasks, the *)
(* channels and the transactions of crates/ccg/src/runtime.c (3880-3967,   *)
(* 3976-4082, 4084-4276, the branches without THRAX_THREADS).              *)
(*                                                                         *)
(* The queue and every channel are rings that grow when they are full.     *)
(* What TaskQueue does with sequences this does with rings, and "that is   *)
(* the interpreter's order, so both engines agree".                        *)
(***************************************************************************)
EXTENDS Naturals, Sequences, TLC

CONSTANTS
  Tasks,      \* the tasks of `@spawn`
  Main,       \* the program itself
  Chans,      \* the channels
  Msgs,       \* what is sent
  TVars,      \* the transactional variables
  None,       \* no message, no channel, no fault
  FirstCap,   \* the slots a ring starts with: 8 in the code
  MaxLen,     \* bound: a channel with so many slots is sent nothing more
  MaxOps,     \* bound: operations logged in one run of a transaction
  MaxVersion  \* bound: commits to a variable

ASSUME RingAssumption ==
  /\ Main \notin Tasks
  /\ None \notin Chans \cup Msgs \cup {"deadlock", "awaits itself"}
  /\ FirstCap \in Nat \ {0} /\ MaxLen \in Nat

VARIABLES
  state,    \* Task.state, "new" before the task is spawned
  g_tasks,  \* g_tasks, g_task_head, g_task_len and g_task_cap
  stack,    \* the activities on the C stack, the running one last
  pc,       \* what each activity is doing
  from,     \* the channel a receiver receives from
  got,      \* the message received last
  chan,     \* Chan: the buf, head, len and cap of each channel
  version,  \* TVar.version
  reads,    \* g_stm_reads
  writes,   \* g_stm_writes, the variables
  watch,    \* the reads THxSTM_wait moved out of the log
  fault     \* how the program failed

vars == <<state, g_tasks, stack, pc, from, got, chan, version, reads, writes, watch, fault>>
queues == <<state, g_tasks, stack>>
stm == <<version, reads, writes, watch>>

Activities == Tasks \cup {Main}

-----------------------------------------------------------------------------
(* Rings. *)
EmptyRing == [buf |-> <<>>, head |-> 0, len |-> 0, cap |-> 0]

\* The ring's entry i, from 0.
Entry(r, i) == r.buf[(r.head + i) % r.cap]

MoreSlots(r) == IF r.cap = 0 THEN FirstCap ELSE 2 * r.cap

\* Mutant: the slots are copied as they lie, from the first.
CopiedInPlace(r) ==
  [buf |-> [i \in 0 .. MoreSlots(r) - 1 |-> IF i < r.len THEN r.buf[i] ELSE None],
   head |-> 0, len |-> r.len, cap |-> MoreSlots(r)]

\* The entries moved to a larger array, in order; the rest of it is not set.
Grown(r) ==
  [buf |-> [i \in 0 .. MoreSlots(r) - 1 |-> IF i < r.len THEN Entry(r, i) ELSE None],
   head |-> 0, len |-> r.len, cap |-> MoreSlots(r)]

Put(r, x) == [r EXCEPT !.buf = [@ EXCEPT ![(r.head + r.len) % r.cap] = x], !.len = @ + 1]

Push(r, x) == IF r.len = r.cap THEN Put(Grown(r), x) ELSE Put(r, x)

\* Mutant: the head does not wrap.
DropPast(r, n) == IF n = 0 THEN r ELSE [r EXCEPT !.head = @ + n, !.len = @ - n]

\* The first n entries taken out, one after the other.
Drop(r, n) == IF n = 0 THEN r ELSE [r EXCEPT !.head = (@ + n) % r.cap, !.len = @ - n]

\* What a ring holds, in order.
Contents(r) == [i \in 1 .. r.len |-> Entry(r, i - 1)]

-----------------------------------------------------------------------------
Init ==
  /\ state = [t \in Tasks |-> "new"]
  /\ g_tasks = EmptyRing
  /\ stack = <<Main>>
  /\ pc = [a \in Activities |-> "body"]
  /\ from = [a \in Activities |-> None]
  /\ got = None
  /\ chan = [c \in Chans |-> EmptyRing]
  /\ version = [tv \in TVars |-> 0]
  /\ reads = <<>>
  /\ writes = <<>>
  /\ watch = [a \in Activities |-> <<>>]
  /\ fault = None

Top == stack[Len(stack)]
At(a, label) == fault = None /\ a = Top /\ pc[a] = label
Goto(a, label) == pc' = [pc EXCEPT ![a] = label]

\* Mutant: the state of a task is set only when it is done.
StaysPending(t) ==
  /\ state' = state
  /\ stack' = Append(stack, t)

\* The first half of task_exec, up to the call.
task_exec(t) ==
  /\ state' = [state EXCEPT ![t] = "running"]
  /\ stack' = Append(stack, t)

Queued(i) == Entry(g_tasks, i - 1)

\* The loop of run_next_task drops the entries of tasks somebody started.
FirstPending(i) ==
  /\ state[Queued(i)] = "pending"
  /\ \A j \in 1 .. i - 1 : state[Queued(j)] # "pending"

run_next_task ==
  \E i \in 1 .. g_tasks.len :
    /\ FirstPending(i)
    /\ g_tasks' = Drop(g_tasks, i)
    /\ task_exec(Queued(i))

\* Mutant: only the entry at the head is looked at.
HeadStarted ==
  /\ g_tasks.len > 0 => state[Queued(1)] # "pending"
  /\ g_tasks' = IF g_tasks.len > 0 THEN Drop(g_tasks, 1) ELSE g_tasks
  /\ UNCHANGED <<state, stack>>

NoTaskLeft ==
  /\ \A i \in 1 .. g_tasks.len : state[Queued(i)] # "pending"
  /\ g_tasks' = Drop(g_tasks, g_tasks.len)
  /\ UNCHANGED <<state, stack>>

spawn_task(a, t) ==
  /\ At(a, "body")
  /\ state[t] = "new"
  /\ state' = [state EXCEPT ![t] = "pending"]
  /\ g_tasks' = Push(g_tasks, t)
  /\ UNCHANGED <<stack, pc, from, got, chan, stm, fault>>

THxPAR_await(a, t) ==
  /\ At(a, "body") \/ At(a, "tx")
  /\ \/ state[t] = "running" /\ fault' = "awaits itself" /\ UNCHANGED <<state, stack>>
     \/ state[t] = "pending" /\ task_exec(t) /\ UNCHANGED fault
  /\ UNCHANGED <<g_tasks, pc, from, got, chan, stm>>

\* The second half of task_exec: the task's function returned.
TaskDone(a) ==
  /\ At(a, "body")
  /\ a # Main
  /\ state' = [state EXCEPT ![a] = "done"]
  /\ stack' = SubSeq(stack, 1, Len(stack) - 1)
  /\ UNCHANGED <<g_tasks, pc, from, got, chan, stm, fault>>

-----------------------------------------------------------------------------
THxCHAN_send(a, c, m) ==
  /\ At(a, "body")
  /\ chan[c].cap < MaxLen
  /\ chan' = [chan EXCEPT ![c] = Push(@, m)]
  /\ UNCHANGED <<queues, pc, from, got, stm, fault>>

THxCHAN_recv(a, c) ==
  /\ At(a, "body")
  /\ Goto(a, "recv")
  /\ from' = [from EXCEPT ![a] = c]
  /\ UNCHANGED <<queues, got, chan, stm, fault>>

\* THxCHAN_recv's loop, when there is a message.
RecvTake(a) ==
  LET c == from[a]
  IN  /\ At(a, "recv")
      /\ chan[c].len > 0
      /\ got' = Entry(chan[c], 0)
      /\ chan' = [chan EXCEPT ![c] = Drop(@, 1)]
      /\ from' = [from EXCEPT ![a] = None]
      /\ Goto(a, "body")
      /\ UNCHANGED <<queues, stm, fault>>

-----------------------------------------------------------------------------
Written == {writes[i] : i \in 1 .. Len(writes)}

THxSTM_begin(a) ==
  /\ At(a, "body") \/ At(a, "begin")
  /\ reads' = <<>> /\ writes' = <<>>
  /\ Goto(a, "tx")
  /\ UNCHANGED <<queues, from, got, chan, version, watch, fault>>

THxSTM_read(a, tv) ==
  /\ At(a, "tx")
  /\ Len(reads) + Len(writes) < MaxOps
  /\ tv \notin Written
  /\ reads' = Append(reads, [tv |-> tv, version |-> version[tv]])
  /\ UNCHANGED <<queues, pc, from, got, chan, version, writes, watch, fault>>

THxSTM_write(a, tv) ==
  /\ At(a, "tx")
  /\ Len(reads) + Len(writes) < MaxOps
  /\ version[tv] < MaxVersion
  /\ writes' = Append(writes, tv)
  /\ UNCHANGED <<queues, pc, from, got, chan, version, reads, watch, fault>>

Unchanged(rs, now) == \A i \in 1 .. Len(rs) : now[rs[i].tv] = rs[i].version

\* Versions are told apart, not counted: several writes of one run are one.
Committed == [tv \in TVars |-> version[tv] + (IF tv \in Written THEN 1 ELSE 0)]

\* Mutant: the writes are published before the reads are validated.
PublishesFirst(a) ==
  /\ At(a, "tx")
  /\ version' = Committed
  /\ Goto(a, IF Unchanged(reads, Committed) THEN "body" ELSE "begin")
  /\ reads' = <<>> /\ writes' = <<>>
  /\ UNCHANGED <<queues, from, got, chan, watch, fault>>

THxSTM_commit(a) ==
  /\ At(a, "tx")
  /\ version' = IF Unchanged(reads, version) THEN Committed ELSE version
  /\ Goto(a, IF Unchanged(reads, version) THEN "body" ELSE "begin")
  /\ reads' = <<>> /\ writes' = <<>>
  /\ UNCHANGED <<queues, from, got, chan, watch, fault>>

THxSTM_wait(a) ==
  /\ At(a, "tx")
  /\ watch' = [watch EXCEPT ![a] = reads]
  /\ reads' = <<>> /\ writes' = <<>>
  /\ Goto(a, "wait")
  /\ UNCHANGED <<queues, from, got, chan, version, fault>>

\* THxSTM_wait's loop, when something it read has changed.
WaitOver(a) ==
  /\ At(a, "wait")
  /\ ~Unchanged(watch[a], version)
  /\ watch' = [watch EXCEPT ![a] = <<>>]
  /\ Goto(a, "begin")
  /\ UNCHANGED <<queues, from, got, chan, version, reads, writes, fault>>

-----------------------------------------------------------------------------
\* Entry::Main: the entry returned, and THxPAR_join_io begins.
MainReturns ==
  /\ At(Main, "body")
  /\ Goto(Main, "finish")
  /\ UNCHANGED <<queues, from, got, chan, stm, fault>>

Blocked(a) ==
  \/ At(a, "recv") /\ chan[from[a]].len = 0
  \/ At(a, "wait") /\ Unchanged(watch[a], version)
  \/ At(a, "finish")

\* The three loops over run_next_task: a receive, a retry and the join.
Help(a) ==
  /\ Blocked(a)
  /\ run_next_task
  /\ UNCHANGED <<pc, from, got, chan, stm, fault>>

\* run_next_task found none: others_may_run() is 0 without threads.
GiveUp(a) ==
  /\ Blocked(a)
  /\ NoTaskLeft
  /\ \/ pc[a] = "finish" /\ Goto(a, "exited") /\ UNCHANGED fault
     \/ pc[a] # "finish" /\ fault' = "deadlock" /\ UNCHANGED pc
  /\ UNCHANGED <<from, got, chan, stm>>

TaskStep(a) ==
  \/ \E t \in Tasks : spawn_task(a, t) \/ THxPAR_await(a, t)
  \/ TaskDone(a)
  \/ Help(a)
  \/ GiveUp(a)

ChanStep(a) ==
  \/ \E c \in Chans : THxCHAN_recv(a, c) \/ \E m \in Msgs : THxCHAN_send(a, c, m)
  \/ RecvTake(a)

StmStep(a) ==
  \/ THxSTM_begin(a)
  \/ \E tv \in TVars : THxSTM_read(a, tv) \/ THxSTM_write(a, tv)
  \/ THxSTM_commit(a)
  \/ THxSTM_wait(a)
  \/ WaitOver(a)

Next == MainReturns \/ \E a \in Activities : TaskStep(a) \/ ChanStep(a) \/ StmStep(a)

Spec == Init /\ [][Next]_vars

-----------------------------------------------------------------------------
Interpreter == INSTANCE TaskQueue
                 WITH task <- state,
                      tasks <- Contents(g_tasks),
                      chan <- [c \in Chans |-> Contents(chan[c])]

\* A ring of elements of S: its live entries lie within its slots.
RingOf(r, S) ==
  /\ r = [buf |-> [i \in 0 .. r.cap - 1 |-> r.buf[i]], head |-> r.head, len |-> r.len, cap |-> r.cap]
  /\ r.cap \in Nat /\ r.len \in 0 .. r.cap
  /\ IF r.cap = 0 THEN r.head = 0 ELSE r.head \in 0 .. r.cap - 1
  /\ \A i \in 0 .. r.len - 1 : Entry(r, i) \in S

\* The shape of the state.
TypeOK ==
  /\ RingOf(g_tasks, Tasks)
  /\ chan = [c \in Chans |-> chan[c]] /\ \A c \in Chans : RingOf(chan[c], Msgs)
  /\ Interpreter!TypeOK

\* runtime.c: "That is the interpreter's order, so both engines agree."  However
\* the rings wrap, grow and keep entries of tasks started by an `@await`, a
\* program does nothing that it could not do in the interpreter.
EnginesAgree == Interpreter!Spec

\* PAR.thx: "A program exits only after every `spawn` task has finished."  And a
\* receive or a retry reports a deadlock only when it has run every task it could.
EndsAfterTasks == Interpreter!EndsAfterTasks

\* STM.thx: "a transaction there never conflicts."
NeverConflicts == Interpreter!NeverConflicts

\* For TLC: tasks are interchangeable, and so are messages.
Symmetry == Permutations(Tasks) \cup Permutations(Msgs)

=============================================================================
