-------------------------------- MODULE Stm --------------------------------
(***************************************************************************)
(* Software transactional memory: the transaction log of                   *)
(* crates/ccg/src/runtime.c (THxSTM_...) as library/STM.thx's `atomically`,  *)
(* `attempt` and `or_else` drive it, on the threads of the pool.           *)
(*                                                                         *)
(* The log is THREAD-local, a transaction belongs to a task, and a thread  *)
(* that waits runs other tasks on top of the waiting one: stack[th] is the *)
(* chain of transactions on one thread's C stack, of which only the last   *)
(* one runs.  Every variable access takes g_stm_mu, so each is one step.   *)
(***************************************************************************)
EXTENDS Naturals, Sequences, FiniteSets, SequencesExt

CONSTANTS
  Threads,   \* the threads of the pool
  Txs,       \* the transactions, each the `atomically` of a task of its own
  TVars,     \* the transactional variables
  MaxOps,    \* bound: operations in one run of a transaction
  MaxMarks,  \* bound: nesting of `or_else`
  AwaitInTx  \* TRUE: a transaction may `@await` (a pure operation) a task

ASSUME StmAssumption ==
  /\ MaxOps \in Nat /\ MaxMarks \in Nat
  /\ AwaitInTx \in BOOLEAN

VARIABLES
  val,      \* TVar.val
  version,  \* TVar.version
  reads,    \* g_stm_reads of each thread: variables and the versions seen
  writes,   \* g_stm_writes of each thread, the newest last
  stack,    \* the transactions on each thread, the running one last
  pc,       \* where `atomically` is in each transaction
  marks,    \* the marks of the `or_else`s a transaction is in
  watch,    \* the reads THxSTM_wait moved out of the log
  run       \* history: the operations of the current run, with their results

vars == <<val, version, reads, writes, stack, pc, marks, watch, run>>
log == <<reads, writes>>

Init ==
  /\ val = [tv \in TVars |-> <<>>]
  /\ version = [tv \in TVars |-> 0]
  /\ reads = [th \in Threads |-> <<>>]
  /\ writes = [th \in Threads |-> <<>>]
  /\ stack = [th \in Threads |-> <<>>]
  /\ pc = [tx \in Txs |-> "queued"]
  /\ marks = [tx \in Txs |-> <<>>]
  /\ watch = [tx \in Txs |-> <<>>]
  /\ run = [tx \in Txs |-> <<>>]

Top(th) == Last(stack[th])
Runs(th, tx, label) == stack[th] # <<>> /\ Top(th) = tx /\ pc[tx] = label

Goto(tx, label) == pc' = [pc EXCEPT ![tx] = label]
Record(tx, op) == run' = [run EXCEPT ![tx] = Append(@, op)]

(***************************************************************************)
(* A thread starts a task that will call `atomically`: an idle one from    *)
(* its worker loop, a retrying one from THxSTM_wait, and, when a           *)
(* transaction awaits a future, a thread in the middle of one.             *)
(***************************************************************************)
Helping == IF AwaitInTx THEN {"wait", "body"} ELSE {"wait"}

StartTask(th, tx) ==
  /\ pc[tx] = "queued"
  /\ stack[th] # <<>> => pc[Top(th)] \in Helping
  /\ stack' = [stack EXCEPT ![th] = Append(@, tx)]
  /\ Goto(tx, "begin")
  /\ UNCHANGED <<val, version, log, marks, watch, run>>

\* stm_clear.
THxSTM_begin(th, tx) ==
  /\ Runs(th, tx, "begin")
  /\ reads' = [reads EXCEPT ![th] = <<>>]
  /\ writes' = [writes EXCEPT ![th] = <<>>]
  /\ Goto(tx, "body")
  /\ UNCHANGED <<val, version, stack, marks, watch, run>>

(***************************************************************************)
(* The body of the transaction, one operation of the effect `Stm` a step.  *)
(***************************************************************************)
Body(th, tx) == Runs(th, tx, "body") /\ Len(run[tx]) < MaxOps

\* The newest write of tv in a log.
LastWrite(ws, tv) == ws[Max({i \in 1 .. Len(ws) : ws[i].tv = tv})].val

THxSTM_read(th, tx, tv) ==
  /\ Body(th, tx)
  /\ \/ /\ \E i \in 1 .. Len(writes[th]) : writes[th][i].tv = tv
        /\ Record(tx, [op |-> "read", tv |-> tv, val |-> LastWrite(writes[th], tv)])
        /\ UNCHANGED reads
     \/ /\ \A i \in 1 .. Len(writes[th]) : writes[th][i].tv # tv
        /\ Record(tx, [op |-> "read", tv |-> tv, val |-> val[tv]])
        /\ reads' = [reads EXCEPT ![th] = Append(@, [tv |-> tv, version |-> version[tv]])]
  /\ UNCHANGED <<val, version, writes, stack, pc, marks, watch>>

\* Every write stores a value of its own, so that none is mistaken for another.
THxSTM_write(th, tx, tv) ==
  LET v == <<tx, Len(run[tx])>>
  IN  /\ Body(th, tx)
      /\ writes' = [writes EXCEPT ![th] = Append(@, [tv |-> tv, val |-> v])]
      /\ Record(tx, [op |-> "write", tv |-> tv, val |-> v])
      /\ UNCHANGED <<val, version, reads, stack, pc, marks, watch>>

\* Mutant: a mark one short, and one long.
SaveShort(th, tx) ==
  /\ Body(th, tx)
  /\ Len(marks[tx]) < MaxMarks
  /\ marks' = [marks EXCEPT ![tx] = Append(@, Len(writes[th]) - 1)]
  /\ Record(tx, [op |-> "save"])
  /\ UNCHANGED <<val, version, log, stack, pc, watch>>

SaveLong(th, tx) ==
  /\ Body(th, tx)
  /\ Len(marks[tx]) < MaxMarks
  /\ marks' = [marks EXCEPT ![tx] = Append(@, Len(writes[th]) + 1)]
  /\ Record(tx, [op |-> "save"])
  /\ UNCHANGED <<val, version, log, stack, pc, watch>>

\* `or_else` begins: remember how long the write log is.
THxSTM_save(th, tx) ==
  /\ Body(th, tx)
  /\ Len(marks[tx]) < MaxMarks
  /\ marks' = [marks EXCEPT ![tx] = Append(@, Len(writes[th]))]
  /\ Record(tx, [op |-> "save"])
  /\ UNCHANGED <<val, version, log, stack, pc, watch>>

\* The first alternative of an `or_else` returned: its mark is forgotten.
FirstReturns(th, tx) ==
  /\ Body(th, tx)
  /\ marks[tx] # <<>>
  /\ marks' = [marks EXCEPT ![tx] = Front(@)]
  /\ Record(tx, [op |-> "keep"])
  /\ UNCHANGED <<val, version, log, stack, pc, watch>>

\* The first alternative retried: undo its writes, run the second.  A mark past
\* the end of the log is a fault of the program ("expected a transaction mark").
THxSTM_rollback(th, tx) ==
  LET mark == Last(marks[tx])
  IN  /\ Body(th, tx)
      /\ marks[tx] # <<>>
      /\ IF mark > Len(writes[th])
           THEN Goto(tx, "fault") /\ UNCHANGED <<writes, run>>
           ELSE /\ writes' = [writes EXCEPT ![th] = SubSeq(@, 1, mark)]
                /\ Record(tx, [op |-> "undo"])
                /\ UNCHANGED pc
      /\ marks' = [marks EXCEPT ![tx] = Front(@)]
      /\ UNCHANGED <<val, version, reads, stack, watch>>

(***************************************************************************)
(* The end of a run: commit, or retry.                                     *)
(***************************************************************************)
\* Mutant: only the first read is validated.
FirstUnchanged(rs) == rs # <<>> => version[rs[1].tv] = rs[1].version

stm_reads_unchanged(rs) ==
  \A i \in 1 .. Len(rs) : version[rs[i].tv] = rs[i].version

\* How often a log writes tv: each write bumps the version.
WritesTo(ws, tv) == Cardinality({i \in 1 .. Len(ws) : ws[i].tv = tv})

\* Mutant: a variable's version is bumped by its first commit only.
BumpOnce(th, tx) ==
  LET ws == writes[th]
  IN  /\ Runs(th, tx, "body")
      /\ marks[tx] = <<>>
      /\ IF stm_reads_unchanged(reads[th])
           THEN /\ val' = [tv \in TVars |->
                             IF WritesTo(ws, tv) > 0 THEN LastWrite(ws, tv) ELSE val[tv]]
                /\ version' = [tv \in TVars |->
                                 IF WritesTo(ws, tv) > 0 THEN 1 ELSE version[tv]]
                /\ Goto(tx, "done")
                /\ stack' = [stack EXCEPT ![th] = Front(@)]
           ELSE Goto(tx, "begin") /\ UNCHANGED <<val, version, stack>>
      /\ reads' = [reads EXCEPT ![th] = <<>>]
      /\ writes' = [writes EXCEPT ![th] = <<>>]
      /\ run' = [run EXCEPT ![tx] = <<>>]
      /\ UNCHANGED <<marks, watch>>

THxSTM_commit(th, tx) ==
  LET ws == writes[th]
  IN  /\ Runs(th, tx, "body")
      /\ marks[tx] = <<>>
      /\ IF stm_reads_unchanged(reads[th])
           THEN /\ val' = [tv \in TVars |->
                             IF WritesTo(ws, tv) > 0 THEN LastWrite(ws, tv) ELSE val[tv]]
                /\ version' = [tv \in TVars |-> version[tv] + WritesTo(ws, tv)]
                /\ Goto(tx, "done")
                /\ stack' = [stack EXCEPT ![th] = Front(@)]
           ELSE Goto(tx, "begin") /\ UNCHANGED <<val, version, stack>>
      /\ reads' = [reads EXCEPT ![th] = <<>>]
      /\ writes' = [writes EXCEPT ![th] = <<>>]
      /\ run' = [run EXCEPT ![tx] = <<>>]
      /\ UNCHANGED <<marks, watch>>

\* `retry` outside any first alternative: THxSTM_wait drops the writes and moves
\* the reads out of the log, which tasks it runs meanwhile will use.
Retry(th, tx) ==
  /\ Runs(th, tx, "body")
  /\ marks[tx] = <<>>
  /\ watch' = [watch EXCEPT ![tx] = reads[th]]
  /\ reads' = [reads EXCEPT ![th] = <<>>]
  /\ writes' = [writes EXCEPT ![th] = <<>>]
  /\ run' = [run EXCEPT ![tx] = <<>>]
  /\ Goto(tx, "wait")
  /\ UNCHANGED <<val, version, stack, marks>>

\* The wait is over when something it read has a new version.
WaitOver(th, tx) ==
  /\ Runs(th, tx, "wait")
  /\ ~stm_reads_unchanged(watch[tx])
  /\ watch' = [watch EXCEPT ![tx] = <<>>]
  /\ Goto(tx, "begin")
  /\ UNCHANGED <<val, version, log, stack, marks, run>>

-----------------------------------------------------------------------------
TxStep(th, tx) ==
  \/ StartTask(th, tx)
  \/ THxSTM_begin(th, tx)
  \/ \E tv \in TVars : THxSTM_read(th, tx, tv)
  \/ \E tv \in TVars : THxSTM_write(th, tx, tv)
  \/ THxSTM_save(th, tx)
  \/ FirstReturns(th, tx)
  \/ THxSTM_rollback(th, tx)
  \/ THxSTM_commit(th, tx)
  \/ Retry(th, tx)
  \/ WaitOver(th, tx)

Next == \E th \in Threads, tx \in Txs : TxStep(th, tx)

Spec == Init /\ [][Next]_vars

-----------------------------------------------------------------------------
LogReads == Seq([tv : TVars, version : Nat])

\* The shape of the state.
TypeOK ==
  /\ \A tv \in TVars : version[tv] \in Nat
  /\ \A th \in Threads : reads[th] \in LogReads
  /\ \A th \in Threads : stack[th] \in Seq(Txs)
  /\ pc \in [Txs -> {"queued", "begin", "body", "wait", "done", "fault"}]
  /\ marks \in [Txs -> Seq(Nat)]
  /\ \A tx \in Txs : watch[tx] \in LogReads

\* STM.thx: `atomically` implements the one-step transaction.
Atomic == INSTANCE AtomicStm
            WITH store <- val, finished <- {tx \in Txs : pc[tx] = "done"}

\* A transaction that commits read one state and wrote it at once, whatever
\* committed between its reads and however often it ran.
RunsAsOneStep == Atomic!Spec

\* A mark taken by `or_else` is still a mark of the log when it is used.
NoMarkFault == \A tx \in Txs : pc[tx] # "fault"

\* Versions tell states apart: a logged read whose version still stands read
\* the value that still stands.
VersionsTell ==
  \A th \in Threads : stack[th] # <<>> /\ pc[Top(th)] = "body" =>
    \A i \in 1 .. Len(reads[th]) :
      version[reads[th][i].tv] = reads[th][i].version =>
        \E j \in 1 .. Len(run[Top(th)]) :
          run[Top(th)][j] = [op |-> "read", tv |-> reads[th][i].tv,
                             val |-> val[reads[th][i].tv]]

\* For TLC: threads, transactions and variables are interchangeable.
Symmetry == Permutations(Threads) \cup Permutations(Txs) \cup Permutations(TVars)

=============================================================================
