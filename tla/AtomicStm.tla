----------------------------- MODULE AtomicStm -----------------------------
(***************************************************************************)
(* What library/STM.thx promises of `atomically`: "runs it as one step:    *)
(* its reads see one consistent state, and its writes appear all at once,  *)
(* or the run is discarded and redone".                                    *)
(*                                                                         *)
(* A transaction's run is the sequence of operations it performed and what *)
(* each read returned.  The run may grow or be discarded at any time; it   *)
(* takes effect in one step, and only if the whole of it, replayed on the  *)
(* store of that instant, would have read the same values.                 *)
(***************************************************************************)
EXTENDS Naturals, Sequences, SequencesExt

CONSTANTS Txs, TVars

VARIABLES store,     \* the committed value of each variable
          run,       \* the operations of each transaction's current run
          finished   \* the transactions that committed

avars == <<store, run, finished>>

\* Replaying one operation: `view` is what the transaction sees, `saved` the
\* views an `or_else` would restore, `ok` whether every read agreed so far.
Replay1(s, op) ==
  CASE op.op = "read" -> [s EXCEPT !.ok = @ /\ s.view[op.tv] = op.val]
    [] op.op = "write" -> [s EXCEPT !.view[op.tv] = op.val]
    [] op.op = "save" -> [s EXCEPT !.saved = Append(@, s.view)]
    [] op.op = "keep" -> [s EXCEPT !.saved = Front(@)]
    [] op.op = "undo" -> [s EXCEPT !.view = Last(s.saved), !.saved = Front(@)]

\* The replay before any operation, after one, after two...
Replays(st, ops) ==
  LET r[n \in 0 .. Len(ops)] ==
        IF n = 0 THEN [ok |-> TRUE, view |-> st, saved |-> <<>>]
                 ELSE Replay1(r[n - 1], ops[n])
  IN  r

Replay(st, ops) == Replays(st, ops)[Len(ops)]

\* Running changes nothing another transaction can see.
Work(tx) ==
  /\ \A other \in Txs \ {tx} : run'[other] = run[other]
  /\ UNCHANGED <<store, finished>>

Atomically(tx) ==
  /\ tx \notin finished
  /\ Replay(store, run[tx]).ok
  /\ store' = Replay(store, run[tx]).view
  /\ finished' = finished \cup {tx}
  /\ \A other \in Txs \ {tx} : run'[other] = run[other]

Init ==
  /\ run = [tx \in Txs |-> <<>>]
  /\ finished = {}

Next == \E tx \in Txs : Work(tx) \/ Atomically(tx)

Spec == Init /\ [][Next]_avars

=============================================================================
