------------------------------- MODULE Async -------------------------------
(***************************************************************************)
(* library/ASYNC.thx: a task group on one thread.  A round-robin scheduler *)
(* holds the continuations of its tasks: in the ready queue, parked on a   *)
(* bounded channel, or waiting for a file descriptor.                      *)
(*                                                                         *)
(* cur is the task whose turn it is (`serve` handles what it stops for); a *)
(* turn is a sequence of operations that can complete at once, and ends    *)
(* with one that cannot.  What a task does next is its program's choice.   *)
(***************************************************************************)
EXTENDS Naturals, Integers, Sequences, FiniteSets, SequencesExt

CONSTANTS
  Tasks,      \* the tasks of the group
  Main,       \* the one run_async / run_io was given
  None,       \* Option.None; no task
  Caps,       \* the capacities tasks ask for
  MaxChans,   \* bound: channels made
  MaxMsgs,    \* bound: messages sent
  PollFails   \* TRUE: poll(2) may fail, or a probe find a descriptor drained

ASSUME AsyncAssumption ==
  /\ Main \in Tasks
  /\ None \notin Tasks \cup (Tasks \X Nat)
  /\ Caps \subseteq Int
  /\ MaxChans \in Nat /\ MaxMsgs \in Nat
  /\ PollFails \in BOOLEAN

VARIABLES
  polls,    \* Sched.poll: TRUE for run_io's, FALSE for run_async's
  ready,    \* Sched.ready: tasks and what they are resumed with
  chans,    \* Sched.chans (counted from 1 here)
  waiting,  \* Sched.waiting: the tasks parked on a descriptor
  result,   \* Sched.result
  cur,      \* the task whose step `serve` is serving
  over,     \* run_with returned
  born,     \* history: the tasks spawned so far
  ended,    \* history: the tasks that finished
  sends,    \* history: how many messages were sent
  sent,     \* history: the messages sent on each channel, in order
  taken,    \* history: the messages handed over on each channel, in order
  got       \* history: the messages each task was resumed with

vars == <<polls, ready, chans, waiting, result, cur, over, born, ended, sends,
          sent, taken, got>>
hist == <<sends, sent, taken, got>>

(***************************************************************************)
(* Queue: pushed onto `back`, popped from `front`, which `back` refills    *)
(* reversed (rev_onto) when it runs dry.                                   *)
(***************************************************************************)
q_empty == [front |-> <<>>, back |-> <<>>]
\* Mutant: pushed where q_pop takes.
PushFront(q, x) == [q EXCEPT !.front = <<x>> \o @]

q_push(q, x) == [q EXCEPT !.back = <<x>> \o @]
q_has(q) == q.front # <<>> \/ q.back # <<>>
q_pop(q) ==
  IF q.front # <<>>
    THEN [x |-> Head(q.front), rest |-> [q EXCEPT !.front = Tail(@)]]
    ELSE LET r == Reverse(q.back)
         IN  [x |-> Head(r), rest |-> [front |-> Tail(r), back |-> <<>>]]

\* What a queue holds, the oldest first.
Contents(q) == q.front \o Reverse(q.back)

\* Mutant: the capacity is taken as it is.
ChannelRaw(cap) ==
  [cap |-> cap, size |-> 0,
   buf |-> q_empty, senders |-> q_empty, receivers |-> q_empty]

Channel(cap) ==
  [cap |-> IF cap < 0 THEN 0 ELSE cap, size |-> 0,
   buf |-> q_empty, senders |-> q_empty, receivers |-> q_empty]

Resume(t) == [task |-> t, msg |-> None]
ResumeWith(t, v) == [task |-> t, msg |-> v]

\* run_with: only `main` is ready.
Init ==
  /\ polls \in BOOLEAN
  /\ ready = q_push(q_empty, Resume(Main))
  /\ chans = <<>>
  /\ waiting = <<>>
  /\ result = None
  /\ cur = None
  /\ over = FALSE
  /\ born = {Main}
  /\ ended = {}
  /\ sends = 0
  /\ sent = <<>>
  /\ taken = <<>>
  /\ got = [t \in Tasks |-> <<>>]

(***************************************************************************)
(* schedule.                                                               *)
(***************************************************************************)
Idle == cur = None /\ ~over

\* The next ready task has its turn.
RunReady ==
  LET p == q_pop(ready)
  IN  /\ Idle
      /\ q_has(ready)
      /\ ready' = p.rest
      /\ cur' = p.x.task
      /\ got' = IF p.x.msg = None THEN got
                ELSE [got EXCEPT ![p.x.task] = Append(@, p.x.msg)]
      /\ UNCHANGED <<chans, waiting, result, over, born, ended, sends, sent, taken>>

\* No task is ready and none waits on a descriptor.
GroupOver ==
  /\ Idle
  /\ ~q_has(ready)
  /\ waiting = <<>>
  /\ over' = TRUE
  /\ UNCHANGED <<ready, chans, waiting, result, cur, born, ended, hist>>

\* What s.poll may answer: run_async's answers nothing; poll_ready's answers the
\* descriptors ready when it probes them, one at least unless it fails.
PollAnswers ==
  IF ~polls THEN {{}}
  ELSE {w \in SUBSET (DOMAIN waiting) : w # {} \/ PollFails}

\* wake's loop at one waiter: requeued if it was answered, else it waits on.
Walk(woken, s, i) ==
  IF i \in woken
    THEN [s EXCEPT !.ready = q_push(@, Resume(waiting[i]))]
    ELSE [s EXCEPT !.rest = Append(@, waiting[i])]

\* The loop over all waiters, in the order they parked.
Walked(woken) ==
  LET go[i \in 0 .. Len(waiting)] ==
        IF i = 0 THEN [ready |-> ready, rest |-> <<>>] ELSE Walk(woken, go[i - 1], i)
  IN  go[Len(waiting)]

\* Mutant: the woken stay parked as well.
WakeAndKeep(woken) == ready' = Walked(woken).ready /\ UNCHANGED waiting

\* Mutant: the waiters that were not answered are forgotten.
WakeForgets(woken) == ready' = Walked(woken).ready /\ waiting' = <<>>

\* wake: requeue the waiters at the answered indices, in order, keep the rest.
wake(woken) ==
  /\ ready' = Walked(woken).ready
  /\ waiting' = Walked(woken).rest

Poll ==
  /\ Idle
  /\ ~q_has(ready)
  /\ waiting # <<>>
  /\ \E woken \in PollAnswers :
       \/ woken = {} /\ over' = TRUE /\ UNCHANGED <<ready, waiting>>
       \/ woken # {} /\ wake(woken) /\ UNCHANGED over
  /\ UNCHANGED <<chans, result, cur, born, ended, hist>>

(***************************************************************************)
(* serve: the operation the running task performs.                         *)
(***************************************************************************)
Done(t) ==
  /\ cur = t
  /\ result' = IF t = Main THEN Main ELSE result
  /\ ended' = ended \cup {t}
  /\ cur' = None
  /\ UNCHANGED <<ready, chans, waiting, over, born, hist>>

Yielded(t) ==
  /\ cur = t
  /\ ready' = q_push(ready, Resume(t))
  /\ cur' = None
  /\ UNCHANGED <<chans, waiting, result, over, born, ended, hist>>

Spawned(t, child) ==
  /\ cur = t
  /\ child \in Tasks \ born
  /\ born' = born \cup {child}
  /\ ready' = q_push(ready, Resume(child))
  /\ UNCHANGED <<chans, waiting, result, cur, over, ended, hist>>

Made(t, cap) ==
  /\ cur = t
  /\ Len(chans) < MaxChans
  /\ chans' = Append(chans, Channel(cap))
  /\ sent' = Append(sent, <<>>)
  /\ taken' = Append(taken, <<>>)
  /\ UNCHANGED <<ready, waiting, result, cur, over, born, ended, sends, got>>

Waits(t) ==
  /\ cur = t
  /\ waiting' = Append(waiting, t)
  /\ cur' = None
  /\ UNCHANGED <<ready, chans, result, over, born, ended, hist>>

\* send_to: to a parked receiver, else into the buffer, else the sender parks.
SendToReceiver(t, c, v) ==
  LET p == q_pop(chans[c].receivers)
  IN  /\ q_has(chans[c].receivers)
      /\ chans' = [chans EXCEPT ![c].receivers = p.rest]
      /\ ready' = q_push(ready, ResumeWith(p.x, v))
      /\ taken' = [taken EXCEPT ![c] = Append(@, v)]
      /\ UNCHANGED cur

SendToBuffer(t, c, v) ==
  /\ ~q_has(chans[c].receivers)
  /\ chans[c].size < chans[c].cap
  /\ chans' = [chans EXCEPT ![c].buf = q_push(@, v), ![c].size = @ + 1]
  /\ UNCHANGED <<ready, taken, cur>>

SendParks(t, c, v) ==
  /\ ~q_has(chans[c].receivers)
  /\ chans[c].size >= chans[c].cap
  /\ chans' = [chans EXCEPT ![c].senders = q_push(@, <<v, t>>)]
  /\ cur' = None
  /\ UNCHANGED <<ready, taken>>

send_to(t, c) ==
  \* A message of its own for each send, so that none is mistaken for another.
  LET v == <<t, sends>>
  IN  /\ cur = t
      /\ sends < MaxMsgs
      /\ SendToReceiver(t, c, v) \/ SendToBuffer(t, c, v) \/ SendParks(t, c, v)
      /\ sends' = sends + 1
      /\ sent' = [sent EXCEPT ![c] = Append(@, v)]
      /\ UNCHANGED <<waiting, result, over, born, ended, got>>

\* recv_from: the receiver takes v at once.
Takes(t, c, v) ==
  /\ taken' = [taken EXCEPT ![c] = Append(@, v)]
  /\ got' = [got EXCEPT ![t] = Append(@, v)]
  /\ UNCHANGED cur

\* Mutant: the parked sender is served before the buffer.
SenderFirst(t, c) ==
  LET p == q_pop(chans[c].senders)
  IN  /\ q_has(chans[c].buf)
      /\ q_has(chans[c].senders)
      /\ chans' = [chans EXCEPT ![c].senders = p.rest]
      /\ ready' = q_push(ready, Resume(p.x[2]))
      /\ Takes(t, c, p.x[1])

\* Mutant: the freed slot is left free.
NoRefill(t, c) ==
  LET b == q_pop(chans[c].buf)
  IN  /\ q_has(chans[c].buf)
      /\ q_has(chans[c].senders)
      /\ chans' = [chans EXCEPT ![c].buf = b.rest, ![c].size = @ - 1]
      /\ Takes(t, c, b.x)
      /\ UNCHANGED ready

\* A buffered value first; a parked sender's value moves into the freed slot.
RecvAndRefill(t, c) ==
  LET b == q_pop(chans[c].buf)
      p == q_pop(chans[c].senders)
  IN  /\ q_has(chans[c].buf)
      /\ q_has(chans[c].senders)
      /\ chans' = [chans EXCEPT ![c].buf = q_push(b.rest, p.x[1]),
                                ![c].senders = p.rest]
      /\ ready' = q_push(ready, Resume(p.x[2]))
      /\ Takes(t, c, b.x)

RecvBuffered(t, c) ==
  LET b == q_pop(chans[c].buf)
  IN  /\ q_has(chans[c].buf)
      /\ ~q_has(chans[c].senders)
      /\ chans' = [chans EXCEPT ![c].buf = b.rest, ![c].size = @ - 1]
      /\ Takes(t, c, b.x)
      /\ UNCHANGED ready

\* Mutant: the sender is resumed with its own message.
EchoToSender(t, c) ==
  LET p == q_pop(chans[c].senders)
  IN  /\ ~q_has(chans[c].buf)
      /\ q_has(chans[c].senders)
      /\ chans' = [chans EXCEPT ![c].senders = p.rest]
      /\ ready' = q_push(ready, ResumeWith(p.x[2], p.x[1]))
      /\ Takes(t, c, p.x[1])

\* Nothing buffered: a parked sender hands over directly.
RecvRendezvous(t, c) ==
  LET p == q_pop(chans[c].senders)
  IN  /\ ~q_has(chans[c].buf)
      /\ q_has(chans[c].senders)
      /\ chans' = [chans EXCEPT ![c].senders = p.rest]
      /\ ready' = q_push(ready, Resume(p.x[2]))
      /\ Takes(t, c, p.x[1])

RecvParks(t, c) ==
  /\ ~q_has(chans[c].buf)
  /\ ~q_has(chans[c].senders)
  /\ chans' = [chans EXCEPT ![c].receivers = q_push(@, t)]
  /\ cur' = None
  /\ UNCHANGED <<ready, taken, got>>

recv_from(t, c) ==
  /\ cur = t
  /\ \/ RecvAndRefill(t, c)
     \/ RecvBuffered(t, c)
     \/ RecvRendezvous(t, c)
     \/ RecvParks(t, c)
  /\ UNCHANGED <<waiting, result, over, born, ended, sends, sent>>

-----------------------------------------------------------------------------
schedule == RunReady \/ GroupOver \/ Poll

serve(t) ==
  \/ Done(t)
  \/ Yielded(t)
  \/ \E child \in Tasks : Spawned(t, child)
  \/ \E cap \in Caps : Made(t, cap)
  \/ \E c \in DOMAIN chans : send_to(t, c)
  \/ \E c \in DOMAIN chans : recv_from(t, c)
  \/ Waits(t)

Next ==
  /\ schedule \/ \E t \in Tasks : serve(t)
  /\ UNCHANGED polls

Spec == Init /\ [][Next]_vars

\* The group runs on; a turn comes to its end (the bounds see to that).
FairSpec == Spec /\ WF_vars(Next)

-----------------------------------------------------------------------------
Messages == Tasks \X Nat
Queues(S) == [front : Seq(S), back : Seq(S)]
Entries == [task : Tasks, msg : Messages \cup {None}]
Channels == [cap : Nat, size : Int, buf : Queues(Messages),
             senders : Queues(Messages \X Tasks), receivers : Queues(Tasks)]

\* The shape of the scheduler's state.
TypeOK ==
  /\ polls \in BOOLEAN
  /\ ready \in Queues(Entries)
  /\ chans \in Seq(Channels)
  /\ waiting \in Seq(Tasks)
  /\ result \in {None, Main}
  /\ cur \in Tasks \cup {None}
  /\ over \in BOOLEAN
  /\ born \in SUBSET Tasks
  /\ ended \in SUBSET Tasks
  /\ sends \in Nat
  /\ sent \in Seq(Seq(Messages)) /\ Len(sent) = Len(chans)
  /\ taken \in Seq(Seq(Messages)) /\ Len(taken) = Len(chans)
  /\ got \in [Tasks -> Seq(Messages)]

\* The values of the senders parked on a channel, the oldest first.
Values(offers) == [i \in DOMAIN offers |-> offers[i][1]]
Pending(ch) == Contents(ch.buf) \o Values(Contents(ch.senders))

Fifo(ch, in, out) == in = out \o Pending(ch)

\* A channel is first in, first out: what was sent on it is what was handed
\* over, then what is buffered, then what parked senders offer.
ChannelFifo == \A c \in DOMAIN chans : Fifo(chans[c], sent[c], taken[c])

Cause(ch) ==
  /\ ch.size = Len(Contents(ch.buf)) /\ ch.size <= ch.cap
  /\ q_has(ch.senders) => ch.size = ch.cap /\ ~q_has(ch.receivers)
  /\ q_has(ch.receivers) => ~q_has(ch.buf)

\* "A full channel parks its sender, an empty one its receiver", and nothing
\* else does: nobody stays parked once it could go on.
ParkedForCause == \A c \in DOMAIN chans : Cause(chans[c])

\* The places a task's continuation can be in, each with a number of its own.
ParkedOn(t, c) ==
  {<<"sender", c, i>> :
     i \in {j \in DOMAIN Contents(chans[c].senders) : Contents(chans[c].senders)[j][2] = t}}
    \cup {<<"receiver", c, i>> :
            i \in {j \in DOMAIN Contents(chans[c].receivers) :
                     Contents(chans[c].receivers)[j] = t}}
Places(t) ==
  {<<"cur", 0>> : x \in {cur} \cap {t}}
    \cup {<<"ended", 0>> : x \in ended \cap {t}}
    \cup {<<"ready", i>> : i \in {j \in DOMAIN Contents(ready) : Contents(ready)[j].task = t}}
    \cup {<<"waiting", i>> : i \in {j \in DOMAIN waiting : waiting[j] = t}}
    \cup (UNION {ParkedOn(t, c) : c \in DOMAIN chans})

\* A continuation is neither lost nor kept twice: it is resumed at most once,
\* and only a finished task is gone.
OnePlace ==
  \A t \in Tasks : Cardinality(Places(t)) = IF t \in born THEN 1 ELSE 0

\* A message handed over reaches one task, once.
Received ==
  UNION {{<<t, i>> : i \in DOMAIN got[t]} : t \in Tasks}
InFlight == {i \in DOMAIN Contents(ready) : Contents(ready)[i].msg # None}
DeliveredOnce ==
  \A c \in DOMAIN chans : \A i \in DOMAIN taken[c] :
    Cardinality({r \in Received : got[r[1]][r[2]] = taken[c][i]})
      + Cardinality({j \in InFlight : Contents(ready)[j].msg = taken[c][i]}) = 1

SendsOnFull(t) ==
  \E c \in DOMAIN chans :
    /\ \E i \in DOMAIN Contents(chans[c].senders) : Contents(chans[c].senders)[i][2] = t
    /\ Len(Contents(chans[c].buf)) >= chans[c].cap /\ ~q_has(chans[c].receivers)
RecvsOnEmpty(t) ==
  \E c \in DOMAIN chans :
    /\ \E i \in DOMAIN Contents(chans[c].receivers) : Contents(chans[c].receivers)[i] = t
    /\ ~q_has(chans[c].buf) /\ ~q_has(chans[c].senders)
WaitsOnFd(t) == \E i \in DOMAIN waiting : waiting[i] = t

\* "It returns once no task in it can run": when run_with returns, every task
\* that has not finished is there to be found, and blocked: it sends on a full
\* channel nobody receives from, receives from an empty one nobody sends on, or
\* waits on a descriptor.  None is the answer when main is one of these, and
\* then only (schedule, send_to, recv_from, wake; a poll that fails ends the
\* group too).
EndsBlocked ==
  over => /\ \A t \in born \ ended : SendsOnFull(t) \/ RecvsOnEmpty(t) \/ WaitsOnFd(t)
          /\ (result = None) = (Main \in born \ ended)

\* Round robin: a ready task gets its turn.
ReadyRuns ==
  \A t \in Tasks :
    (\E i \in DOMAIN Contents(ready) : Contents(ready)[i].task = t) ~> (cur = t)

=============================================================================
