--------------------------- MODULE TaskRingProofs ---------------------------
(***************************************************************************)
(* Theorems about TaskRing: the rings hold the sequences TaskQueue speaks  *)
(* of, so every step of the native engine is a step of the interpreter,    *)
(* and what TaskQueueProofs proves of the one holds of the other.          *)
(***************************************************************************)
EXTENDS TaskRing, TLAPS, SequenceTheorems

Queue == INSTANCE TaskQueueProofs
           WITH task <- state,
                tasks <- Contents(g_tasks),
                chan <- [c \in Chans |-> Contents(chan[c])]

\* What the refinement needs of the state: the rings are rings, a receiver has
\* a channel, and the versions are numbers.
RingInv ==
  /\ RingOf(g_tasks, Tasks)
  /\ chan = [c \in Chans |-> chan[c]] /\ \A c \in Chans : RingOf(chan[c], Msgs)
  /\ \A a \in Activities : pc[a] = "recv" => from[a] \in Chans
  /\ DOMAIN pc = Activities /\ DOMAIN from = Activities
  /\ version \in [TVars -> Nat]

-----------------------------------------------------------------------------
(* Lemmas about rings. *)

\* An index past the last slot wraps around once.
LEMMA Wrapped ==
  ASSUME NEW c \in Nat \ {0}, NEW h \in 0 .. c - 1, NEW i \in 0 .. c
  PROVE  (h + i) % c = IF h + i < c THEN h + i ELSE h + i - c
OBVIOUS

LEMMA NotWrapped ==
  ASSUME NEW c \in Nat \ {0}, NEW i \in 0 .. c - 1
  PROVE  (0 + i) % c = i
OBVIOUS

\* Wrapping in two steps is wrapping in one.
LEMMA WrappedTwice ==
  ASSUME NEW c \in Nat \ {0}, NEW h \in 0 .. c - 1, NEW n \in 0 .. c, NEW i \in 0 .. c - n - 1
  PROVE  (h + n) % c \in 0 .. c - 1 /\ (((h + n) % c) + i) % c = (h + (n + i)) % c
<1> DEFINE g == (h + n) % c
<1>1. g = IF h + n < c THEN h + n ELSE h + n - c
  BY Wrapped
<1>2. g \in 0 .. c - 1 /\ i \in 0 .. c /\ n + i \in 0 .. c
  BY <1>1
<1> HIDE DEF g
<1>3. (g + i) % c = IF g + i < c THEN g + i ELSE g + i - c
  BY <1>2, Wrapped
<1>4. (h + (n + i)) % c = IF h + (n + i) < c THEN h + (n + i) ELSE h + (n + i) - c
  BY <1>2, Wrapped
<1>5. (g + i) % c = (h + (n + i)) % c
  BY <1>1, <1>2, <1>3, <1>4
<1> QED
  BY <1>2, <1>5 DEF g

\* Two live entries, or a live one and the next free one, share no slot.
LEMMA SlotsDiffer ==
  ASSUME NEW c \in Nat \ {0}, NEW h \in 0 .. c - 1,
         NEW i \in 0 .. c - 1, NEW j \in 0 .. c - 1, i # j
  PROVE  (h + i) % c # (h + j) % c
<1>1. i \in 0 .. c /\ j \in 0 .. c
  OBVIOUS
<1>2. (h + i) % c = IF h + i < c THEN h + i ELSE h + i - c
  BY <1>1, Wrapped
<1>3. (h + j) % c = IF h + j < c THEN h + j ELSE h + j - c
  BY <1>1, Wrapped
<1> QED
  BY <1>2, <1>3

\* A ring holds the sequence of its entries.
LEMMA ContentsOf ==
  ASSUME NEW S, NEW r, RingOf(r, S)
  PROVE  /\ Contents(r) \in Seq(S) /\ Len(Contents(r)) = r.len /\ r.len \in Nat
         /\ \A i \in 1 .. r.len : Contents(r)[i] = Entry(r, i - 1)
<1>1. r.len \in Nat /\ \A i \in 1 .. r.len : Entry(r, i - 1) \in S
  BY DEF RingOf
<1> QED
  BY <1>1 DEF Contents

\* Growing keeps the entries in order and leaves room for another.
LEMMA GrownRing ==
  ASSUME NEW S, NEW r, RingOf(r, S), r.len = r.cap
  PROVE  /\ RingOf(Grown(r), S) /\ Grown(r).len = r.len /\ r.len < Grown(r).cap
         /\ \A i \in 0 .. r.len - 1 : Entry(Grown(r), i) = Entry(r, i)
<1> DEFINE g == Grown(r)
           k == MoreSlots(r)
<1>1. k \in Nat \ {0} /\ r.len \in Nat /\ r.len < k
  <2>1. r.len \in Nat /\ r.cap \in Nat /\ FirstCap \in Nat /\ FirstCap # 0
    BY RingAssumption DEF RingOf
  <2>2. k = IF r.cap = 0 THEN FirstCap ELSE 2 * r.cap
    BY DEF MoreSlots
  <2> HIDE DEF k
  <2> QED
    BY <2>1, <2>2
<1> HIDE DEF k
<1>2. /\ g = [buf |-> [i \in 0 .. k - 1 |-> IF i < r.len THEN Entry(r, i) ELSE None],
              head |-> 0, len |-> r.len, cap |-> k]
  BY DEF Grown, k
<1> HIDE DEF g
<1>3. g.cap = k /\ g.len = r.len /\ g.head = 0 /\ g.buf = [i \in 0 .. k - 1 |-> g.buf[i]]
  BY <1>2
<1>4. ASSUME NEW i \in 0 .. r.len - 1
      PROVE  Entry(g, i) = Entry(r, i)
  <2>1. i \in 0 .. k - 1
    BY <1>1
  <2>3. (0 + i) % k = i
    BY <1>1, <2>1, NotWrapped
  <2>2. g.buf[i] = Entry(r, i)
    BY <1>1, <1>2
  <2> QED
    BY <1>3, <2>2, <2>3 DEF Entry
<1>5. RingOf(g, S)
  <2>1. g = [buf |-> [i \in 0 .. g.cap - 1 |-> g.buf[i]], head |-> g.head, len |-> g.len, cap |-> g.cap]
    BY <1>2, <1>3
  <2>2. \A i \in 0 .. g.len - 1 : Entry(g, i) \in S
    BY <1>3, <1>4 DEF RingOf
  <2> QED
    BY <1>1, <1>3, <2>1, <2>2 DEF RingOf
<1> QED
  BY <1>1, <1>3, <1>4, <1>5 DEF g

\* With a free slot, the new entry goes last and the others stay.
LEMMA PutRing ==
  ASSUME NEW S, NEW r, RingOf(r, S), r.len < r.cap, NEW x \in S
  PROVE  /\ RingOf(Put(r, x), S) /\ Put(r, x).len = r.len + 1
         /\ Entry(Put(r, x), r.len) = x
         /\ \A i \in 0 .. r.len - 1 : Entry(Put(r, x), i) = Entry(r, i)
<1> DEFINE p == Put(r, x)
           slot == (r.head + r.len) % r.cap
<1>1. /\ r.cap \in Nat \ {0} /\ r.len \in 0 .. r.cap - 1 /\ r.head \in 0 .. r.cap - 1
      /\ r = [buf |-> r.buf, head |-> r.head, len |-> r.len, cap |-> r.cap]
      /\ r.buf = [i \in 0 .. r.cap - 1 |-> r.buf[i]]
  BY DEF RingOf
<1>2. slot \in 0 .. r.cap - 1
  BY <1>1
<1> HIDE DEF slot
<1>3. p = [buf |-> [r.buf EXCEPT ![slot] = x], head |-> r.head, len |-> r.len + 1, cap |-> r.cap]
  <2>1. p = [r EXCEPT !.buf = [r.buf EXCEPT ![slot] = x], !.len = r.len + 1]
    BY DEF Put, slot
  <2> HIDE DEF p
  <2> QED
    BY <1>1, <2>1
<1> HIDE DEF p
<1>4. /\ p.cap = r.cap /\ p.len = r.len + 1 /\ p.head = r.head
      /\ p.buf = [i \in 0 .. r.cap - 1 |-> IF i = slot THEN x ELSE r.buf[i]]
  BY <1>1, <1>2, <1>3
<1>5. Entry(p, r.len) = x
  BY <1>2, <1>4 DEF Entry, slot
<1>6. ASSUME NEW i \in 0 .. r.len - 1
      PROVE  Entry(p, i) = Entry(r, i)
  <2>1. i \in 0 .. r.cap - 1 /\ i # r.len
    BY <1>1
  <2>2. (r.head + i) % r.cap # slot
    BY <1>1, <2>1, SlotsDiffer DEF slot
  <2>3. (r.head + i) % r.cap \in 0 .. r.cap - 1
    BY <1>1
  <2> QED
    BY <1>4, <2>2, <2>3 DEF Entry
<1>7. \A i \in 0 .. r.len : Entry(p, i) \in S
  BY <1>1, <1>5, <1>6 DEF RingOf
<1>8. p = [buf |-> [i \in 0 .. p.cap - 1 |-> p.buf[i]], head |-> p.head, len |-> p.len, cap |-> p.cap]
  BY <1>3, <1>4
<1>9. RingOf(p, S)
  BY <1>1, <1>4, <1>7, <1>8 DEF RingOf
<1> QED
  BY <1>4, <1>5, <1>6, <1>9 DEF p

\* A push appends.
LEMMA PushRing ==
  ASSUME NEW S, NEW r, RingOf(r, S), NEW x \in S
  PROVE  RingOf(Push(r, x), S) /\ Contents(Push(r, x)) = Append(Contents(r), x)
<1>1. PICK q : /\ RingOf(q, S) /\ q.len = r.len /\ q.len < q.cap /\ Push(r, x) = Put(q, x)
               /\ \A i \in 0 .. r.len - 1 : Entry(q, i) = Entry(r, i)
  <2>1. CASE r.len = r.cap
    BY <2>1, GrownRing DEF Push
  <2>2. CASE r.len # r.cap
    <3>1. r.len < r.cap
      BY <2>2 DEF RingOf
    <3> QED
      BY <2>2, <3>1 DEF Push
  <2> QED
    BY <2>1, <2>2
<1> DEFINE p == Put(q, x)
<1>2. /\ RingOf(p, S) /\ p.len = r.len + 1 /\ Entry(p, r.len) = x
      /\ \A i \in 0 .. r.len - 1 : Entry(p, i) = Entry(r, i)
  BY <1>1, PutRing
<1> HIDE DEF p
<1>3. /\ Contents(p) \in Seq(S) /\ Len(Contents(p)) = r.len + 1
      /\ \A i \in 1 .. r.len + 1 : Contents(p)[i] = Entry(p, i - 1)
  BY <1>2, ContentsOf
<1>4. /\ Contents(r) \in Seq(S) /\ Len(Contents(r)) = r.len /\ r.len \in Nat
      /\ \A i \in 1 .. r.len : Contents(r)[i] = Entry(r, i - 1)
  BY ContentsOf
<1> DEFINE s == Append(Contents(r), x)
<1>5. /\ s \in Seq(S) /\ Len(s) = r.len + 1 /\ s[r.len + 1] = x
      /\ \A i \in 1 .. r.len : s[i] = Contents(r)[i]
  BY <1>4
<1> HIDE DEF s
<1>6. ASSUME NEW i \in 1 .. r.len + 1
      PROVE  Contents(p)[i] = s[i]
  <2>1. CASE i = r.len + 1
    BY <1>2, <1>3, <1>4, <1>5, <2>1
  <2>2. CASE i \in 1 .. r.len
    BY <1>2, <1>3, <1>4, <1>5, <2>2
  <2> QED
    BY <1>4, <2>1, <2>2
<1>7. Contents(p) = s
  BY <1>3, <1>5, <1>6, SeqEqual
<1> QED
  BY <1>1, <1>2, <1>7 DEF p, s

\* Dropping takes entries off the front.
LEMMA DropRing ==
  ASSUME NEW S, NEW r, RingOf(r, S), NEW n \in 0 .. r.len
  PROVE  /\ RingOf(Drop(r, n), S)
         /\ Contents(Drop(r, n)) = SubSeq(Contents(r), n + 1, Len(Contents(r)))
<1>0. /\ Contents(r) \in Seq(S) /\ Len(Contents(r)) = r.len /\ r.len \in Nat
      /\ \A i \in 1 .. r.len : Contents(r)[i] = Entry(r, i - 1)
  BY ContentsOf
<1> DEFINE d == Drop(r, n)
           s == SubSeq(Contents(r), n + 1, Len(Contents(r)))
<1>1. /\ s \in Seq(S) /\ Len(s) = r.len - n
      /\ \A i \in 1 .. r.len - n : s[i] = Contents(r)[n + i]
  BY <1>0, Queue!Dropped
<1> HIDE DEF s
<1>2. RingOf(d, S) /\ d.len = r.len - n /\ \A i \in 0 .. d.len - 1 : Entry(d, i) = Entry(r, n + i)
  <2>1. CASE n = 0
    <3>1. d = r
      BY <2>1 DEF Drop
    <3> QED
      BY <1>0, <2>1, <3>1
  <2>2. CASE n # 0
    <3>1. /\ r.cap \in Nat \ {0} /\ r.len \in 0 .. r.cap /\ r.head \in 0 .. r.cap - 1
          /\ r = [buf |-> r.buf, head |-> r.head, len |-> r.len, cap |-> r.cap]
          /\ r.buf = [i \in 0 .. r.cap - 1 |-> r.buf[i]]
      BY <2>2 DEF RingOf
    <3> DEFINE h == (r.head + n) % r.cap
    <3>2. n \in 0 .. r.cap /\ r.len - n \in 0 .. r.cap
      BY <3>1
    <3>3. d = [buf |-> r.buf, head |-> h, len |-> r.len - n, cap |-> r.cap]
      BY <2>2, <3>1 DEF Drop
    <3> HIDE DEF h, d
    <3>4. ASSUME NEW i \in 0 .. r.len - n - 1
          PROVE  Entry(d, i) = Entry(r, n + i)
      <4>1. i \in 0 .. r.cap - n - 1
        BY <3>1, <3>2
      <4>2. (h + i) % r.cap = (r.head + (n + i)) % r.cap
        BY <3>1, <3>2, <4>1, WrappedTwice DEF h
      <4> QED
        BY <3>3, <4>2 DEF Entry
    <3>5. \A i \in 0 .. r.len - n - 1 : Entry(r, n + i) \in S
      BY <3>1 DEF RingOf
    <3>6. d = [buf |-> [i \in 0 .. d.cap - 1 |-> d.buf[i]], head |-> d.head, len |-> d.len, cap |-> d.cap]
      BY <3>1, <3>3
    <3>7. h \in 0 .. r.cap - 1
      BY <3>1 DEF h
    <3>8. \A i \in 0 .. d.len - 1 : Entry(d, i) \in S
      BY <3>3, <3>4, <3>5
    <3>9. RingOf(d, S)
      BY <3>1, <3>2, <3>3, <3>6, <3>7, <3>8 DEF RingOf
    <3> QED
      BY <3>3, <3>4, <3>9
  <2> QED
    BY <2>1, <2>2
<1> HIDE DEF d
<1>3. /\ Contents(d) \in Seq(S) /\ Len(Contents(d)) = r.len - n
      /\ \A i \in 1 .. r.len - n : Contents(d)[i] = Entry(d, i - 1)
  BY <1>2, ContentsOf
<1>4. ASSUME NEW i \in 1 .. r.len - n
      PROVE  Contents(d)[i] = s[i]
  <2>1. i - 1 \in 0 .. d.len - 1 /\ n + i \in 1 .. r.len /\ n + i - 1 = n + (i - 1)
    BY <1>0, <1>2
  <2> QED
    BY <1>0, <1>1, <1>2, <1>3, <2>1
<1>5. Contents(d) = s
  BY <1>1, <1>3, <1>4, SeqEqual
<1> QED
  BY <1>2, <1>5 DEF d, s

-----------------------------------------------------------------------------
(* The queue of tasks. *)

\* The interpreter's queue and channels, seen through the rings.
tasks == Contents(g_tasks)
messages == [c \in Chans |-> Contents(chan[c])]

LEMMA QueuedFacts ==
  ASSUME RingInv
  PROVE  /\ tasks \in Seq(Tasks) /\ Len(tasks) = g_tasks.len /\ g_tasks.len \in Nat
         /\ \A i \in 1 .. g_tasks.len : tasks[i] = Queued(i)
BY ContentsOf DEF RingInv, tasks, Queued

LEMMA FirstPendingSame ==
  ASSUME RingInv, NEW i \in 1 .. g_tasks.len
  PROVE  FirstPending(i) <=> Interpreter!FirstPending(i)
<1>1. i - 1 < g_tasks.len /\ \A j \in 1 .. i - 1 : j \in 1 .. g_tasks.len
  BY QueuedFacts
<1>2. tasks[i] = Queued(i) /\ \A j \in 1 .. i - 1 : tasks[j] = Queued(j)
  BY <1>1, QueuedFacts
<1> QED
  BY <1>2 DEF FirstPending, Interpreter!FirstPending, tasks

LEMMA RunNextTaskSame ==
  ASSUME RingInv, run_next_task
  PROVE  Interpreter!run_next_task /\ RingOf(g_tasks', Tasks)
<1>1. PICK i \in 1 .. g_tasks.len :
        FirstPending(i) /\ g_tasks' = Drop(g_tasks, i) /\ task_exec(Queued(i))
  BY DEF run_next_task
<1>2. i \in 0 .. g_tasks.len /\ i \in 1 .. Len(tasks) /\ tasks[i] = Queued(i)
  BY QueuedFacts
<1>3. RingOf(g_tasks', Tasks) /\ Contents(g_tasks') = SubSeq(tasks, i + 1, Len(tasks))
  BY <1>1, <1>2, DropRing DEF RingInv, tasks
<1>4. Interpreter!FirstPending(i)
  BY <1>1, FirstPendingSame
<1>5. Interpreter!run_task(tasks[i])
  BY <1>1, <1>2 DEF task_exec, Interpreter!run_task
<1> QED
  BY <1>2, <1>3, <1>4, <1>5 DEF Interpreter!run_next_task, tasks

LEMMA NoTaskLeftSame ==
  ASSUME RingInv, NoTaskLeft
  PROVE  Interpreter!NoTaskLeft /\ RingOf(g_tasks', Tasks)
<1>1. g_tasks.len \in 0 .. g_tasks.len
  BY QueuedFacts
<1>2. RingOf(g_tasks', Tasks) /\ Contents(g_tasks') = SubSeq(tasks, Len(tasks) + 1, Len(tasks))
  BY <1>1, QueuedFacts, DropRing DEF RingInv, tasks, NoTaskLeft
<1>3. Contents(g_tasks') = <<>>
  <2>1. Len(tasks) \in Nat /\ Len(tasks) \in 0 .. Len(tasks) /\ Len(tasks) - Len(tasks) = 0
    BY QueuedFacts
  <2>2. Contents(g_tasks') \in Seq(Tasks) /\ Len(Contents(g_tasks')) = 0
    BY <1>2, <2>1, QueuedFacts, Queue!Dropped
  <2> QED
    BY <2>2, EmptySeq
<1>4. \A i \in 1 .. Len(tasks) : state[tasks[i]] # "pending"
  BY QueuedFacts DEF NoTaskLeft
<1> QED
  BY <1>2, <1>3, <1>4 DEF NoTaskLeft, Interpreter!NoTaskLeft, tasks

-----------------------------------------------------------------------------
(* Every step keeps RingInv and is a step of the interpreter. *)

\* A step that touches no ring.
LEMMA RingsKept ==
  ASSUME RingInv, UNCHANGED <<g_tasks, chan>>
  PROVE  /\ RingOf(g_tasks', Tasks)
         /\ chan' = [c \in Chans |-> chan'[c]] /\ \A c \in Chans : RingOf(chan'[c], Msgs)
         /\ tasks' = tasks /\ messages' = messages
BY DEF RingInv, tasks, messages

LEMMA SpawnSame ==
  ASSUME RingInv, NEW a \in Activities, NEW t \in Tasks, spawn_task(a, t)
  PROVE  RingInv' /\ Interpreter!Spawn(a, t)
<1>1. /\ UNCHANGED <<stack, pc, from, got, chan, version, reads, writes, watch, fault>>
      /\ g_tasks' = Push(g_tasks, t)
  BY DEF spawn_task, stm
<1>2. RingOf(g_tasks', Tasks) /\ tasks' = Append(tasks, t) /\ messages' = messages
  BY <1>1, PushRing DEF RingInv, tasks, messages
<1>3. RingInv'
  BY <1>1, <1>2 DEF RingInv
<1>4. Interpreter!Spawn(a, t)
  BY <1>1, <1>2 DEF spawn_task, Interpreter!Spawn, At, Interpreter!At, Top, Interpreter!Top,
       Interpreter!stm, tasks, messages
<1> QED
  BY <1>3, <1>4

LEMMA SendSame ==
  ASSUME RingInv, NEW a \in Activities, NEW c \in Chans, NEW m \in Msgs, THxCHAN_send(a, c, m)
  PROVE  RingInv' /\ Interpreter!ChanSend(a, c, m)
<1>0. /\ UNCHANGED <<g_tasks, state, stack, pc, from, got, version, reads, writes, watch, fault>>
      /\ chan' = [chan EXCEPT ![c] = Push(chan[c], m)] /\ chan[c].cap < MaxLen
  BY DEF THxCHAN_send, queues, stm
<1>1. RingOf(chan[c], Msgs) /\ chan = [d \in Chans |-> chan[d]]
  BY DEF RingInv
<1>2. RingOf(Push(chan[c], m), Msgs) /\ Contents(Push(chan[c], m)) = Append(Contents(chan[c]), m)
  BY <1>1, PushRing
<1>3. chan' = [d \in Chans |-> IF d = c THEN Push(chan[c], m) ELSE chan[d]]
  BY <1>0, <1>1
<1>4. chan' = [d \in Chans |-> chan'[d]] /\ \A d \in Chans : RingOf(chan'[d], Msgs)
  BY <1>2, <1>3 DEF RingInv
<1>5. RingInv'
  BY <1>0, <1>4 DEF RingInv
<1>6. messages' = [messages EXCEPT ![c] = Append(messages[c], m)] /\ tasks' = tasks
  BY <1>0, <1>2, <1>3 DEF messages, tasks
<1>7. Len(messages[c]) < MaxLen
  <2>1. Len(Contents(chan[c])) = chan[c].len
    BY <1>1, ContentsOf
  <2>2. chan[c].len \in 0 .. chan[c].cap /\ chan[c].cap \in Nat /\ MaxLen \in Nat
    BY <1>1, RingAssumption DEF RingOf
  <2>3. messages[c] = Contents(chan[c])
    BY DEF messages
  <2> QED
    BY <1>0, <2>1, <2>2, <2>3
<1>8. Interpreter!ChanSend(a, c, m)
  BY <1>0, <1>6, <1>7 DEF THxCHAN_send, Interpreter!ChanSend, At, Interpreter!At, Top, Interpreter!Top, Goto, Interpreter!Goto,
       queues, stm, Interpreter!queues, Interpreter!stm, Activities, Interpreter!Activities, tasks, messages
<1> QED
  BY <1>5, <1>8

LEMMA TakeSame ==
  ASSUME RingInv, NEW a \in Activities, RecvTake(a)
  PROVE  RingInv' /\ Interpreter!RecvTake(a)
<1> DEFINE c == from[a]
<1>0. /\ UNCHANGED <<g_tasks, state, stack, version, reads, writes, watch, fault>>
      /\ chan' = [chan EXCEPT ![c] = Drop(chan[c], 1)] /\ chan[c].len > 0
      /\ got' = Entry(chan[c], 0) /\ At(a, "recv") /\ Goto(a, "body")
      /\ from' = [from EXCEPT ![a] = None]
  BY DEF RecvTake, queues, stm
<1>1. c \in Chans
  BY <1>0 DEF RingInv, At
<1> HIDE DEF c
<1>2. RingOf(chan[c], Msgs) /\ chan = [d \in Chans |-> chan[d]] /\ 1 \in 0 .. chan[c].len
  BY <1>0, <1>1 DEF RingInv, RingOf
<1> DEFINE s == Contents(chan[c])
<1>3. RingOf(Drop(chan[c], 1), Msgs) /\ Contents(Drop(chan[c], 1)) = SubSeq(s, 2, Len(s))
  <2>1. RingOf(Drop(chan[c], 1), Msgs) /\ Contents(Drop(chan[c], 1)) = SubSeq(s, 1 + 1, Len(s))
    BY <1>2, DropRing
  <2> HIDE DEF s
  <2> QED
    BY <2>1
<1>4. s \in Seq(Msgs) /\ Len(s) = chan[c].len /\ Len(s) \in Nat /\ s[1] = Entry(chan[c], 0) /\ s # <<>>
  <2>1. s \in Seq(Msgs) /\ Len(s) = chan[c].len /\ Len(s) \in Nat
        /\ \A i \in 1 .. Len(s) : s[i] = Entry(chan[c], i - 1)
    BY <1>2, ContentsOf
  <2> HIDE DEF s
  <2> QED
    BY <1>0, <2>1
<1> HIDE DEF s
<1>5. Head(s) = Entry(chan[c], 0) /\ Tail(s) = SubSeq(s, 2, Len(s))
  <2>1. Head(s) = s[1]
    BY <1>4
  <2>2. Tail(s) \in Seq(Msgs) /\ Len(Tail(s)) = Len(s) - 1 /\ \A i \in 1 .. Len(s) - 1 : Tail(s)[i] = s[i + 1]
    BY <1>4
  <2>3. 1 \in 0 .. Len(s)
    BY <1>0, <1>4
  <2>4. LET d == SubSeq(s, 1 + 1, Len(s))
        IN  d \in Seq(Msgs) /\ Len(d) = Len(s) - 1 /\ \A j \in 1 .. Len(s) - 1 : d[j] = s[1 + j]
    BY <1>4, <2>3, Queue!Dropped
  <2>5. \A i \in 1 .. Len(s) - 1 : Tail(s)[i] = SubSeq(s, 1 + 1, Len(s))[i]
    BY <1>4, <2>2, <2>4
  <2>6. Tail(s) = SubSeq(s, 1 + 1, Len(s))
    BY <2>2, <2>4, <2>5, SeqEqual
  <2> QED
    BY <1>4, <2>1, <2>6
<1>6. chan' = [d \in Chans |-> IF d = c THEN Drop(chan[c], 1) ELSE chan[d]]
  BY <1>0, <1>2
<1>7. chan' = [d \in Chans |-> chan'[d]] /\ \A d \in Chans : RingOf(chan'[d], Msgs)
  BY <1>3, <1>6 DEF RingInv
<1>8. /\ DOMAIN pc' = Activities /\ DOMAIN from' = Activities
      /\ \A b \in Activities : pc'[b] = "recv" => from'[b] \in Chans
  BY <1>0 DEF RingInv, Goto
<1>9. RingInv'
  BY <1>0, <1>7, <1>8 DEF RingInv
<1>10. messages' = [messages EXCEPT ![c] = Tail(messages[c])] /\ tasks' = tasks /\ messages[c] = s
  BY <1>0, <1>1, <1>3, <1>5, <1>6 DEF messages, tasks, s
<1>11. Interpreter!RecvTake(a)
  BY <1>0, <1>4, <1>5, <1>10 DEF c, Interpreter!RecvTake, At, Interpreter!At, Top, Interpreter!Top, Goto, Interpreter!Goto,
       queues, stm, Interpreter!queues, Interpreter!stm, Activities, Interpreter!Activities, tasks, messages
<1> QED
  BY <1>9, <1>11

LEMMA CommitSame ==
  ASSUME RingInv, NEW a \in Activities, THxSTM_commit(a)
  PROVE  RingInv' /\ Interpreter!StmCommit(a)
<1>0. /\ UNCHANGED <<g_tasks, state, stack, from, got, chan, watch, fault>>
      /\ version' = IF Unchanged(reads, version) THEN Committed ELSE version
      /\ At(a, "tx") /\ Goto(a, IF Unchanged(reads, version) THEN "body" ELSE "begin")
      /\ reads' = <<>> /\ writes' = <<>>
  BY DEF THxSTM_commit, queues
<1>1. version \in [TVars -> Nat]
  BY DEF RingInv
<1>2. Unchanged(reads, version) <=> Interpreter!Unchanged(reads)
  BY DEF Unchanged, Interpreter!Unchanged
<1>3. Committed = [tv \in TVars |-> IF tv \in Interpreter!Written THEN version[tv] + 1 ELSE version[tv]]
  <2>1. Written = Interpreter!Written
    BY DEF Written, Interpreter!Written
  <2>2. \A tv \in TVars : version[tv] \in Nat /\ version[tv] + 0 = version[tv]
    BY <1>1
  <2> QED
    BY <2>1, <2>2 DEF Committed
<1>4. version' = [tv \in TVars |-> IF Interpreter!Unchanged(reads) /\ tv \in Interpreter!Written
                                    THEN version[tv] + 1 ELSE version[tv]]
  BY <1>0, <1>1, <1>2, <1>3
<1>5. version' \in [TVars -> Nat]
  BY <1>1, <1>4
<1>6. /\ RingOf(g_tasks', Tasks)
      /\ chan' = [c \in Chans |-> chan'[c]] /\ \A c \in Chans : RingOf(chan'[c], Msgs)
      /\ tasks' = tasks /\ messages' = messages
  BY <1>0, RingsKept
<1>7. /\ DOMAIN pc' = Activities /\ DOMAIN from' = Activities
      /\ \A b \in Activities : pc'[b] = "recv" => from'[b] \in Chans
  BY <1>0 DEF RingInv, Goto
<1>8. RingInv'
  BY <1>5, <1>6, <1>7 DEF RingInv
<1>9. Interpreter!StmCommit(a)
  BY <1>0, <1>2, <1>4, <1>6 DEF Interpreter!StmCommit, At, Interpreter!At, Top, Interpreter!Top, Goto, Interpreter!Goto,
       queues, stm, Interpreter!queues, Interpreter!stm, Activities, Interpreter!Activities, tasks, messages
<1> QED
  BY <1>8, <1>9

\* What an activity waits for has not happened, in both.
LEMMA BlockedSame ==
  ASSUME RingInv, NEW a \in Activities, Blocked(a)
  PROVE  Interpreter!Blocked(a)
<1>1. CASE At(a, "recv") /\ chan[from[a]].len = 0
  <2>1. RingOf(chan[from[a]], Msgs) /\ messages[from[a]] = Contents(chan[from[a]])
    BY <1>1 DEF RingInv, At, messages
  <2>2. Contents(chan[from[a]]) \in Seq(Msgs) /\ Len(Contents(chan[from[a]])) = 0
    BY <1>1, <2>1, ContentsOf
  <2>3. messages[from[a]] = <<>>
    BY <2>1, <2>2, EmptySeq
  <2> QED
    BY <1>1, <2>3 DEF Interpreter!Blocked, At, Interpreter!At, Top, Interpreter!Top, Goto, Interpreter!Goto,
       queues, stm, Interpreter!queues, Interpreter!stm, Activities, Interpreter!Activities, tasks, messages
<1>2. CASE At(a, "wait") /\ Unchanged(watch[a], version)
  BY <1>2 DEF Unchanged, Interpreter!Unchanged, Interpreter!Blocked, At, Interpreter!At, Top, Interpreter!Top
<1>3. CASE At(a, "finish")
  BY <1>3 DEF Interpreter!Blocked, At, Interpreter!At, Top, Interpreter!Top
<1> QED
  BY <1>1, <1>2, <1>3 DEF Blocked

LEMMA HelpSame ==
  ASSUME RingInv, NEW a \in Activities, Help(a)
  PROVE  RingInv' /\ Interpreter!Help(a)
<1>1. UNCHANGED <<pc, from, got, chan, version, reads, writes, watch, fault>>
  BY DEF Help, stm
<1>2. Interpreter!run_next_task /\ RingOf(g_tasks', Tasks)
  BY RunNextTaskSame DEF Help
<1>3. RingInv'
  BY <1>1, <1>2 DEF RingInv
<1>4. Interpreter!Blocked(a)
  BY BlockedSame DEF Help
<1> QED
  BY <1>1, <1>2, <1>3, <1>4 DEF Interpreter!Help, Interpreter!stm

LEMMA GiveUpSame ==
  ASSUME RingInv, NEW a \in Activities, GiveUp(a)
  PROVE  RingInv' /\ Interpreter!GiveUp(a)
<1>1. UNCHANGED <<from, got, chan, version, reads, writes, watch>>
  BY DEF GiveUp, stm
<1>2. Interpreter!NoTaskLeft /\ RingOf(g_tasks', Tasks)
  BY NoTaskLeftSame DEF GiveUp
<1>3. DOMAIN pc' = Activities /\ \A b \in Activities : pc'[b] = "recv" => from'[b] \in Chans
  BY <1>1 DEF RingInv, GiveUp, Goto
<1>4. RingInv'
  BY <1>1, <1>2, <1>3 DEF RingInv
<1>5. Interpreter!Blocked(a)
  BY BlockedSame DEF GiveUp
<1>6. Interpreter!GiveUp(a)
  BY <1>1, <1>2, <1>5 DEF GiveUp, Interpreter!GiveUp, Interpreter!stm, Goto, Interpreter!Goto
<1> QED
  BY <1>4, <1>6

LEMMA AwaitSame ==
  ASSUME RingInv, NEW a \in Activities, NEW t \in Tasks, THxPAR_await(a, t)
  PROVE  RingInv' /\ Interpreter!Await(a, t)
<1>1. UNCHANGED <<g_tasks, chan>>
  BY DEF THxPAR_await, queues
<1>2. /\ RingOf(g_tasks', Tasks)
      /\ chan' = [c \in Chans |-> chan'[c]] /\ \A c \in Chans : RingOf(chan'[c], Msgs)
      /\ tasks' = tasks /\ messages' = messages
  BY <1>1, RingsKept
<1>3. /\ DOMAIN pc' = Activities /\ DOMAIN from' = Activities
      /\ \A b \in Activities : pc'[b] = "recv" => from'[b] \in Chans
  BY DEF RingInv, THxPAR_await, Goto
<1>4. version' \in [TVars -> Nat]
  BY DEF RingInv, THxPAR_await, stm
<1>5. RingInv'
  BY <1>2, <1>3, <1>4 DEF RingInv
<1>6. Interpreter!Await(a, t)
  BY <1>2 DEF THxPAR_await, Interpreter!Await, At, Interpreter!At, Top, Interpreter!Top, Goto, Interpreter!Goto, queues, stm, Interpreter!queues, Interpreter!stm, Activities, Interpreter!Activities, tasks, messages, task_exec, Interpreter!run_task
<1> QED
  BY <1>5, <1>6

LEMMA DoneSame ==
  ASSUME RingInv, NEW a \in Activities, TaskDone(a)
  PROVE  RingInv' /\ Interpreter!Return(a)
<1>1. UNCHANGED <<g_tasks, chan>>
  BY DEF TaskDone, queues
<1>2. /\ RingOf(g_tasks', Tasks)
      /\ chan' = [c \in Chans |-> chan'[c]] /\ \A c \in Chans : RingOf(chan'[c], Msgs)
      /\ tasks' = tasks /\ messages' = messages
  BY <1>1, RingsKept
<1>3. /\ DOMAIN pc' = Activities /\ DOMAIN from' = Activities
      /\ \A b \in Activities : pc'[b] = "recv" => from'[b] \in Chans
  BY DEF RingInv, TaskDone, Goto
<1>4. version' \in [TVars -> Nat]
  BY DEF RingInv, TaskDone, stm
<1>5. RingInv'
  BY <1>2, <1>3, <1>4 DEF RingInv
<1>6. Interpreter!Return(a)
  BY <1>2 DEF TaskDone, Interpreter!Return, At, Interpreter!At, Top, Interpreter!Top, Goto, Interpreter!Goto, queues, stm, Interpreter!queues, Interpreter!stm, Activities, Interpreter!Activities, tasks, messages
<1> QED
  BY <1>5, <1>6

LEMMA RecvSame ==
  ASSUME RingInv, NEW a \in Activities, NEW c \in Chans, THxCHAN_recv(a, c)
  PROVE  RingInv' /\ Interpreter!ChanRecv(a, c)
<1>1. UNCHANGED <<g_tasks, chan>>
  BY DEF THxCHAN_recv, queues
<1>2. /\ RingOf(g_tasks', Tasks)
      /\ chan' = [d \in Chans |-> chan'[d]] /\ \A d \in Chans : RingOf(chan'[d], Msgs)
      /\ tasks' = tasks /\ messages' = messages
  BY <1>1, RingsKept
<1>3. /\ DOMAIN pc' = Activities /\ DOMAIN from' = Activities
      /\ \A b \in Activities : pc'[b] = "recv" => from'[b] \in Chans
  BY DEF RingInv, THxCHAN_recv, Goto
<1>4. version' \in [TVars -> Nat]
  BY DEF RingInv, THxCHAN_recv, stm
<1>5. RingInv'
  BY <1>2, <1>3, <1>4 DEF RingInv
<1>6. Interpreter!ChanRecv(a, c)
  BY <1>2 DEF THxCHAN_recv, Interpreter!ChanRecv, At, Interpreter!At, Top, Interpreter!Top, Goto, Interpreter!Goto, queues, stm, Interpreter!queues, Interpreter!stm, Activities, Interpreter!Activities, tasks, messages
<1> QED
  BY <1>5, <1>6

LEMMA BeginSame ==
  ASSUME RingInv, NEW a \in Activities, THxSTM_begin(a)
  PROVE  RingInv' /\ Interpreter!StmBegin(a)
<1>1. UNCHANGED <<g_tasks, chan>>
  BY DEF THxSTM_begin, queues
<1>2. /\ RingOf(g_tasks', Tasks)
      /\ chan' = [c \in Chans |-> chan'[c]] /\ \A c \in Chans : RingOf(chan'[c], Msgs)
      /\ tasks' = tasks /\ messages' = messages
  BY <1>1, RingsKept
<1>3. /\ DOMAIN pc' = Activities /\ DOMAIN from' = Activities
      /\ \A b \in Activities : pc'[b] = "recv" => from'[b] \in Chans
  BY DEF RingInv, THxSTM_begin, Goto
<1>4. version' \in [TVars -> Nat]
  BY DEF RingInv, THxSTM_begin, stm
<1>5. RingInv'
  BY <1>2, <1>3, <1>4 DEF RingInv
<1>6. Interpreter!StmBegin(a)
  BY <1>2 DEF THxSTM_begin, Interpreter!StmBegin, At, Interpreter!At, Top, Interpreter!Top, Goto, Interpreter!Goto, queues, stm, Interpreter!queues, Interpreter!stm, Activities, Interpreter!Activities, tasks, messages
<1> QED
  BY <1>5, <1>6

LEMMA ReadSame ==
  ASSUME RingInv, NEW a \in Activities, NEW tv \in TVars, THxSTM_read(a, tv)
  PROVE  RingInv' /\ Interpreter!StmRead(a, tv)
<1>1. UNCHANGED <<g_tasks, chan>>
  BY DEF THxSTM_read, queues
<1>2. /\ RingOf(g_tasks', Tasks)
      /\ chan' = [c \in Chans |-> chan'[c]] /\ \A c \in Chans : RingOf(chan'[c], Msgs)
      /\ tasks' = tasks /\ messages' = messages
  BY <1>1, RingsKept
<1>3. /\ DOMAIN pc' = Activities /\ DOMAIN from' = Activities
      /\ \A b \in Activities : pc'[b] = "recv" => from'[b] \in Chans
  BY DEF RingInv, THxSTM_read, Goto
<1>4. version' \in [TVars -> Nat]
  BY DEF RingInv, THxSTM_read, stm
<1>5. RingInv'
  BY <1>2, <1>3, <1>4 DEF RingInv
<1>6. Interpreter!StmRead(a, tv)
  BY <1>2 DEF THxSTM_read, Interpreter!StmRead, At, Interpreter!At, Top, Interpreter!Top, Goto, Interpreter!Goto, queues, stm, Interpreter!queues, Interpreter!stm, Activities, Interpreter!Activities, tasks, messages, Written, Interpreter!Written
<1> QED
  BY <1>5, <1>6

LEMMA WriteSame ==
  ASSUME RingInv, NEW a \in Activities, NEW tv \in TVars, THxSTM_write(a, tv)
  PROVE  RingInv' /\ Interpreter!StmWrite(a, tv)
<1>1. UNCHANGED <<g_tasks, chan>>
  BY DEF THxSTM_write, queues
<1>2. /\ RingOf(g_tasks', Tasks)
      /\ chan' = [c \in Chans |-> chan'[c]] /\ \A c \in Chans : RingOf(chan'[c], Msgs)
      /\ tasks' = tasks /\ messages' = messages
  BY <1>1, RingsKept
<1>3. /\ DOMAIN pc' = Activities /\ DOMAIN from' = Activities
      /\ \A b \in Activities : pc'[b] = "recv" => from'[b] \in Chans
  BY DEF RingInv, THxSTM_write, Goto
<1>4. version' \in [TVars -> Nat]
  BY DEF RingInv, THxSTM_write, stm
<1>5. RingInv'
  BY <1>2, <1>3, <1>4 DEF RingInv
<1>6. Interpreter!StmWrite(a, tv)
  BY <1>2 DEF THxSTM_write, Interpreter!StmWrite, At, Interpreter!At, Top, Interpreter!Top, Goto, Interpreter!Goto, queues, stm, Interpreter!queues, Interpreter!stm, Activities, Interpreter!Activities, tasks, messages
<1> QED
  BY <1>5, <1>6

LEMMA WaitSame ==
  ASSUME RingInv, NEW a \in Activities, THxSTM_wait(a)
  PROVE  RingInv' /\ Interpreter!StmWait(a)
<1>1. UNCHANGED <<g_tasks, chan>>
  BY DEF THxSTM_wait, queues
<1>2. /\ RingOf(g_tasks', Tasks)
      /\ chan' = [c \in Chans |-> chan'[c]] /\ \A c \in Chans : RingOf(chan'[c], Msgs)
      /\ tasks' = tasks /\ messages' = messages
  BY <1>1, RingsKept
<1>3. /\ DOMAIN pc' = Activities /\ DOMAIN from' = Activities
      /\ \A b \in Activities : pc'[b] = "recv" => from'[b] \in Chans
  BY DEF RingInv, THxSTM_wait, Goto
<1>4. version' \in [TVars -> Nat]
  BY DEF RingInv, THxSTM_wait, stm
<1>5. RingInv'
  BY <1>2, <1>3, <1>4 DEF RingInv
<1>6. Interpreter!StmWait(a)
  BY <1>2 DEF THxSTM_wait, Interpreter!StmWait, At, Interpreter!At, Top, Interpreter!Top, Goto, Interpreter!Goto, queues, stm, Interpreter!queues, Interpreter!stm, Activities, Interpreter!Activities, tasks, messages
<1> QED
  BY <1>5, <1>6

LEMMA WaitOverSame ==
  ASSUME RingInv, NEW a \in Activities, WaitOver(a)
  PROVE  RingInv' /\ Interpreter!WaitOver(a)
<1>1. UNCHANGED <<g_tasks, chan>>
  BY DEF WaitOver, queues
<1>2. /\ RingOf(g_tasks', Tasks)
      /\ chan' = [c \in Chans |-> chan'[c]] /\ \A c \in Chans : RingOf(chan'[c], Msgs)
      /\ tasks' = tasks /\ messages' = messages
  BY <1>1, RingsKept
<1>3. /\ DOMAIN pc' = Activities /\ DOMAIN from' = Activities
      /\ \A b \in Activities : pc'[b] = "recv" => from'[b] \in Chans
  BY DEF RingInv, WaitOver, Goto
<1>4. version' \in [TVars -> Nat]
  BY DEF RingInv, WaitOver, stm
<1>5. RingInv'
  BY <1>2, <1>3, <1>4 DEF RingInv
<1>6. Interpreter!WaitOver(a)
  BY <1>2 DEF WaitOver, Interpreter!WaitOver, At, Interpreter!At, Top, Interpreter!Top, Goto, Interpreter!Goto, queues, stm, Interpreter!queues, Interpreter!stm, Activities, Interpreter!Activities, tasks, messages, Unchanged, Interpreter!Unchanged
<1> QED
  BY <1>5, <1>6

LEMMA MainReturnsSame ==
  ASSUME RingInv, MainReturns
  PROVE  RingInv' /\ Interpreter!MainReturns
<1>1. UNCHANGED <<g_tasks, chan>>
  BY DEF MainReturns, queues
<1>2. /\ RingOf(g_tasks', Tasks)
      /\ chan' = [c \in Chans |-> chan'[c]] /\ \A c \in Chans : RingOf(chan'[c], Msgs)
      /\ tasks' = tasks /\ messages' = messages
  BY <1>1, RingsKept
<1>3. /\ DOMAIN pc' = Activities /\ DOMAIN from' = Activities
      /\ \A b \in Activities : pc'[b] = "recv" => from'[b] \in Chans
  BY DEF RingInv, MainReturns, Goto
<1>4. version' \in [TVars -> Nat]
  BY DEF RingInv, MainReturns, stm
<1>5. RingInv'
  BY <1>2, <1>3, <1>4 DEF RingInv
<1>6. Interpreter!MainReturns
  BY <1>2 DEF MainReturns, Interpreter!MainReturns, At, Interpreter!At, Top, Interpreter!Top, Goto, Interpreter!Goto, queues, stm, Interpreter!queues, Interpreter!stm, Activities, Interpreter!Activities, tasks, messages
<1> QED
  BY <1>5, <1>6

LEMMA NextSame ==
  ASSUME RingInv, [Next]_vars
  PROVE  RingInv' /\ [Interpreter!Next]_(Interpreter!vars)
<1>1. CASE UNCHANGED vars
  BY <1>1 DEF RingInv, vars, Interpreter!vars
<1>2. CASE MainReturns
  BY <1>2, MainReturnsSame DEF Interpreter!Next
<1>3. ASSUME NEW a \in Activities, TaskStep(a) \/ ChanStep(a) \/ StmStep(a)
      PROVE  RingInv' /\ Interpreter!Step(a)
  <2>1. ASSUME NEW t \in Tasks, spawn_task(a, t) \/ THxPAR_await(a, t)
        PROVE  RingInv' /\ Interpreter!Step(a)
    BY <2>1, SpawnSame, AwaitSame DEF Interpreter!Step
  <2>2. CASE TaskDone(a)
    BY <2>2, DoneSame DEF Interpreter!Step
  <2>3. CASE Help(a)
    BY <2>3, HelpSame DEF Interpreter!Step
  <2>4. CASE GiveUp(a)
    BY <2>4, GiveUpSame DEF Interpreter!Step
  <2>5. ASSUME NEW c \in Chans, THxCHAN_recv(a, c)
        PROVE  RingInv' /\ Interpreter!Step(a)
    BY <2>5, RecvSame DEF Interpreter!Step
  <2>6. ASSUME NEW c \in Chans, NEW m \in Msgs, THxCHAN_send(a, c, m)
        PROVE  RingInv' /\ Interpreter!Step(a)
    BY <2>6, SendSame DEF Interpreter!Step
  <2>7. CASE RecvTake(a)
    BY <2>7, TakeSame DEF Interpreter!Step
  <2>8. CASE THxSTM_begin(a)
    BY <2>8, BeginSame DEF Interpreter!Step
  <2>9. ASSUME NEW tv \in TVars, THxSTM_read(a, tv) \/ THxSTM_write(a, tv)
        PROVE  RingInv' /\ Interpreter!Step(a)
    BY <2>9, ReadSame, WriteSame DEF Interpreter!Step
  <2>10. CASE THxSTM_commit(a)
    BY <2>10, CommitSame DEF Interpreter!Step
  <2>11. CASE THxSTM_wait(a)
    BY <2>11, WaitSame DEF Interpreter!Step
  <2>12. CASE WaitOver(a)
    BY <2>12, WaitOverSame DEF Interpreter!Step
  <2>13. CASE TaskStep(a)
    BY <2>1, <2>2, <2>3, <2>4, <2>13 DEF TaskStep
  <2>14. CASE ChanStep(a)
    BY <2>5, <2>6, <2>7, <2>14 DEF ChanStep
  <2>15. CASE StmStep(a)
    BY <2>8, <2>9, <2>10, <2>11, <2>12, <2>15 DEF StmStep
  <2> QED
    BY <1>3, <2>13, <2>14, <2>15
<1>4. Activities = Interpreter!Activities
  BY DEF Activities, Interpreter!Activities
<1> QED
  BY <1>1, <1>2, <1>3, <1>4 DEF Next, Interpreter!Next

LEMMA EmptyContents == RingOf(EmptyRing, {}) /\ Contents(EmptyRing) = <<>>
<1>1. RingOf(EmptyRing, {})
  BY DEF RingOf, EmptyRing
<1>2. Contents(EmptyRing) \in Seq({}) /\ Len(Contents(EmptyRing)) = 0
  BY <1>1, ContentsOf DEF EmptyRing
<1> QED
  BY <1>1, <1>2, EmptySeq

LEMMA InitSame == ASSUME Init PROVE RingInv /\ Interpreter!Init
<1>1. RingInv
  BY DEF Init, RingInv, RingOf, EmptyRing
<1>2. Interpreter!Init
  BY EmptyContents DEF Init, Interpreter!Init, Activities, Interpreter!Activities
<1> QED
  BY <1>1, <1>2

-----------------------------------------------------------------------------
\* runtime.c: "That is the interpreter's order, so both engines agree."
THEOREM NativeEngineAgrees == Spec => EnginesAgree
<1>1. Init => RingInv /\ Interpreter!Init
  BY InitSame
<1>2. RingInv /\ [Next]_vars => RingInv' /\ [Interpreter!Next]_(Interpreter!vars)
  BY NextSame
<1> QED
  BY <1>1, <1>2, PTL DEF Spec, EnginesAgree, Interpreter!Spec

\* The interpreter of TaskRing and the one TaskQueueProofs speaks of are the same.
LEMMA SameInterpreter == Interpreter!Spec => Queue!Spec
<1>1. Interpreter!Init => Queue!Init
  BY DEF Interpreter!Init, Queue!Init, Interpreter!Activities, Queue!Activities
<1>2. Interpreter!Next => Queue!Next
  <2>1. Interpreter!MainReturns <=> Queue!MainReturns
    BY DEF Interpreter!MainReturns, Queue!MainReturns, Interpreter!At, Queue!At, Interpreter!Top, Queue!Top, Interpreter!Goto, Queue!Goto, Interpreter!queues, Queue!queues, Interpreter!stm, Queue!stm
  <2>2. ASSUME NEW a \in Interpreter!Activities
        PROVE  Interpreter!Step(a) <=> Queue!Step(a)
    <3>1. ASSUME NEW t \in Tasks
          PROVE  Interpreter!Spawn(a, t) \/ Interpreter!Await(a, t) <=> Queue!Spawn(a, t) \/ Queue!Await(a, t)
      BY DEF Interpreter!Spawn, Queue!Spawn, Interpreter!Await, Queue!Await, Interpreter!run_task, Queue!run_task, Interpreter!At, Queue!At, Interpreter!Top, Queue!Top, Interpreter!Goto, Queue!Goto, Interpreter!queues, Queue!queues, Interpreter!stm, Queue!stm
    <3>2. ASSUME NEW c \in Chans
          PROVE  /\ Interpreter!ChanRecv(a, c) <=> Queue!ChanRecv(a, c)
                 /\ \A m \in Msgs : Interpreter!ChanSend(a, c, m) <=> Queue!ChanSend(a, c, m)
      BY DEF Interpreter!ChanRecv, Queue!ChanRecv, Interpreter!ChanSend, Queue!ChanSend, Interpreter!At, Queue!At, Interpreter!Top, Queue!Top, Interpreter!Goto, Queue!Goto, Interpreter!queues, Queue!queues, Interpreter!stm, Queue!stm
    <3>3. ASSUME NEW tv \in TVars
          PROVE  Interpreter!StmRead(a, tv) \/ Interpreter!StmWrite(a, tv) <=> Queue!StmRead(a, tv) \/ Queue!StmWrite(a, tv)
      BY DEF Interpreter!StmRead, Queue!StmRead, Interpreter!StmWrite, Queue!StmWrite, Interpreter!Written, Queue!Written, Interpreter!At, Queue!At, Interpreter!Top, Queue!Top, Interpreter!Goto, Queue!Goto, Interpreter!queues, Queue!queues, Interpreter!stm, Queue!stm
    <3>4. Interpreter!Return(a) \/ Interpreter!RecvTake(a) <=> Queue!Return(a) \/ Queue!RecvTake(a)
      BY DEF Interpreter!Return, Queue!Return, Interpreter!RecvTake, Queue!RecvTake, Interpreter!At, Queue!At, Interpreter!Top, Queue!Top, Interpreter!Goto, Queue!Goto, Interpreter!queues, Queue!queues, Interpreter!stm, Queue!stm
    <3>5. Interpreter!StmBegin(a) \/ Interpreter!StmWait(a) <=> Queue!StmBegin(a) \/ Queue!StmWait(a)
      BY DEF Interpreter!StmBegin, Queue!StmBegin, Interpreter!StmWait, Queue!StmWait, Interpreter!At, Queue!At, Interpreter!Top, Queue!Top, Interpreter!Goto, Queue!Goto, Interpreter!queues, Queue!queues, Interpreter!stm, Queue!stm
    <3>6. Interpreter!StmCommit(a) <=> Queue!StmCommit(a)
      BY DEF Interpreter!StmCommit, Queue!StmCommit, Interpreter!Unchanged, Queue!Unchanged, Interpreter!Written, Queue!Written, Interpreter!At, Queue!At, Interpreter!Top, Queue!Top, Interpreter!Goto, Queue!Goto, Interpreter!queues, Queue!queues, Interpreter!stm, Queue!stm
    <3>7. Interpreter!WaitOver(a) <=> Queue!WaitOver(a)
      BY DEF Interpreter!WaitOver, Queue!WaitOver, Interpreter!Unchanged, Queue!Unchanged, Interpreter!At, Queue!At, Interpreter!Top, Queue!Top, Interpreter!Goto, Queue!Goto, Interpreter!queues, Queue!queues, Interpreter!stm, Queue!stm
    <3>8. Interpreter!Blocked(a) <=> Queue!Blocked(a)
      BY DEF Interpreter!Blocked, Queue!Blocked, Interpreter!Unchanged, Queue!Unchanged, Interpreter!At, Queue!At, Interpreter!Top, Queue!Top
    <3>9. Interpreter!Help(a) <=> Queue!Help(a)
      BY <3>8 DEF Interpreter!Help, Queue!Help, Interpreter!run_next_task, Queue!run_next_task, Interpreter!run_task, Queue!run_task, Interpreter!FirstPending, Queue!FirstPending, Interpreter!stm, Queue!stm
    <3>10. Interpreter!GiveUp(a) <=> Queue!GiveUp(a)
      BY <3>8 DEF Interpreter!GiveUp, Queue!GiveUp, Interpreter!NoTaskLeft, Queue!NoTaskLeft, Interpreter!Goto, Queue!Goto, Interpreter!stm, Queue!stm
    <3>11. (\E c \in Chans : Interpreter!ChanRecv(a, c) \/ \E m \in Msgs : Interpreter!ChanSend(a, c, m))
             <=> \E c \in Chans : Queue!ChanRecv(a, c) \/ \E m \in Msgs : Queue!ChanSend(a, c, m)
      BY <3>2
    <3> QED
      BY <3>1, <3>3, <3>4, <3>5, <3>6, <3>7, <3>9, <3>10, <3>11 DEF Interpreter!Step, Queue!Step
  <2> QED
    BY <2>1, <2>2 DEF Interpreter!Next, Queue!Next, Interpreter!Activities, Queue!Activities
<1>3. [Interpreter!Next]_(Interpreter!vars) => [Queue!Next]_(Queue!vars)
  BY <1>2 DEF Interpreter!vars, Queue!vars
<1> QED
  BY <1>1, <1>3, PTL DEF Interpreter!Spec, Queue!Spec

\* The rings stay rings, and the state keeps its shape.
THEOREM RingTypeCorrect == Spec => []TypeOK
<1>1. Init => RingInv
  BY InitSame
<1>2. RingInv /\ [Next]_vars => RingInv'
  BY NextSame
<1>3. Spec => []Queue!TypeOK
  <2>1. Queue!Spec => []Queue!TypeOK
    BY RingAssumption, Queue!QueueTypeCorrect DEF Queue!Distinct
  <2> QED
    BY <2>1, NativeEngineAgrees, SameInterpreter, PTL DEF EnginesAgree
<1>4. RingInv /\ Queue!TypeOK => TypeOK
  BY DEF RingInv, TypeOK, Queue!TypeOK, Interpreter!TypeOK, Queue!Activities, Interpreter!Activities
<1> QED
  BY <1>1, <1>2, <1>3, <1>4, PTL DEF Spec

\* PAR.thx: "A program exits only after every `spawn` task has finished."  A
\* deadlock is reported only when every task was run that could be.
THEOREM RingEndsAfterTasks == Spec => []EndsAfterTasks
<1>1. Queue!Spec => []Queue!EndsAfterTasks
  BY RingAssumption, Queue!QueueEndsAfterTasks DEF Queue!Distinct
<1>2. Queue!ExitsAfterTasks => Interpreter!ExitsAfterTasks
  BY DEF Queue!ExitsAfterTasks, Interpreter!ExitsAfterTasks
<1>3. Queue!DeadlockTriedAll => Interpreter!DeadlockTriedAll
  BY DEF Queue!DeadlockTriedAll, Interpreter!DeadlockTriedAll, Queue!Top, Interpreter!Top,
     Queue!Unchanged, Interpreter!Unchanged
<1>4. Queue!EndsAfterTasks => EndsAfterTasks
  BY <1>2, <1>3 DEF Queue!EndsAfterTasks, EndsAfterTasks, Interpreter!EndsAfterTasks
<1> QED
  BY <1>1, <1>4, NativeEngineAgrees, SameInterpreter, PTL DEF EnginesAgree

\* STM.thx: "a transaction there never conflicts."
THEOREM RingNeverConflicts == Spec => NeverConflicts
<1>1. Queue!Spec => Queue!NeverConflicts
  BY RingAssumption, Queue!QueueNeverConflicts DEF Queue!Distinct
<1>2. [\A a \in Queue!Activities : ~(pc[a] = "tx" /\ pc'[a] = "begin")]_(Queue!vars)
        => [\A a \in Interpreter!Activities : ~(pc[a] = "tx" /\ pc'[a] = "begin")]_(Interpreter!vars)
  BY DEF Queue!Activities, Interpreter!Activities, Queue!vars, Interpreter!vars
<1>3. Queue!NeverConflicts => NeverConflicts
  BY <1>2, PTL DEF Queue!NeverConflicts, NeverConflicts, Interpreter!NeverConflicts
<1> QED
  BY <1>1, <1>3, NativeEngineAgrees, SameInterpreter, PTL DEF EnginesAgree

=============================================================================
