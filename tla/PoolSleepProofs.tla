-------------------------- MODULE PoolSleepProofs --------------------------
(***************************************************************************)
(* Proofs about the pool's sleepers, for any number of threads and any     *)
(* finite set of tasks: what g_queued counts, that no wakeup is lost, and  *)
(* that a pool of tasks that await only what they spawned is never all     *)
(* asleep.  They rest on the stacks of ParPoolProofs.                      *)
(***************************************************************************)
EXTENDS ParPoolProofs, FunctionTheorems

-----------------------------------------------------------------------------
(***************************************************************************)
(* Counting modulo the wrap.                                               *)
(***************************************************************************)
LEMMA ModUnique ==
  ASSUME NEW w \in Nat \ {0}, NEW q \in Int, NEW r \in 0 .. w - 1
  PROVE  (w * q + r) % w = r
OBVIOUS

LEMMA ModParts ==
  ASSUME NEW w \in Nat \ {0}, NEW x \in Int
  PROVE  \E q \in Int : \E r \in 0 .. w - 1 : x = w * q + r /\ x % w = r
<1> DEFINE q == x \div w
           r == x % w
<1>1. q \in Int
  OBVIOUS
<1>2. r \in 0 .. w - 1
  OBVIOUS
<1>3. r = x - w * q
  OBVIOUS
<1>4. x % w = r
  OBVIOUS
<1> HIDE DEF q, r
<1>5. x = w * q + r
  BY <1>1, <1>2, <1>3
<1> QED
  BY <1>1, <1>2, <1>4, <1>5

LEMMA ModSum ==
  ASSUME NEW w \in Nat \ {0}, NEW a \in Int, NEW b \in Int
  PROVE  ((a % w) + b) % w = (a + b) % w
<1>1. PICK q \in Int : \E r \in 0 .. w - 1 : a = w * q + r /\ a % w = r
  BY ModParts
<1>2. PICK r \in 0 .. w - 1 : a = w * q + r /\ a % w = r
  BY <1>1
<1>3. r + b \in Int
  OBVIOUS
<1>4. PICK p \in Int : \E s \in 0 .. w - 1 : r + b = w * p + s /\ (r + b) % w = s
  BY <1>3, ModParts
<1>5. PICK s \in 0 .. w - 1 : r + b = w * p + s /\ (r + b) % w = s
  BY <1>4
<1>6. a + b = w * (q + p) + s
  BY <1>2, <1>5
<1>7. q + p \in Int
  OBVIOUS
<1>8. (w * (q + p) + s) % w = s
  BY <1>7, ModUnique
<1> QED
  BY <1>2, <1>5, <1>6, <1>8

LEMMA ModWrap ==
  ASSUME NEW w \in Nat \ {0}, NEW a \in Int
  PROVE  (a + w) % w = a % w
<1>1. (w * 1 + 0) % w = 0
  <2>1. 0 \in 0 .. w - 1
    OBVIOUS
  <2> QED
    BY <2>1, ModUnique
<1>2. w * 1 + 0 = w
  OBVIOUS
<1>3. w % w = 0
  BY <1>1, <1>2
<1>4. ((w % w) + a) % w = (w + a) % w
  <2>1. w \in Int
    OBVIOUS
  <2> QED
    BY <2>1, ModSum, Zenon
<1> QED
  BY <1>3, <1>4

-----------------------------------------------------------------------------
\* Only the main thread ends the program.
MainEnds == \A th \in Threads : pc[th] \in {"shutdown", "join"} => th = 0

-----------------------------------------------------------------------------
(***************************************************************************)
(* What g_queued counts.                                                   *)
(***************************************************************************)
At(label) == {th \in Threads : pc[th] = label}
Counted == IsFiniteSet(Slots) /\ QueuedCounts

LEMMA AtFinite ==
  ASSUME NEW label
  PROVE  /\ IsFiniteSet(At(label)) /\ Cardinality(At(label)) \in Nat
<1>1. IsFiniteSet(Threads)
  BY PoolAssumption, FS_Interval DEF Threads
<1>2. At(label) \in SUBSET Threads
  BY DEF At
<1>3. IsFiniteSet(At(label))
  BY <1>1, <1>2, FS_Subset
<1> QED
  BY <1>3, FS_CardinalityType

LEMMA CountForm ==
  QueuedCounts <=>
    queued = (Cardinality(Slots) + Cardinality(At("uncount")) + Wrap - Cardinality(At("count"))) % Wrap
BY DEF QueuedCounts, At

\* A thread moves from one label to another.
LEMMA AtMoves ==
  ASSUME NEW th \in Threads, NEW to \in Labels, pc \in [Threads -> Labels],
         pc' = [pc EXCEPT ![th] = to], pc[th] # to
  PROVE  \A label \in Labels :
           Cardinality(At(label)') = IF label = pc[th] THEN Cardinality(At(label)) - 1
                                     ELSE IF label = to THEN Cardinality(At(label)) + 1
                                     ELSE Cardinality(At(label))
<1> SUFFICES ASSUME NEW label \in Labels
             PROVE  Cardinality(At(label)') = IF label = pc[th] THEN Cardinality(At(label)) - 1
                                              ELSE IF label = to THEN Cardinality(At(label)) + 1
                                              ELSE Cardinality(At(label))
  OBVIOUS
<1>1. CASE label = pc[th]
  <2>1. At(label)' = At(label) \ {th} /\ th \in At(label)
    BY <1>1 DEF At
  <2> QED
    BY ZenonT(40), <1>1, <2>1, AtFinite, FS_RemoveElement
<1>2. CASE label = to
  <2>1. At(label)' = At(label) \cup {th} /\ th \notin At(label)
    BY <1>2 DEF At
  <2> QED
    BY <1>2, <2>1, AtFinite, FS_AddElement
<1>3. CASE label # pc[th] /\ label # to
  <2>1. At(label)' = At(label)
    BY <1>3 DEF At
  <2> QED
    BY <1>3, <2>1
<1> QED
  BY <1>1, <1>2, <1>3

\* A slot is known by its deque's length.
LEMMA SlotsLong ==
  ASSUME deque \in [Threads -> Seq(Tasks)]
  PROVE  \A p : p \in Slots <=> \E d \in Threads : \E i \in 1 .. Len(deque[d]) : p = <<d, i>>
<1>1. \A d \in Threads : DOMAIN deque[d] = 1 .. Len(deque[d])
  OBVIOUS
<1> QED
  BY <1>1 DEF Slots

\* Deque d gets one entry longer or shorter.
LEMMA SlotsGrow ==
  ASSUME IsFiniteSet(Slots), NEW d \in Threads, NEW q \in Seq(Tasks),
         deque \in [Threads -> Seq(Tasks)], deque' = [deque EXCEPT ![d] = q]
  PROVE  /\ Len(q) = Len(deque[d]) + 1 =>
              IsFiniteSet(Slots') /\ Cardinality(Slots') = Cardinality(Slots) + 1
         /\ Len(q) = Len(deque[d]) - 1 =>
              IsFiniteSet(Slots') /\ Cardinality(Slots') = Cardinality(Slots) - 1
<1> DEFINE n == Len(deque[d])
<1>1. n \in Nat /\ Len(q) \in Nat /\ deque' \in [Threads -> Seq(Tasks)]
  OBVIOUS
<1>2. \A p : p \in Slots <=> \E e \in Threads : \E i \in 1 .. Len(deque[e]) : p = <<e, i>>
  BY SlotsLong
<1>3. \A p : p \in Slots' <=> \E e \in Threads : \E i \in 1 .. Len(deque'[e]) : p = <<e, i>>
  <2>1. \A e \in Threads : DOMAIN deque'[e] = 1 .. Len(deque'[e])
    BY <1>1
  <2> QED
    BY <2>1 DEF Slots
<1>4. deque'[d] = q /\ \A e \in Threads \ {d} : deque'[e] = deque[e]
  OBVIOUS
<1>5. ASSUME Len(q) = n + 1
      PROVE  IsFiniteSet(Slots') /\ Cardinality(Slots') = Cardinality(Slots) + 1
  <2>1. 1 .. Len(q) = (1 .. n) \cup {n + 1} /\ n + 1 \notin 1 .. n
    BY <1>1, <1>5
  <2>2. <<d, n + 1>> \notin Slots
    BY <1>2, <2>1
  <2>3. Slots' = Slots \cup {<<d, n + 1>>}
    <3>1. ASSUME NEW p \in Slots'
          PROVE  p \in Slots \cup {<<d, n + 1>>}
      BY <1>2, <1>3, <1>4, <2>1
    <3>2. ASSUME NEW p \in Slots \cup {<<d, n + 1>>}
          PROVE  p \in Slots'
      BY <1>2, <1>3, <1>4, <2>1
    <3> QED
      BY <3>1, <3>2
  <2> QED
    BY <2>2, <2>3, FS_AddElement
<1>6. ASSUME Len(q) = n - 1
      PROVE  IsFiniteSet(Slots') /\ Cardinality(Slots') = Cardinality(Slots) - 1
  <2>1. 1 .. n = (1 .. Len(q)) \cup {n} /\ n \notin 1 .. Len(q)
    BY <1>1, <1>6
  <2>2. <<d, n>> \in Slots
    BY <1>2, <2>1
  <2>3. Slots' = Slots \ {<<d, n>>}
    <3>1. ASSUME NEW p \in Slots'
          PROVE  p \in Slots \ {<<d, n>>}
      BY <1>2, <1>3, <1>4, <2>1
    <3>2. ASSUME NEW p \in Slots \ {<<d, n>>}
          PROVE  p \in Slots'
      BY <1>2, <1>3, <1>4, <2>1
    <3> QED
      BY <3>1, <3>2
  <2> QED
    BY <2>2, <2>3, FS_RemoveElement
<1> QED
  BY <1>5, <1>6

\* A step that leaves the deques and the counter alone.
LEMMA QuietCount ==
  ASSUME Counted, deque' = deque, queued' = queued,
         \A th \in Threads : /\ pc'[th] = "count" <=> pc[th] = "count"
                             /\ pc'[th] = "uncount" <=> pc[th] = "uncount"
  PROVE  Counted'
<1>1. Slots' = Slots /\ At("count")' = At("count") /\ At("uncount")' = At("uncount")
  BY DEF Slots, At
<1> QED
  BY <1>1 DEF Counted, QueuedCounts, At

LEMMA CountStep ==
  ASSUME Structure, MainEnds, Counted, [Next]_vars
  PROVE  Counted'
<1> USE DEF Goto
<1>0. TypeOK /\ Registers
  BY DEF Structure
<1> DEFINE E == Cardinality(Slots)
           U == Cardinality(At("uncount"))
           C == Cardinality(At("count"))
<1>a. /\ E \in Nat /\ U \in Nat /\ C \in Nat /\ IsFiniteSet(Slots) /\ Wrap \in Nat \ {0}
      /\ queued = (E + U + Wrap - C) % Wrap
  BY AtFinite, CountForm, FS_CardinalityType, PoolAssumption DEF Counted
<1>b. QueuedCounts' <=> queued' = (E' + U' + Wrap - C') % Wrap
  BY DEF QueuedCounts, At
<1> HIDE DEF E, U, C
<1>1. ASSUME NEW th \in Threads, NEW t \in Tasks, SpawnTask(th, t)
      PROVE  Counted'
  BY <1>0, <1>1, QuietCount DEF SpawnTask, mt_start, TypeOK
<1>2. ASSUME NEW th \in Threads, deque_push(th)
      PROVE  Counted'
  <2>1. /\ deque' = [deque EXCEPT ![th] = Append(@, item[th])] /\ pc[th] = "push"
        /\ pc' = [pc EXCEPT ![th] = "count"] /\ queued' = queued
    BY <1>2 DEF deque_push
  <2>2. /\ item[th] \in Tasks /\ deque[th] \in Seq(Tasks) /\ deque \in [Threads -> Seq(Tasks)]
        /\ pc \in [Threads -> Labels]
    BY <1>0, <2>1 DEF Registers, TypeOK
  <2>3. Append(deque[th], item[th]) \in Seq(Tasks) /\ Len(Append(deque[th], item[th])) = Len(deque[th]) + 1
    BY <2>2
  <2>4. IsFiniteSet(Slots') /\ E' = E + 1
    BY <1>a, <2>1, <2>2, <2>3, SlotsGrow DEF E
  <2>5. U' = U /\ C' = C + 1
    <3>1. pc \in [Threads -> Labels] /\ "count" \in Labels /\ "count" \in Labels /\ "uncount" \in Labels
      BY <1>0 DEF TypeOK, Labels
    <3>2. \A label \in Labels :
            Cardinality(At(label)') = IF label = "push" THEN Cardinality(At(label)) - 1
                                      ELSE IF label = "count" THEN Cardinality(At(label)) + 1
                                      ELSE Cardinality(At(label))
      BY ZenonT(40), <2>1, <3>1, AtMoves
    <3> QED
      BY <3>1, <3>2 DEF U, C
  <2> QED
    BY <1>a, <1>b, <2>1, <2>4, <2>5 DEF Counted
<1>3. ASSUME NEW th \in Threads, CountQueued(th)
      PROVE  Counted'
  <2>1. /\ deque' = deque /\ pc[th] = "count" /\ pc' = [pc EXCEPT ![th] = "wake"]
        /\ queued' = (queued + 1) % Wrap
    BY <1>3 DEF CountQueued
  <2>2. Slots' = Slots /\ E' = E
    BY <2>1 DEF Slots, E
  <2>3. U' = U /\ C' = C - 1
    <3>1. pc \in [Threads -> Labels] /\ "wake" \in Labels /\ "count" \in Labels /\ "uncount" \in Labels
      BY <1>0 DEF TypeOK, Labels
    <3>2. \A label \in Labels :
            Cardinality(At(label)') = IF label = "count" THEN Cardinality(At(label)) - 1
                                      ELSE IF label = "wake" THEN Cardinality(At(label)) + 1
                                      ELSE Cardinality(At(label))
      BY ZenonT(40), <2>1, <3>1, AtMoves
    <3> QED
      BY <3>1, <3>2 DEF U, C
  <2>4. queued' = (E + U + Wrap - C + 1) % Wrap
    <3> DEFINE x == E + U + Wrap - C
    <3>1. x \in Int /\ 1 \in Int /\ Wrap \in Nat \ {0} /\ queued = x % Wrap
      BY <1>a
    <3> HIDE DEF x
    <3>2. ((x % Wrap) + 1) % Wrap = (x + 1) % Wrap
      BY <3>1, ModSum, Zenon
    <3> QED
      BY <2>1, <3>1, <3>2 DEF x
  <2>5. E + U + Wrap - C + 1 = E' + U' + Wrap - C'
    BY <1>a, <2>2, <2>3
  <2> QED
    BY <1>a, <1>b, <2>2, <2>4, <2>5 DEF Counted
<1>4. ASSUME NEW th \in Threads, WakeAfterPush(th)
      PROVE  Counted'
  BY <1>0, <1>4, QuietCount DEF WakeAfterPush, Broadcast, TypeOK
<1>5. ASSUME NEW th \in Threads, Publish(th)
      PROVE  Counted'
  BY <1>0, <1>5, QuietCount DEF Publish, TypeOK
<1>6. ASSUME NEW th \in Threads, IoFinished(th)
      PROVE  Counted'
  BY <1>0, <1>6, QuietCount DEF IoFinished, TypeOK
<1>7. ASSUME NEW th \in Threads, WakeAfterDone(th)
      PROVE  Counted'
  BY <1>0, <1>7, QuietCount DEF WakeAfterDone, Broadcast, LoopOf, TypeOK
<1>8. ASSUME NEW th \in Threads, NEW t \in Tasks, THxPAR_await(th, t)
      PROVE  Counted'
  BY <1>0, <1>8, QuietCount DEF THxPAR_await, TypeOK
<1>9. ASSUME NEW th \in Threads, AwaitDone(th)
      PROVE  Counted'
  BY <1>0, <1>9, QuietCount DEF AwaitDone, TypeOK
<1>10. ASSUME NEW th \in Threads, AwaitNotDone(th)
      PROVE  Counted'
  BY <1>0, <1>10, QuietCount DEF AwaitNotDone, TypeOK
<1>11. ASSUME NEW th \in Threads, AwaitClaim(th)
      PROVE  Counted'
  BY <1>0, <1>11, QuietCount DEF AwaitClaim, Enter, TypeOK
<1>12. ASSUME NEW th \in Threads, ScanTake(th)
      PROVE  Counted'
  <2> DEFINE d == (th + scan[th]) % NThreads
             q == deque_take(th, d)[2]
  <2>1. /\ d \in Threads /\ deque[d] # <<>> /\ deque' = [deque EXCEPT ![d] = q] /\ pc[th] = "scan"
        /\ pc' = [pc EXCEPT ![th] = "uncount"] /\ queued' = queued
    BY <1>0, <1>12, ScanInRange DEF ScanTake
  <2> HIDE DEF d
  <2>2. deque[d] \in Seq(Tasks) /\ deque \in [Threads -> Seq(Tasks)] /\ pc \in [Threads -> Labels]
    BY <1>0, <2>1 DEF TypeOK
  <2>3. q \in Seq(Tasks)
    BY <1>0, <2>1, TakeTypes
  <2>4. Len(q) = Len(deque[d]) - 1
    <3>1. Len(deque[d]) \in Nat \ {0}
      BY <2>1, <2>2
    <3>2. Len(Front(deque[d])) = Len(deque[d]) - 1
      BY <2>2, <3>1 DEF Front
    <3>3. Len(Tail(deque[d])) = Len(deque[d]) - 1
      BY <2>1, <2>2
    <3> QED
      BY <3>2, <3>3 DEF deque_take
  <2> HIDE DEF q
  <2>5. IsFiniteSet(Slots') /\ E' = E - 1
    BY <1>a, <2>1, <2>2, <2>3, <2>4, SlotsGrow DEF E
  <2>6. U' = U + 1 /\ C' = C
    <3>1. pc \in [Threads -> Labels] /\ "uncount" \in Labels /\ "count" \in Labels /\ "uncount" \in Labels
      BY <1>0 DEF TypeOK, Labels
    <3>2. \A label \in Labels :
            Cardinality(At(label)') = IF label = "scan" THEN Cardinality(At(label)) - 1
                                      ELSE IF label = "uncount" THEN Cardinality(At(label)) + 1
                                      ELSE Cardinality(At(label))
      BY <2>1, <3>1, AtMoves
    <3> QED
      BY <3>1, <3>2 DEF U, C
  <2> QED
    BY <1>a, <1>b, <2>1, <2>5, <2>6 DEF Counted
<1>13. ASSUME NEW th \in Threads, ScanNext(th)
      PROVE  Counted'
  BY <1>0, <1>13, QuietCount DEF ScanNext, TypeOK
<1>14. ASSUME NEW th \in Threads, UncountQueued(th)
      PROVE  Counted'
  <2>1. /\ deque' = deque /\ pc[th] = "uncount" /\ pc' = [pc EXCEPT ![th] = "entry"]
        /\ queued' = (queued + Wrap - 1) % Wrap
    BY <1>14 DEF UncountQueued
  <2>2. Slots' = Slots /\ E' = E
    BY <2>1 DEF Slots, E
  <2>3. U' = U - 1 /\ C' = C
    <3>1. pc \in [Threads -> Labels] /\ "entry" \in Labels /\ "count" \in Labels /\ "uncount" \in Labels
      BY <1>0 DEF TypeOK, Labels
    <3>2. \A label \in Labels :
            Cardinality(At(label)') = IF label = "uncount" THEN Cardinality(At(label)) - 1
                                      ELSE IF label = "entry" THEN Cardinality(At(label)) + 1
                                      ELSE Cardinality(At(label))
      BY ZenonT(40), <2>1, <3>1, AtMoves
    <3> QED
      BY <3>1, <3>2 DEF U, C
  <2>4. queued' = (E' + U' + Wrap - C') % Wrap
    <3> DEFINE x == E + U + Wrap - C
               y == x - 1
    <3>1. x \in Int /\ y \in Int /\ y = E' + U' + Wrap - C' /\ queued = x % Wrap
      BY <1>a, <2>2, <2>3
    <3> HIDE DEF x
    <3>a. Wrap - 1 \in Int /\ Wrap \in Int /\ Wrap \in Nat \ {0}
      BY <1>a
    <3>2. ((x % Wrap) + (Wrap - 1)) % Wrap = (x + (Wrap - 1)) % Wrap
      BY <3>1, <3>a, ModSum, Zenon
    <3>3. x + (Wrap - 1) = y + Wrap /\ queued + (Wrap - 1) = queued + Wrap - 1
      <4>1. queued \in Int
        BY <1>0 DEF TypeOK
      <4> QED
        BY <3>1, <3>a, <4>1
    <3>4. (y + Wrap) % Wrap = y % Wrap
      BY <1>a, <3>1, ModWrap
    <3> QED
      BY <2>1, <3>1, <3>2, <3>3, <3>4
  <2> QED
    BY <1>a, <1>b, <2>2, <2>4 DEF Counted
<1>15. ASSUME NEW th \in Threads, mt_run_entry(th)
      PROVE  Counted'
  BY <1>0, <1>15, QuietCount DEF mt_run_entry, Enter, LoopOf, TypeOK
<1>16. ASSUME NEW th \in Threads, SleepTest(th)
      PROVE  Counted'
  BY <1>0, <1>16, QuietCount DEF SleepTest, TypeOK
<1>17. ASSUME NEW th \in Threads, SleepOrRescan(th)
      PROVE  Counted'
  BY <1>0, <1>17, QuietCount DEF SleepOrRescan, LoopOf, TypeOK
<1>18. ASSUME NEW th \in Threads, SpuriousWake(th)
      PROVE  Counted'
  BY <1>0, <1>18, QuietCount DEF SpuriousWake, TypeOK
<1>19. ASSUME NEW th \in Threads, MainReturns(th)
      PROVE  Counted'
  BY <1>0, <1>19, QuietCount DEF MainReturns, TypeOK
<1>20. ASSUME NEW th \in Threads, ShowReturns(th)
      PROVE  Counted'
  BY <1>0, <1>20, QuietCount DEF ShowReturns, TypeOK
<1>21. ASSUME NEW th \in Threads, THxPAR_join_io(th)
      PROVE  Counted'
  BY <1>0, <1>21, QuietCount DEF THxPAR_join_io, TypeOK
<1>22. ASSUME NEW th \in Threads, ShutdownStop(th)
      PROVE  Counted'
  BY <1>0, <1>22, QuietCount DEF ShutdownStop, Broadcast, TypeOK
<1>23. ASSUME NEW th \in Threads, ShutdownJoin(th)
      PROVE  Counted'
  <2>1. /\ pc[th] = "join" /\ \A w \in Workers : pc[w] = "exited"
        /\ deque' = [d \in Threads |-> <<>>] /\ queued' = 0 /\ pc' = [pc EXCEPT ![th] = "exited"]
    BY <1>23 DEF ShutdownJoin
  <2>2. Slots' = {}
    BY <2>1 DEF Slots
  <2>3. \A o \in Threads : pc'[o] \notin {"count", "uncount"}
    BY <1>0, <2>1 DEF TypeOK, Workers, MainEnds
  <2>4. At("count")' = {} /\ At("uncount")' = {}
    BY <2>3 DEF At
  <2>5. IsFiniteSet(Slots') /\ E' = 0 /\ U' = 0 /\ C' = 0
    BY <2>2, <2>4, FS_EmptySet DEF E, U, C
  <2>6. (0 + 0 + Wrap - 0) % Wrap = 0
    BY <1>a
  <2> QED
    BY <1>b, <2>1, <2>5, <2>6 DEF Counted
<1>24. CASE UNCHANGED vars
  BY <1>24, QuietCount DEF vars
<1>25. QED
  BY <1>1, <1>2, <1>3, <1>4, <1>5, <1>6, <1>7, <1>8, <1>9, <1>10, <1>11,
     <1>12, <1>13, <1>14, <1>15, <1>16, <1>17, <1>18, <1>19, <1>20,
     <1>21, <1>22, <1>23, <1>24
     DEF Next, Step, SpawnStep, ExecStep, AwaitStep, HelpStep, EndStep

-----------------------------------------------------------------------------
(***************************************************************************)
(* Where threads stop, and who holds g_mt_mu.                              *)
(***************************************************************************)
Ends ==
  /\ MainEnds /\ pc[0] # "off"
  /\ stop => pc[0] \in {"join", "exited"}
  /\ \A w \in Workers : pc[w] = "exited" => pc[0] \in {"join", "exited"}
  /\ \A th \in Threads : pc[th] = "off" => top[th] = th

Mutex == \A th \in Threads : pc[th] = "test2" => mu = th

\* A step of th that moves other threads only out of `off` and `asleep`, and th
\* to a label that is none of these.
LEMMA QuietEnds ==
  ASSUME Ends, Mutex, NEW th \in Threads, stop' = stop, mu' = mu,
         \A o \in Threads : o # th => top'[o] = top[o],
         \A o \in Threads : \/ pc'[o] = pc[o]
                            \/ o # th /\ pc[o] = "off" /\ pc'[o] = "scan"
                            \/ o # th /\ pc[o] = "asleep" /\ pc'[o] = "woken"
                            \/ /\ o = th /\ pc[th] \notin {"join", "exited"}
                               /\ pc'[th] \notin {"shutdown", "join", "exited", "test2", "off"},
         pc[th] # "off"
  PROVE  Ends' /\ Mutex'
<1>1. 0 \in Threads /\ Workers \subseteq Threads
  BY Kinds DEF Workers
<1>2. MainEnds'
  BY DEF Ends, MainEnds
<1>3. \A o \in Threads : pc'[o] = "off" => pc[o] = "off" /\ o # th
  OBVIOUS
<1>4. pc'[0] # "off" /\ \A o \in Threads : pc'[o] = "off" => top'[o] = o
  BY <1>1, <1>3 DEF Ends
<1>5. pc[0] \in {"join", "exited"} => pc'[0] \in {"join", "exited"}
  BY <1>1
<1>6. \A o \in Threads : pc'[o] = "exited" => pc[o] = "exited"
  OBVIOUS
<1>7. /\ stop' => pc'[0] \in {"join", "exited"}
      /\ \A w \in Workers : pc'[w] = "exited" => pc'[0] \in {"join", "exited"}
  BY <1>1, <1>5, <1>6 DEF Ends
<1>8. Mutex'
  <2>1. \A o \in Threads : pc'[o] = "test2" => pc[o] = "test2"
    OBVIOUS
  <2> QED
    BY <2>1 DEF Mutex
<1> QED
  BY <1>2, <1>4, <1>7, <1>8 DEF Ends

\* The same, when th alone moves.
LEMMA MoveEnds ==
  ASSUME pc \in [Threads -> Labels], Ends, Mutex, NEW th \in Threads, NEW l, stop' = stop, mu' = mu,
         pc' = [pc EXCEPT ![th] = l], pc[th] \notin {"join", "exited", "off"},
         l \notin {"shutdown", "join", "exited", "test2", "off"},
         \A o \in Threads : o # th => top'[o] = top[o]
  PROVE  Ends' /\ Mutex'
<1>1. \A o \in Threads : IF o = th THEN pc'[o] = l ELSE pc'[o] = pc[o]
  OBVIOUS
<1> QED
  BY <1>1, QuietEnds

LEMMA EndsStep ==
  ASSUME Structure, Ends, Mutex, [Next]_vars
  PROVE  Ends' /\ Mutex'
<1> USE DEF Goto
<1>0. TypeOK /\ Chains
  BY DEF Structure
<1>a. 0 \in Threads /\ 0 \notin Workers /\ Workers \subseteq Threads
  BY Kinds DEF Workers
<1>1. ASSUME NEW th \in Threads, NEW t \in Tasks, SpawnTask(th, t)
      PROVE  Ends' /\ Mutex'
  BY <1>0, <1>1, QuietEnds DEF SpawnTask, mt_start, TypeOK
<1>2. ASSUME NEW th \in Threads, deque_push(th)
      PROVE  Ends' /\ Mutex'
  BY <1>0, <1>2, MoveEnds DEF deque_push, TypeOK
<1>3. ASSUME NEW th \in Threads, CountQueued(th)
      PROVE  Ends' /\ Mutex'
  BY <1>0, <1>3, MoveEnds DEF CountQueued, TypeOK
<1>4. ASSUME NEW th \in Threads, WakeAfterPush(th)
      PROVE  Ends' /\ Mutex'
  BY <1>0, <1>4, QuietEnds DEF WakeAfterPush, Broadcast, TypeOK
<1>5. ASSUME NEW th \in Threads, Publish(th)
      PROVE  Ends' /\ Mutex'
  BY <1>0, <1>5, MoveEnds DEF Publish, TypeOK
<1>6. ASSUME NEW th \in Threads, IoFinished(th)
      PROVE  Ends' /\ Mutex'
  BY <1>0, <1>6, MoveEnds DEF IoFinished, TypeOK
<1>7. ASSUME NEW th \in Threads, WakeAfterDone(th)
      PROVE  Ends' /\ Mutex'
  BY <1>0, <1>7, QuietEnds DEF WakeAfterDone, Broadcast, LoopOf, TypeOK
<1>8. ASSUME NEW th \in Threads, NEW t \in Tasks, THxPAR_await(th, t)
      PROVE  Ends' /\ Mutex'
  BY <1>0, <1>8, MoveEnds DEF THxPAR_await, TypeOK
<1>9. ASSUME NEW th \in Threads, AwaitDone(th)
      PROVE  Ends' /\ Mutex'
  BY <1>0, <1>9, MoveEnds DEF AwaitDone, TypeOK
<1>10. ASSUME NEW th \in Threads, AwaitNotDone(th)
      PROVE  Ends' /\ Mutex'
  BY <1>0, <1>10, MoveEnds DEF AwaitNotDone, TypeOK
<1>11. ASSUME NEW th \in Threads, AwaitClaim(th)
      PROVE  Ends' /\ Mutex'
  BY <1>0, <1>11, MoveEnds DEF AwaitClaim, Enter, task_claim, TypeOK
<1>12. ASSUME NEW th \in Threads, ScanTake(th)
      PROVE  Ends' /\ Mutex'
  BY <1>0, <1>12, MoveEnds DEF ScanTake, TypeOK
<1>13. ASSUME NEW th \in Threads, ScanNext(th)
      PROVE  Ends' /\ Mutex'
  BY <1>0, <1>13, MoveEnds DEF ScanNext, TypeOK
<1>14. ASSUME NEW th \in Threads, UncountQueued(th)
      PROVE  Ends' /\ Mutex'
  BY <1>0, <1>14, MoveEnds DEF UncountQueued, TypeOK
<1>15. ASSUME NEW th \in Threads, mt_run_entry(th)
      PROVE  Ends' /\ Mutex'
  BY <1>0, <1>15, MoveEnds DEF mt_run_entry, Enter, task_claim, LoopOf, TypeOK
<1>16. ASSUME NEW th \in Threads, SleepTest(th)
      PROVE  Ends' /\ Mutex'
  <2> DEFINE over == WaitIsOver(top[th])
             l == IF ~over THEN "test2" ELSE IF top[th] \in Workers THEN "exited" ELSE "load"
  <2>1. /\ pc[th] \in {"test", "woken"} /\ mu = None /\ mu' = (IF over THEN None ELSE th)
        /\ pc' = [pc EXCEPT ![th] = l] /\ stop' = stop /\ top' = top
    BY <1>16 DEF SleepTest
  <2>2. over /\ top[th] \in Workers => stop
    BY DEF WaitIsOver
  <2> HIDE DEF over
  <2>3. pc'[th] = l /\ \A o \in Threads : o # th => pc'[o] = pc[o]
    BY <1>0, <2>1 DEF TypeOK
  <2>4. th = 0 => top[th] \notin Workers
    BY <1>0, <1>a DEF Chains
  <2>5. Mutex'
    BY <1>0, <2>1, <2>3, Kinds DEF Mutex, TypeOK
  <2>6. l = "exited" => stop /\ th # 0
    BY <2>2, <2>4
  <2>7. l \in {"test2", "exited", "load"}
    OBVIOUS
  <2> HIDE DEF l
  <2>8. MainEnds' /\ pc'[0] # "off"
    BY <1>a, <2>1, <2>3, <2>7 DEF Ends, MainEnds
  <2>9. pc[0] \in {"join", "exited"} => pc'[0] \in {"join", "exited"}
    BY <1>a, <2>1, <2>3
  <2>10. \A o \in Threads : pc'[o] = "off" => top'[o] = o
    BY <2>1, <2>3, <2>7 DEF Ends
  <2>11. \A w \in Workers : pc'[w] = "exited" => pc'[0] \in {"join", "exited"}
    BY <1>a, <2>3, <2>6, <2>9 DEF Ends
  <2> QED
    BY <2>1, <2>5, <2>8, <2>9, <2>10, <2>11 DEF Ends
<1>17. ASSUME NEW th \in Threads, SleepOrRescan(th)
      PROVE  Ends' /\ Mutex'
  <2> DEFINE l == IF queued = 0 THEN "asleep" ELSE LoopOf(top[th])
  <2>1. pc[th] = "test2" /\ mu' = None /\ pc' = [pc EXCEPT ![th] = l] /\ stop' = stop /\ top' = top
    BY <1>17 DEF SleepOrRescan
  <2>2. l \in {"asleep", "scan", "load"}
    BY DEF LoopOf
  <2> HIDE DEF l
  <2>3. pc'[th] = l /\ \A o \in Threads : o # th => pc'[o] = pc[o]
    BY <1>0, <2>1 DEF TypeOK
  <2>4. Mutex'
    BY <2>1, <2>2, <2>3 DEF Mutex
  <2>5. Ends'
    BY <1>a, <2>1, <2>2, <2>3 DEF Ends, MainEnds
  <2> QED
    BY <2>4, <2>5
<1>18. ASSUME NEW th \in Threads, SpuriousWake(th)
      PROVE  Ends' /\ Mutex'
  BY <1>0, <1>18, MoveEnds DEF SpuriousWake, TypeOK
<1>19. ASSUME NEW th \in Threads, MainReturns(th)
      PROVE  Ends' /\ Mutex'
  BY <1>0, <1>19, MoveEnds DEF MainReturns, TypeOK
<1>20. ASSUME NEW th \in Threads, ShowReturns(th)
      PROVE  Ends' /\ Mutex'
  <2>1. /\ th = 0 /\ stop' = stop /\ mu' = mu /\ top' = top
        /\ pc[th] = "body" /\ pc' = [pc EXCEPT ![th] = IF started THEN "shutdown" ELSE "exited"]
    BY <1>0, <1>a, <1>20 DEF ShowReturns, Chains
  <2>2. pc'[0] \in {"shutdown", "exited"} /\ \A o \in Threads : o # 0 => pc'[o] = pc[o]
    BY <1>0, <2>1 DEF TypeOK
  <2>3. ~stop /\ \A w \in Workers : pc[w] # "exited"
    BY <2>1 DEF Ends
  <2>4. Ends'
    BY <1>a, <2>1, <2>2, <2>3 DEF Ends, MainEnds
  <2>5. Mutex'
    BY <1>a, <2>1, <2>2 DEF Mutex
  <2> QED
    BY <2>4, <2>5
<1>21. ASSUME NEW th \in Threads, THxPAR_join_io(th)
      PROVE  Ends' /\ Mutex'
  <2>1. /\ th = 0 /\ stop' = stop /\ mu' = mu /\ top' = top
        /\ pc[th] = "load" /\ pc' = [pc EXCEPT ![th] = IF ioPending > 0 THEN "scan" ELSE "exited"]
    BY <1>0, <1>a, <1>21 DEF THxPAR_join_io, Chains
  <2>2. pc'[0] \in {"scan", "exited"} /\ \A o \in Threads : o # 0 => pc'[o] = pc[o]
    BY <1>0, <2>1 DEF TypeOK
  <2>3. ~stop /\ \A w \in Workers : pc[w] # "exited"
    BY <2>1 DEF Ends
  <2>4. Ends'
    BY <1>a, <2>1, <2>2, <2>3 DEF Ends, MainEnds
  <2>5. Mutex'
    BY <1>a, <2>1, <2>2 DEF Mutex
  <2> QED
    BY <2>4, <2>5
<1>22. ASSUME NEW th \in Threads, ShutdownStop(th)
      PROVE  Ends' /\ Mutex'
  <2>1. /\ th = 0 /\ mu' = mu /\ top' = top /\ pc[th] = "shutdown"
        /\ pc' = [Broadcast(pc) EXCEPT ![th] = "join"]
    BY <1>22 DEF ShutdownStop, Ends, MainEnds
  <2>2. /\ pc'[0] = "join"
        /\ \A o \in Threads : o # 0 => pc'[o] = IF pc[o] = "asleep" THEN "woken" ELSE pc[o]
    BY <1>a, <2>1 DEF Broadcast
  <2>3. Ends'
    BY <1>a, <2>1, <2>2 DEF Ends, MainEnds
  <2>4. Mutex'
    BY <1>a, <2>1, <2>2 DEF Mutex
  <2> QED
    BY <2>3, <2>4
<1>23. ASSUME NEW th \in Threads, ShutdownJoin(th)
      PROVE  Ends' /\ Mutex'
  <2>1. /\ th = 0 /\ mu' = mu /\ top' = top /\ pc[th] = "join" /\ ~stop'
        /\ pc' = [pc EXCEPT ![th] = "exited"]
    BY <1>23 DEF ShutdownJoin, Ends, MainEnds
  <2>2. pc'[0] = "exited" /\ \A o \in Threads : o # 0 => pc'[o] = pc[o]
    BY <1>0, <1>a, <2>1 DEF TypeOK
  <2>3. Ends'
    BY <1>a, <2>1, <2>2 DEF Ends, MainEnds
  <2>4. Mutex'
    BY <1>a, <2>1, <2>2 DEF Mutex
  <2> QED
    BY <2>3, <2>4
<1>24. CASE UNCHANGED vars
  BY <1>24 DEF vars, Ends, MainEnds, Mutex
<1>25. QED
  BY <1>1, <1>2, <1>3, <1>4, <1>5, <1>6, <1>7, <1>8, <1>9, <1>10, <1>11,
     <1>12, <1>13, <1>14, <1>15, <1>16, <1>17, <1>18, <1>19, <1>20,
     <1>21, <1>22, <1>23, <1>24
     DEF Next, Step, SpawnStep, ExecStep, AwaitStep, HelpStep, EndStep

-----------------------------------------------------------------------------
(***************************************************************************)
(* A task has one entry, from its spawn until a thread runs or drops it.   *)
(***************************************************************************)
OneEntry ==
  /\ \A d, e \in Threads : \A i \in 1 .. Len(deque[d]), j \in 1 .. Len(deque[e]) :
       deque[d][i] = deque[e][j] => d = e /\ i = j
  /\ \A d, th \in Threads : \A i \in 1 .. Len(deque[d]) : deque[d][i] # item[th]
  /\ \A th, o \in Threads : item[th] # None /\ item[th] = item[o] => th = o
  /\ \A d \in Threads : \A i \in 1 .. Len(deque[d]) : state[deque[d][i]] # "unborn"
  /\ \A th \in Threads : item[th] # None => state[item[th]] # "unborn"

Holding == {"push", "uncount", "entry"}
Located(t) ==
  \/ \E d \in Threads : \E i \in 1 .. Len(deque[d]) : deque[d][i] = t
  \/ \E th \in Threads : item[th] = t /\ pc[th] \in Holding

\* While the program runs, a task nobody has started can be found.
Kept == \A t \in Tasks : state[t] = "pending" /\ ~Exited => Located(t)

Entries == OneEntry /\ Kept

LEMMA QuietEntry ==
  ASSUME TypeOK, Entries, deque' = deque, item' = item,
         \A t \in Tasks : state[t] # "unborn" => state'[t] # "unborn",
         \A t \in Tasks : state'[t] = "pending" => state[t] = "pending",
         \A th \in Threads : pc[th] \in Holding => pc'[th] \in Holding,
         Exited => Exited'
  PROVE  Entries'
<1>1. \A d \in Threads : \A i \in 1 .. Len(deque[d]) : deque[d][i] \in Tasks
  BY DEF TypeOK
<1>2. OneEntry'
  <2>1. \A d \in Threads : \A i \in 1 .. Len(deque[d]) : state'[deque[d][i]] # "unborn"
    BY <1>1 DEF Entries, OneEntry
  <2>2. \A th \in Threads : item[th] # None => state'[item[th]] # "unborn"
    BY DEF Entries, OneEntry, TypeOK
  <2> QED
    BY <2>1, <2>2 DEF Entries, OneEntry
<1>3. Kept'
  BY DEF Entries, Kept, Located
<1> QED
  BY <1>2, <1>3 DEF Entries

\* Where th alone moves, not away from an entry and not out of the program.
LEMMA MoveEntry ==
  ASSUME TypeOK, Entries, deque' = deque, item' = item, NEW th \in Threads, NEW l,
         \A t \in Tasks : state[t] # "unborn" => state'[t] # "unborn",
         \A t \in Tasks : state'[t] = "pending" => state[t] = "pending",
         pc' = [pc EXCEPT ![th] = l], pc[th] # "exited",
         pc[th] \in Holding => l = "entry"
  PROVE  Entries'
<1>1. \A o \in Threads : IF o = th THEN pc'[o] = l ELSE pc'[o] = pc[o]
  BY DEF TypeOK
<1>2. \A o \in Threads : pc[o] \in Holding => pc'[o] \in Holding
  BY <1>1 DEF Holding
<1>3. Exited => Exited'
  BY <1>1, Kinds DEF Exited
<1> QED
  BY <1>2, <1>3, QuietEntry

LEMMA EntryStep ==
  ASSUME Structure, MainEnds, Entries, [Next]_vars
  PROVE  Entries'
<1> USE DEF Goto
<1>0. TypeOK /\ Registers
  BY DEF Structure
<1>a. /\ \A d \in Threads : deque[d] \in Seq(Tasks) /\ Len(deque[d]) \in Nat
      /\ \A d \in Threads : \A i \in 1 .. Len(deque[d]) : deque[d][i] \in Tasks
      /\ \A o \in Threads : item[o] \in Tasks \cup {None}
  BY <1>0 DEF TypeOK
<1>1. ASSUME NEW th \in Threads, NEW t \in Tasks, SpawnTask(th, t)
      PROVE  Entries'
  <2>1. /\ state[t] = "unborn" /\ state' = [state EXCEPT ![t] = "pending"] /\ deque' = deque
        /\ item' = [item EXCEPT ![th] = t] /\ pc[th] = "body" /\ pc' = [mt_start(pc) EXCEPT ![th] = "push"]
    BY <1>1 DEF SpawnTask
  <2>2. /\ item'[th] = t /\ \A o \in Threads : o # th => item'[o] = item[o]
        /\ state'[t] = "pending" /\ \A u \in Tasks : u # t => state'[u] = state[u]
        /\ pc'[th] = "push" /\ \A o \in Threads : pc[o] \in Holding => pc'[o] = pc[o]
    BY <1>0, <2>1 DEF TypeOK, mt_start, Holding
  <2>3. \A d \in Threads : \A i \in 1 .. Len(deque[d]) : deque[d][i] # t
    BY <2>1 DEF Entries, OneEntry
  <2>4. \A o \in Threads : item[o] # t
    BY <2>1, Kinds DEF Entries, OneEntry
  <2>5. OneEntry'
    <3>1. \A d, e \in Threads : \A i \in 1 .. Len(deque[d]), j \in 1 .. Len(deque[e]) :
            deque[d][i] = deque[e][j] => d = e /\ i = j
      BY DEF Entries, OneEntry
    <3>2. \A d, o \in Threads : \A i \in 1 .. Len(deque[d]) : deque[d][i] # item'[o]
      BY <2>2, <2>3 DEF Entries, OneEntry
    <3>3. \A x, o \in Threads : item'[x] # None /\ item'[x] = item'[o] => x = o
      BY <2>2, <2>4 DEF Entries, OneEntry
    <3>4. \A d \in Threads : \A i \in 1 .. Len(deque[d]) : state'[deque[d][i]] # "unborn"
      BY <1>a, <2>2 DEF Entries, OneEntry
    <3>5. \A o \in Threads : item'[o] # None => state'[item'[o]] # "unborn"
      BY <1>a, <2>2 DEF Entries, OneEntry
    <3> QED
      BY <2>1, <3>1, <3>2, <3>3, <3>4, <3>5 DEF OneEntry
  <2>6. ASSUME NEW u \in Tasks, state'[u] = "pending", ~Exited'
        PROVE  Located(u)'
    <3>1. CASE u = t
      BY <2>2, <3>1 DEF Located, Holding
    <3>2. CASE u # t
      <4>1. ~Exited
        BY <2>1, <2>2, <2>6, Kinds DEF Exited, mt_start
      <4>2. Located(u)
        BY <2>2, <2>6, <3>2, <4>1 DEF Entries, Kept
      <4>3. \A o \in Threads : pc[o] \in Holding => o # th
        BY <2>1 DEF Holding
      <4> QED
        BY <2>1, <2>2, <4>2, <4>3 DEF Located
    <3> QED
      BY <3>1, <3>2
  <2> QED
    BY <2>5, <2>6 DEF Entries, Kept
<1>2. ASSUME NEW th \in Threads, deque_push(th)
      PROVE  Entries'
  <2> DEFINE x == item[th]
             n == Len(deque[th])
  <2>1. /\ pc[th] = "push" /\ deque' = [deque EXCEPT ![th] = Append(deque[th], x)]
        /\ item' = [item EXCEPT ![th] = None] /\ pc' = [pc EXCEPT ![th] = "count"] /\ state' = state
    BY <1>2 DEF deque_push
  <2>2. x \in Tasks
    BY <1>0, <2>1 DEF Registers
  <2>3. /\ Len(deque'[th]) = n + 1 /\ n \in Nat /\ deque'[th][n + 1] = x
        /\ \A i \in 1 .. n : deque'[th][i] = deque[th][i]
        /\ \A d \in Threads : d # th => deque'[d] = deque[d]
    BY <1>0, <1>a, <2>1, <2>2 DEF TypeOK
  <2>4. item'[th] = None /\ \A o \in Threads : o # th => item'[o] = item[o] /\ pc'[o] = pc[o]
    BY <1>0, <2>1 DEF TypeOK
  <2>5. \A d \in Threads : \A i \in 1 .. Len(deque'[d]) :
          \/ i \in 1 .. Len(deque[d]) /\ deque'[d][i] = deque[d][i]
          \/ d = th /\ i = n + 1 /\ deque'[d][i] = x /\ i \notin 1 .. Len(deque[d])
    BY <1>a, <2>3
  <2>6. \A d \in Threads : \A i \in 1 .. Len(deque[d]) :
          i \in 1 .. Len(deque'[d]) /\ deque'[d][i] = deque[d][i]
    BY <1>a, <2>3
  <2>7. OneEntry'
    <3>1. \A d \in Threads : \A i \in 1 .. Len(deque[d]) : deque[d][i] # x
      BY DEF Entries, OneEntry
    <3>2. ASSUME NEW d \in Threads, NEW e \in Threads, NEW i \in 1 .. Len(deque'[d]),
                 NEW j \in 1 .. Len(deque'[e]), deque'[d][i] = deque'[e][j]
          PROVE  d = e /\ i = j
      BY <2>5, <3>1, <3>2 DEF Entries, OneEntry
    <3>3. \A d, o \in Threads : \A i \in 1 .. Len(deque'[d]) : deque'[d][i] # item'[o]
      BY <1>a, <2>2, <2>4, <2>5, Kinds DEF Entries, OneEntry
    <3>4. \A p, o \in Threads : item'[p] # None /\ item'[p] = item'[o] => p = o
      BY <2>4 DEF Entries, OneEntry
    <3>5. \A d \in Threads : \A i \in 1 .. Len(deque'[d]) : state[deque'[d][i]] # "unborn"
      BY <2>2, <2>5, Kinds DEF Entries, OneEntry
    <3>6. \A o \in Threads : item'[o] # None => state[item'[o]] # "unborn"
      BY <2>4 DEF Entries, OneEntry
    <3> QED
      BY <2>1, <3>2, <3>3, <3>4, <3>5, <3>6 DEF OneEntry
  <2>8. ASSUME NEW u \in Tasks, state[u] = "pending", ~Exited'
        PROVE  Located(u)'
    <3>1. ~Exited
      BY <1>0, <2>1, <2>8, Kinds DEF Exited, TypeOK
    <3>2. Located(u)
      BY <2>8, <3>1 DEF Entries, Kept
    <3>3. CASE \E d \in Threads : \E i \in 1 .. Len(deque[d]) : deque[d][i] = u
      BY <2>6, <3>3 DEF Located
    <3>4. CASE item[th] = u
      <4>1. n + 1 \in 1 .. Len(deque'[th])
        BY <2>3
      <4> QED
        BY <2>3, <3>4, <4>1 DEF Located
    <3>5. ASSUME NEW o \in Threads, o # th, item[o] = u, pc[o] \in Holding
          PROVE  Located(u)'
      BY <2>4, <3>5 DEF Located
    <3> QED
      BY <3>2, <3>3, <3>4, <3>5 DEF Located
  <2> QED
    BY <2>1, <2>7, <2>8 DEF Entries, Kept
<1>3. ASSUME NEW th \in Threads, CountQueued(th)
      PROVE  Entries'
  BY <1>0, <1>3, MoveEntry DEF CountQueued, Holding
<1>4. ASSUME NEW th \in Threads, WakeAfterPush(th)
      PROVE  Entries'
  <2>1. deque' = deque /\ item' = item /\ state' = state
    BY <1>4 DEF WakeAfterPush
  <2>2. \A o \in Threads : /\ pc[o] \in Holding => pc'[o] \in Holding
                           /\ pc[o] = "exited" => pc'[o] = "exited"
    BY <1>0, <1>4 DEF WakeAfterPush, Broadcast, TypeOK, Holding
  <2> QED
    BY <1>0, <2>1, <2>2, QuietEntry, Kinds DEF Exited
<1>5. ASSUME NEW th \in Threads, Publish(th)
      PROVE  Entries'
  <2>1. /\ deque' = deque /\ item' = item /\ pc[th] = "body"
        /\ pc' = [pc EXCEPT ![th] = IF top[th] \in IoTasks THEN "iodec" ELSE "wakedone"]
    BY <1>5 DEF Publish
  <2>2. \A u \in Tasks : state'[u] = state[u] \/ state'[u] = "done"
    BY <1>0, <1>5 DEF Publish, TypeOK
  <2> QED
    BY <1>0, <2>1, <2>2, MoveEntry DEF Holding
<1>6. ASSUME NEW th \in Threads, IoFinished(th)
      PROVE  Entries'
  BY <1>0, <1>6, MoveEntry DEF IoFinished, Holding
<1>7. ASSUME NEW th \in Threads, WakeAfterDone(th)
      PROVE  Entries'
  <2>1. deque' = deque /\ item' = item /\ state' = state
    BY <1>7 DEF WakeAfterDone
  <2>2. \A o \in Threads : /\ pc[o] \in Holding => pc'[o] \in Holding
                           /\ pc[o] = "exited" => pc'[o] = "exited"
    BY <1>0, <1>7 DEF WakeAfterDone, Broadcast, LoopOf, TypeOK, Holding
  <2> QED
    BY <1>0, <2>1, <2>2, QuietEntry, Kinds DEF Exited
<1>8. ASSUME NEW th \in Threads, NEW t \in Tasks, THxPAR_await(th, t)
      PROVE  Entries'
  BY <1>0, <1>8, MoveEntry DEF THxPAR_await, Holding
<1>9. ASSUME NEW th \in Threads, AwaitDone(th)
      PROVE  Entries'
  BY <1>0, <1>9, MoveEntry DEF AwaitDone, Holding
<1>10. ASSUME NEW th \in Threads, AwaitNotDone(th)
      PROVE  Entries'
  BY <1>0, <1>10, MoveEntry DEF AwaitNotDone, Holding
<1>11. ASSUME NEW th \in Threads, AwaitClaim(th)
      PROVE  Entries'
  <2>1. /\ pc[th] = "claim" /\ deque' = deque /\ item' = item
        /\ pc' = [pc EXCEPT ![th] = "body"] \/ pc' = [pc EXCEPT ![th] = "scan"]
    BY <1>11 DEF AwaitClaim, Enter
  <2>2. \A u \in Tasks : state'[u] = state[u] \/ state'[u] = "running"
    BY <1>0, <1>11 DEF AwaitClaim, Enter, TypeOK
  <2> QED
    BY <1>0, <2>1, <2>2, MoveEntry DEF Holding
<1>12. ASSUME NEW th \in Threads, ScanTake(th)
      PROVE  Entries'
  <2> DEFINE d == (th + scan[th]) % NThreads
             x == deque_take(th, d)[1]
             q == deque_take(th, d)[2]
             n == Len(deque[d])
             k == IF d = th THEN n ELSE 1
             up(i) == IF d = th THEN i ELSE i + 1
  <2>1. /\ d \in Threads /\ deque[d] # <<>> /\ deque' = [deque EXCEPT ![d] = q]
        /\ item' = [item EXCEPT ![th] = x] /\ pc[th] = "scan"
        /\ pc' = [pc EXCEPT ![th] = "uncount"] /\ state' = state
    BY <1>0, <1>12, ScanInRange DEF ScanTake
  <2> HIDE DEF d
  <2>2. deque[d] \in Seq(Tasks) /\ n \in Nat \ {0} /\ k \in 1 .. n
    BY <1>a, <2>1
  <2>3. /\ x = deque[d][k] /\ Len(q) = n - 1
        /\ \A i \in 1 .. n - 1 : up(i) \in 1 .. n /\ up(i) # k /\ q[i] = deque[d][up(i)]
    <3>1. CASE d = th
      <4>1. x = deque[d][n] /\ q = Front(deque[d])
        BY <3>1 DEF deque_take, Last
      <4>2. Len(q) = n - 1 /\ \A i \in 1 .. n - 1 : q[i] = deque[d][i]
        BY <2>2, <4>1 DEF Front
      <4> QED
        BY <2>2, <3>1, <4>1, <4>2
    <3>2. CASE d # th
      <4>1. x = Head(deque[d]) /\ q = Tail(deque[d])
        BY <3>2 DEF deque_take
      <4>2. x = deque[d][1] /\ Len(q) = n - 1 /\ \A i \in 1 .. n - 1 : q[i] = deque[d][i + 1]
        BY <2>1, <2>2, <4>1
      <4> QED
        BY <2>2, <3>2, <4>1, <4>2
    <3> QED
      BY <3>1, <3>2
  <2>4. \A i, j \in 1 .. n - 1 : up(i) = up(j) => i = j
    OBVIOUS
  <2>5. \A i \in 1 .. n : i # k => \E j \in 1 .. n - 1 : up(j) = i
    <3> SUFFICES ASSUME NEW i \in 1 .. n, i # k
                 PROVE  \E j \in 1 .. n - 1 : up(j) = i
      OBVIOUS
    <3>1. CASE d = th
      <4>1. i \in 1 .. n - 1 /\ up(i) = i
        BY <2>2, <3>1
      <4> QED
        BY <4>1
    <3>2. CASE d # th
      <4>1. i - 1 \in 1 .. n - 1 /\ up(i - 1) = i
        BY <2>2, <3>2
      <4> QED
        BY <4>1
    <3> QED
      BY <3>1, <3>2
  <2>6. x \in Tasks
    BY <1>a, <2>1, <2>2, <2>3
  <2> HIDE DEF q, x, up, k
  <2>7. /\ deque'[d] = q /\ \A e \in Threads : e # d => deque'[e] = deque[e]
        /\ item'[th] = x /\ \A o \in Threads : o # th => item'[o] = item[o] /\ pc'[o] = pc[o]
        /\ pc'[th] = "uncount"
    BY <1>0, <2>1 DEF TypeOK
  <2>8. ASSUME NEW e \in Threads, NEW i \in 1 .. Len(deque'[e])
        PROVE  \/ e # d /\ i \in 1 .. Len(deque[e]) /\ deque'[e][i] = deque[e][i]
               \/ e = d /\ i \in 1 .. n - 1 /\ deque'[e][i] = deque[e][up(i)] /\ up(i) \in 1 .. Len(deque[e])
                  /\ up(i) # k
    BY <2>3, <2>7
  <2>9. OneEntry'
    <3>1. \A e \in Threads : \A i \in 1 .. Len(deque[e]) : deque[e][i] = x => e = d /\ i = k
      BY <2>1, <2>2, <2>3 DEF Entries, OneEntry
    <3>2. ASSUME NEW e \in Threads, NEW f \in Threads, NEW i \in 1 .. Len(deque'[e]),
                 NEW j \in 1 .. Len(deque'[f]), deque'[e][i] = deque'[f][j]
          PROVE  e = f /\ i = j
      <4>1. CASE e # d /\ f # d
        BY <2>8, <3>2, <4>1 DEF Entries, OneEntry
      <4>2. CASE e = d /\ f = d
        <5>1. /\ i \in 1 .. n - 1 /\ deque'[e][i] = deque[e][up(i)] /\ up(i) \in 1 .. Len(deque[e])
              /\ j \in 1 .. n - 1 /\ deque'[f][j] = deque[f][up(j)] /\ up(j) \in 1 .. Len(deque[f])
          BY <2>8, <4>2
        <5>2. up(i) = up(j)
          <6>1. deque[d][up(i)] = deque[d][up(j)] /\ up(i) \in 1 .. Len(deque[d]) /\ up(j) \in 1 .. Len(deque[d])
            BY <3>2, <4>2, <5>1
          <6> QED
            BY <6>1, <2>1 DEF Entries, OneEntry
        <5> QED
          BY <2>4, <4>2, <5>1, <5>2
      <4>3. CASE e = d /\ f # d
        <5>1. deque'[e][i] = deque[e][up(i)] /\ up(i) \in 1 .. Len(deque[e])
          BY <2>8, <4>3
        <5>2. deque'[f][j] = deque[f][j] /\ j \in 1 .. Len(deque[f])
          BY <2>8, <4>3
        <5> QED
          BY <3>2, <4>3, <5>1, <5>2 DEF Entries, OneEntry
      <4>4. CASE e # d /\ f = d
        <5>1. deque'[e][i] = deque[e][i] /\ i \in 1 .. Len(deque[e])
          BY <2>8, <4>4
        <5>2. deque'[f][j] = deque[f][up(j)] /\ up(j) \in 1 .. Len(deque[f])
          BY <2>8, <4>4
        <5> QED
          BY <3>2, <4>4, <5>1, <5>2 DEF Entries, OneEntry
      <4> QED
        BY <4>1, <4>2, <4>3, <4>4
    <3>3. ASSUME NEW e \in Threads, NEW o \in Threads, NEW i \in 1 .. Len(deque'[e])
          PROVE  deque'[e][i] # item'[o]
      <4>1. CASE o = th
        <5>1. item'[o] = x
          BY <2>7, <4>1
        <5>2. \E j \in 1 .. Len(deque[e]) : deque'[e][i] = deque[e][j] /\ (e = d => j # k)
          BY <2>8
        <5> QED
          BY <3>1, <5>1, <5>2
      <4>2. CASE o # th
        <5>1. item'[o] = item[o]
          BY <2>7, <4>2
        <5>2. \E j \in 1 .. Len(deque[e]) : deque'[e][i] = deque[e][j]
          BY <2>8
        <5> QED
          BY <5>1, <5>2 DEF Entries, OneEntry
      <4> QED
        BY <4>1, <4>2
    <3>4. \A p, o \in Threads : item'[p] # None /\ item'[p] = item'[o] => p = o
      BY <2>1, <2>2, <2>3, <2>7 DEF Entries, OneEntry
    <3>5. \A e \in Threads : \A i \in 1 .. Len(deque'[e]) : state[deque'[e][i]] # "unborn"
      BY <2>8 DEF Entries, OneEntry
    <3>6. \A o \in Threads : item'[o] # None => state[item'[o]] # "unborn"
      BY <2>1, <2>2, <2>3, <2>7 DEF Entries, OneEntry
    <3> QED
      BY <2>1, <3>2, <3>3, <3>4, <3>5, <3>6 DEF OneEntry
  <2>10. ASSUME NEW u \in Tasks, state[u] = "pending", ~Exited'
         PROVE  Located(u)'
    <3>1. ~Exited
      BY <1>0, <2>1, <2>7, <2>10, Kinds DEF Exited
    <3>2. Located(u)
      BY <2>10, <3>1 DEF Entries, Kept
    <3>3. ASSUME NEW e \in Threads, NEW i \in 1 .. Len(deque[e]), deque[e][i] = u
          PROVE  Located(u)'
      <4>1. CASE e # d
        BY <2>7, <3>3, <4>1 DEF Located
      <4>2. CASE e = d /\ i = k
        BY <2>3, <2>7, <3>3, <4>2 DEF Located, Holding
      <4>3. CASE e = d /\ i # k
        <5>1. PICK j \in 1 .. n - 1 : up(j) = i
          BY <2>5, <4>3
        <5>2. j \in 1 .. Len(deque'[d]) /\ deque'[d][j] = u
          BY <2>3, <2>7, <3>3, <4>3, <5>1
        <5> QED
          BY <2>1, <5>2 DEF Located
      <4> QED
        BY <4>1, <4>2, <4>3
    <3>4. ASSUME NEW o \in Threads, item[o] = u, pc[o] \in Holding
          PROVE  Located(u)'
      <4>1. o # th
        BY <2>1, <3>4 DEF Holding
      <4> QED
        BY <2>7, <3>4, <4>1 DEF Located
    <3> QED
      BY <3>2, <3>3, <3>4 DEF Located
  <2> QED
    BY <2>1, <2>9, <2>10 DEF Entries, Kept
<1>13. ASSUME NEW th \in Threads, ScanNext(th)
      PROVE  Entries'
  BY <1>0, <1>13, MoveEntry DEF ScanNext, Holding
<1>14. ASSUME NEW th \in Threads, UncountQueued(th)
      PROVE  Entries'
  BY <1>0, <1>14, MoveEntry DEF UncountQueued, Holding
<1>15. ASSUME NEW th \in Threads, mt_run_entry(th)
      PROVE  Entries'
  <2>1. /\ pc[th] = "entry" /\ deque' = deque /\ item' = [item EXCEPT ![th] = None]
        /\ item[th] \in Tasks
    BY <1>0, <1>15 DEF mt_run_entry, Registers
  <2>2. item'[th] = None /\ \A o \in Threads : o # th => item'[o] = item[o]
    BY <1>0, <2>1 DEF TypeOK
  <2>3. /\ \A u \in Tasks : state'[u] = state[u] \/ state'[u] = "running"
        /\ state'[item[th]] # "pending"
    BY <1>0, <1>15, <2>1 DEF mt_run_entry, Enter, task_claim, TypeOK
  <2>4. \A o \in Threads : IF o = th THEN pc'[o] \in {"body", "scan", "load"} ELSE pc'[o] = pc[o]
    BY <1>0, <1>15 DEF mt_run_entry, Enter, LoopOf, TypeOK
  <2>5. OneEntry'
    <3>1. \A d, o \in Threads : \A i \in 1 .. Len(deque[d]) : deque[d][i] # item'[o]
      BY <1>a, <2>2, Kinds DEF Entries, OneEntry
    <3>2. \A p, o \in Threads : item'[p] # None /\ item'[p] = item'[o] => p = o
      BY <2>2 DEF Entries, OneEntry
    <3>3. \A d \in Threads : \A i \in 1 .. Len(deque[d]) : state'[deque[d][i]] # "unborn"
      BY <1>a, <2>3 DEF Entries, OneEntry
    <3>4. \A o \in Threads : item'[o] # None => state'[item'[o]] # "unborn"
      BY <1>a, <2>2, <2>3 DEF Entries, OneEntry
    <3> QED
      BY <2>1, <3>1, <3>2, <3>3, <3>4 DEF Entries, OneEntry
  <2>6. ASSUME NEW u \in Tasks, state'[u] = "pending", ~Exited'
        PROVE  Located(u)'
    <3>1. ~Exited /\ state[u] = "pending" /\ u # item[th]
      BY <2>1, <2>3, <2>4, <2>6, Kinds DEF Exited
    <3>2. Located(u)
      BY <3>1 DEF Entries, Kept
    <3> QED
      BY <2>1, <2>2, <2>4, <3>1, <3>2 DEF Located
  <2> QED
    BY <2>5, <2>6 DEF Entries, Kept
<1>16. ASSUME NEW th \in Threads, SleepTest(th)
      PROVE  Entries'
  <2>1. /\ deque' = deque /\ item' = item /\ state' = state /\ pc[th] \in {"test", "woken"}
        /\ pc' = [pc EXCEPT ![th] = IF ~WaitIsOver(top[th]) THEN "test2"
                                    ELSE IF top[th] \in Workers THEN "exited" ELSE "load"]
    BY <1>16 DEF SleepTest
  <2> QED
    BY <1>0, <2>1, MoveEntry DEF Holding
<1>17. ASSUME NEW th \in Threads, SleepOrRescan(th)
      PROVE  Entries'
  BY <1>0, <1>17, MoveEntry DEF SleepOrRescan, LoopOf, Holding
<1>18. ASSUME NEW th \in Threads, SpuriousWake(th)
      PROVE  Entries'
  BY <1>0, <1>18, MoveEntry DEF SpuriousWake, Holding
<1>19. ASSUME NEW th \in Threads, MainReturns(th)
      PROVE  Entries'
  BY <1>0, <1>19, MoveEntry DEF MainReturns, Holding
<1>20. ASSUME NEW th \in Threads, ShowReturns(th)
      PROVE  Entries'
  BY <1>0, <1>20, MoveEntry DEF ShowReturns, Holding
<1>21. ASSUME NEW th \in Threads, THxPAR_join_io(th)
      PROVE  Entries'
  BY <1>0, <1>21, MoveEntry DEF THxPAR_join_io, Holding
<1>22. ASSUME NEW th \in Threads, ShutdownStop(th)
      PROVE  Entries'
  <2>1. deque' = deque /\ item' = item /\ state' = state
    BY <1>22 DEF ShutdownStop
  <2>2. \A o \in Threads : /\ pc[o] \in Holding => pc'[o] \in Holding
                           /\ pc[o] = "exited" => pc'[o] = "exited"
    BY <1>0, <1>22 DEF ShutdownStop, Broadcast, TypeOK, Holding
  <2> QED
    BY <1>0, <2>1, <2>2, QuietEntry, Kinds DEF Exited
<1>23. ASSUME NEW th \in Threads, ShutdownJoin(th)
      PROVE  Entries'
  <2>1. /\ th = 0 /\ deque' = [d \in Threads |-> <<>>] /\ item' = item /\ state' = state
        /\ pc' = [pc EXCEPT ![th] = "exited"]
    BY <1>23 DEF ShutdownJoin, MainEnds
  <2>2. Exited'
    BY <1>0, <2>1, Kinds DEF Exited, TypeOK
  <2>3. \A d \in Threads : 1 .. Len(deque'[d]) = {}
    BY <2>1
  <2>4. OneEntry'
    BY <2>1, <2>3 DEF Entries, OneEntry
  <2> QED
    BY <2>2, <2>4 DEF Entries, Kept
<1>24. CASE UNCHANGED vars
  BY <1>24 DEF vars, Entries, OneEntry, Kept, Located, Exited
<1>25. QED
  BY <1>1, <1>2, <1>3, <1>4, <1>5, <1>6, <1>7, <1>8, <1>9, <1>10, <1>11,
     <1>12, <1>13, <1>14, <1>15, <1>16, <1>17, <1>18, <1>19, <1>20,
     <1>21, <1>22, <1>23, <1>24
     DEF Next, Step, SpawnStep, ExecStep, AwaitStep, HelpStep, EndStep


-----------------------------------------------------------------------------
(***************************************************************************)
(* With no push waiting to be counted, g_queued is exact: at most one      *)
(* entry per task keeps the count below the wrap.                          *)
(***************************************************************************)
LEMMA QueuedExact ==
  ASSUME Structure, OneEntry, Counted, At("count") = {}
  PROVE  queued = Cardinality(Slots) + Cardinality(At("uncount"))
<1> DEFINE U == At("uncount")
           f == [p \in Slots |-> deque[p[1]][p[2]]]
           g == [o \in U |-> item[o]]
           T1 == {t \in Tasks : \E p \in Slots : f[p] = t}
           T2 == {t \in Tasks : \E o \in U : g[o] = t}
<1>0. TypeOK /\ Registers
  BY DEF Structure
<1>1. \A p \in Slots : \E d \in Threads : \E i \in 1 .. Len(deque[d]) : p = <<d, i>> /\ f[p] = deque[d][i]
  <2> SUFFICES ASSUME NEW p \in Slots
               PROVE  \E d \in Threads : \E i \in 1 .. Len(deque[d]) : p = <<d, i>> /\ f[p] = deque[d][i]
    OBVIOUS
  <2>1. PICK d \in Threads : \E i \in 1 .. Len(deque[d]) : p = <<d, i>>
    BY <1>0, SlotsLong DEF TypeOK
  <2>2. PICK i \in 1 .. Len(deque[d]) : p = <<d, i>>
    BY <2>1
  <2>3. f[p] = deque[p[1]][p[2]] /\ p[1] = d /\ p[2] = i
    BY <2>2
  <2> QED
    BY <2>2, <2>3
<1>2. f \in Injection(Slots, T1)
  <2>1. \A p \in Slots : f[p] \in Tasks
    BY <1>0, <1>1 DEF TypeOK
  <2>2. f \in [Slots -> T1]
    BY <2>1
  <2>3. \A p, q \in Slots : f[p] = f[q] => p = q
    <3> SUFFICES ASSUME NEW p \in Slots, NEW q \in Slots, f[p] = f[q]
                 PROVE  p = q
      OBVIOUS
    <3>1. PICK d \in Threads : \E i \in 1 .. Len(deque[d]) : p = <<d, i>> /\ f[p] = deque[d][i]
      BY <1>1
    <3>2. PICK i \in 1 .. Len(deque[d]) : p = <<d, i>> /\ f[p] = deque[d][i]
      BY <3>1
    <3>3. PICK e \in Threads : \E j \in 1 .. Len(deque[e]) : q = <<e, j>> /\ f[q] = deque[e][j]
      BY <1>1
    <3>4. PICK j \in 1 .. Len(deque[e]) : q = <<e, j>> /\ f[q] = deque[e][j]
      BY <3>3
    <3> HIDE DEF f
    <3>5. deque[d][i] = deque[e][j]
      BY <3>2, <3>4
    <3>6. d = e /\ i = j
      BY <3>5 DEF OneEntry
    <3> QED
      BY <3>2, <3>4, <3>6
  <2> HIDE DEF f, T1
  <2> QED
    BY <2>2, <2>3, Fun_IsInj
<1>3. g \in Injection(U, T2)
  <2>1. \A o \in U : o \in Threads /\ g[o] = item[o] /\ item[o] \in Tasks
    BY <1>0 DEF At, Registers
  <2>2. g \in [U -> T2]
    BY <2>1
  <2>3. \A o, p \in U : g[o] = g[p] => o = p
    BY <2>1, Kinds DEF OneEntry
  <2> HIDE DEF g, U, T2
  <2> QED
    BY <2>2, <2>3, Fun_IsInj
<1>4. T1 \cap T2 = {}
  <2> SUFFICES ASSUME NEW t \in T1, t \in T2
               PROVE  FALSE
    OBVIOUS
  <2>1. PICK p \in Slots : f[p] = t
    OBVIOUS
  <2>2. PICK o \in U : g[o] = t
    OBVIOUS
  <2>3. o \in Threads /\ item[o] = t
    BY <2>2 DEF At
  <2>4. PICK d \in Threads : \E i \in 1 .. Len(deque[d]) : f[p] = deque[d][i]
    BY <1>1
  <2> HIDE DEF f
  <2> QED
    BY <2>1, <2>3, <2>4 DEF OneEntry
<1>5. T1 \in SUBSET Tasks /\ T2 \in SUBSET Tasks /\ T1 \cup T2 \in SUBSET Tasks
  OBVIOUS
<1> HIDE DEF f, g, T1, T2, U
<1>6. IsFiniteSet(Tasks)
  BY PoolAssumption
<1>7. /\ IsFiniteSet(T1) /\ IsFiniteSet(T2) /\ IsFiniteSet(T1 \cup T2)
      /\ Cardinality(T1 \cup T2) <= Cardinality(Tasks)
  BY <1>5, <1>6, FS_Subset
<1>8. Cardinality(Slots) <= Cardinality(T1)
  BY <1>2, <1>7, FS_Injection
<1>9. Cardinality(U) <= Cardinality(T2)
  BY <1>3, <1>7, FS_Injection
<1>10. Cardinality(T1 \cup T2) = Cardinality(T1) + Cardinality(T2)
  <2>1. Cardinality(T1 \cup T2) = Cardinality(T1) + Cardinality(T2) - Cardinality(T1 \cap T2)
    BY <1>7, FS_Union
  <2>2. Cardinality(T1) \in Nat /\ Cardinality(T2) \in Nat
    BY <1>7, FS_CardinalityType
  <2> QED
    BY <1>4, <2>1, <2>2, FS_EmptySet
<1>11. /\ Cardinality(T1) \in Nat /\ Cardinality(T2) \in Nat /\ Cardinality(Tasks) \in Nat
       /\ Cardinality(Slots) \in Nat /\ Cardinality(U) \in Nat
  BY <1>6, <1>7, FS_CardinalityType, AtFinite DEF U, Counted
<1>12. Wrap \in Nat \ {0} /\ Cardinality(Tasks) < Wrap
  BY PoolAssumption
<1> DEFINE s == Cardinality(Slots) + Cardinality(U)
<1>13. s \in 0 .. Wrap - 1
  BY <1>7, <1>8, <1>9, <1>10, <1>11, <1>12
<1>14. Cardinality(At("count")) = 0
  BY FS_EmptySet
<1>15. queued = (s + Wrap) % Wrap
  <2>1. queued = (Cardinality(Slots) + Cardinality(U) + Wrap - Cardinality(At("count"))) % Wrap
    BY CountForm DEF Counted, U
  <2>2. Cardinality(Slots) + Cardinality(U) + Wrap - 0 = s + Wrap
    BY <1>11, <1>12
  <2> QED
    BY <1>14, <2>1, <2>2
<1> HIDE DEF s
<1>16. (s + Wrap) % Wrap = s % Wrap
  <2>1. s \in Int
    BY <1>13
  <2> QED
    BY <1>12, <2>1, ModWrap, Zenon
<1>17. s % Wrap = s
  BY <1>12, <1>13
<1> QED
  BY <1>15, <1>16, <1>17 DEF s, U


-----------------------------------------------------------------------------
(***************************************************************************)
(* Who may sleep.  A thread that has made the first load of its sleep test *)
(* and is not yet asleep holds g_mt_mu, so whoever ends its wait in between*)
(* cannot broadcast before it sleeps.                                      *)
(***************************************************************************)
Sleepy == {"test2", "asleep"}

Sound(th) ==
  /\ top[th] \in Workers => ~stop
  /\ top[th] \notin Workers /\ awaits[top[th]] # None /\ state[awaits[top[th]]] = "done" =>
       \E o \in Threads : pc[o] \in Finishing /\ top[o] = awaits[top[th]]
  /\ top[th] \notin Workers /\ awaits[top[th]] = None /\ ioPending <= 0 =>
       \E o \in Threads : pc[o] \in Finishing

Sleepers == \A th \in Threads : pc[th] \in Sleepy => Sound(th)

QueueSeen ==
  \A th \in Threads : pc[th] = "asleep" /\ queued # 0 => \E o \in Threads : pc[o] \in {"count", "wake"}

\* A step that ends no wait and takes no witness away.
LEMMA QuietSleep ==
  ASSUME Structure, Sleepers, stop' => stop, ioPending' = ioPending \/ ioPending' = ioPending + 1,
         \A o \in Threads : pc'[o] \in Sleepy =>
           /\ pc[o] \in Sleepy
           /\ top'[o] = top[o] /\ awaits'[top[o]] = awaits[top[o]],
         \A t \in Tasks : state'[t] = "done" => state[t] = "done",
         \A o \in Threads : pc[o] \in Finishing => pc'[o] \in Finishing /\ top'[o] = top[o]
  PROVE  Sleepers'
<1> SUFFICES ASSUME NEW th \in Threads, pc'[th] \in Sleepy
             PROVE  Sound(th)'
  BY DEF Sleepers
<1>1. /\ Sound(th) /\ top'[th] = top[th] /\ awaits'[top[th]] = awaits[top[th]]
      /\ awaits[top[th]] \in Tasks \cup {None} /\ ioPending \in Int
  BY DEF Sleepers, Structure, TypeOK
<1>2. top[th] \in Workers => ~stop'
  BY <1>1 DEF Sound
<1>3. top[th] \notin Workers /\ awaits[top[th]] # None /\ state'[awaits[top[th]]] = "done" =>
        \E o \in Threads : pc'[o] \in Finishing /\ top'[o] = awaits[top[th]]
  BY <1>1 DEF Sound
<1>4. top[th] \notin Workers /\ awaits[top[th]] = None /\ ioPending' <= 0 =>
        \E o \in Threads : pc'[o] \in Finishing
  <2>1. ioPending' <= 0 => ioPending <= 0
    BY <1>1
  <2> QED
    BY <1>1, <2>1 DEF Sound
<1> QED
  BY <1>1, <1>2, <1>3, <1>4 DEF Sound

\* The same, when th alone moves and changes its own activity at most.
LEMMA MoveSleep ==
  ASSUME Structure, Sleepers, NEW th \in Threads, NEW l, stop' => stop, ioPending' = ioPending,
         pc' = [pc EXCEPT ![th] = l],
         pc[th] \notin Finishing, l \in Sleepy => pc[th] \in Sleepy /\ top' = top /\ awaits' = awaits,
         top' = top \/ \E t \in Tasks : top' = [top EXCEPT ![th] = t],
         awaits' = awaits \/ \E w : awaits' = [awaits EXCEPT ![top[th]] = w],
         \A t \in Tasks : state'[t] = "done" => state[t] = "done"
  PROVE  Sleepers'
<1>0. TypeOK
  BY DEF Structure
<1>1. \A o \in Threads : IF o = th THEN pc'[o] = l ELSE pc'[o] = pc[o]
  BY <1>0 DEF TypeOK
<1>2. \A o \in Threads : o # th => top'[o] = top[o]
  BY <1>0 DEF TypeOK
<1>3. \A o \in Threads : o # th => top[o] # top[th] /\ top[o] \in Activities /\ top[th] \in Activities
  BY <1>0, DistinctTops DEF TypeOK
<1>4. \A o \in Threads : o # th => awaits'[top[o]] = awaits[top[o]]
  BY <1>0, <1>3 DEF TypeOK
<1>5. \A o \in Threads : pc'[o] \in Sleepy =>
        pc[o] \in Sleepy /\ top'[o] = top[o] /\ awaits'[top[o]] = awaits[top[o]]
  BY <1>1, <1>2, <1>4
<1>6. \A o \in Threads : pc[o] \in Finishing => pc'[o] \in Finishing /\ top'[o] = top[o]
  BY <1>1, <1>2
<1> QED
  BY <1>5, <1>6, QuietSleep

\* After a broadcast nobody sleeps, and nobody is about to.
LEMMA BroadcastSleep ==
  ASSUME TypeOK, Mutex, mu = None, NEW th \in Threads, NEW l,
         pc' = [Broadcast(pc) EXCEPT ![th] = l], l \notin Sleepy
  PROVE  \A o \in Threads : pc'[o] \notin Sleepy
<1>1. \A o \in Threads : pc[o] # "test2"
  BY Kinds DEF Mutex
<1>2. \A o \in Threads : pc'[o] = IF o = th THEN l ELSE IF pc[o] = "asleep" THEN "woken" ELSE pc[o]
  BY DEF Broadcast
<1> QED
  BY <1>1, <1>2 DEF Sleepy

LEMMA SleepStep ==
  ASSUME Structure, Mutex, Sleepers, [Next]_vars
  PROVE  Sleepers'
<1> USE DEF Goto
<1>0. TypeOK /\ Registers /\ Progress
  BY DEF Structure
<1>1. ASSUME NEW th \in Threads, NEW t \in Tasks, SpawnTask(th, t)
      PROVE  Sleepers'
  <2>1. /\ pc[th] = "body" /\ pc' = [mt_start(pc) EXCEPT ![th] = "push"] /\ top' = top
        /\ awaits' = awaits /\ stop' = stop /\ state' = [state EXCEPT ![t] = "pending"]
    BY <1>1 DEF SpawnTask
  <2>2. ioPending' = ioPending \/ ioPending' = ioPending + 1
    BY <1>1 DEF SpawnTask
  <2>3. \A o \in Threads : pc'[o] = IF o = th THEN "push" ELSE IF pc[o] = "off" THEN "scan" ELSE pc[o]
    BY <1>0, <2>1 DEF mt_start, TypeOK
  <2>4. \A u \in Tasks : state'[u] = "done" => state[u] = "done"
    BY <1>0, <2>1 DEF TypeOK
  <2> QED
    BY <2>1, <2>2, <2>3, <2>4, QuietSleep DEF Sleepy, Finishing
<1>2. ASSUME NEW th \in Threads, deque_push(th)
      PROVE  Sleepers'
  BY <1>0, <1>2, MoveSleep DEF deque_push, TypeOK, Sleepy, Finishing
<1>3. ASSUME NEW th \in Threads, CountQueued(th)
      PROVE  Sleepers'
  BY <1>0, <1>3, MoveSleep DEF CountQueued, TypeOK, Sleepy, Finishing
<1>4. ASSUME NEW th \in Threads, WakeAfterPush(th)
      PROVE  Sleepers'
  <2>1. \A o \in Threads : pc'[o] \notin Sleepy
    <3>1. mu = None /\ pc' = [Broadcast(pc) EXCEPT ![th] = "body"]
      BY <1>4 DEF WakeAfterPush
    <3>2. "body" \notin Sleepy
      BY DEF Sleepy, LoopOf
    <3> QED
      BY <1>0, <3>1, <3>2, BroadcastSleep
  <2> QED
    BY <2>1 DEF Sleepers
<1>5. ASSUME NEW th \in Threads, Publish(th)
      PROVE  Sleepers'
  <2> DEFINE u == top[th]
             l == IF u \in IoTasks THEN "iodec" ELSE "wakedone"
  <2>1. /\ pc[th] = "body" /\ u \in Tasks /\ state' = [state EXCEPT ![u] = "done"]
        /\ pc' = [pc EXCEPT ![th] = l] /\ top' = top /\ awaits' = awaits /\ stop' = stop
        /\ ioPending' = ioPending
    BY <1>5 DEF Publish
  <2>2. l \in Finishing /\ l \notin Sleepy
    BY DEF Finishing, Sleepy
  <2> HIDE DEF u, l
  <2>3. \A o \in Threads : pc'[o] = IF o = th THEN l ELSE pc[o]
    BY <1>0, <2>1 DEF TypeOK
  <2>4. \A v \in Tasks : state'[v] = IF v = u THEN "done" ELSE state[v]
    BY <1>0, <2>1 DEF TypeOK
  <2>5. \A o \in Threads : pc[o] \in Finishing => pc'[o] \in Finishing
    BY <2>1, <2>2, <2>3
  <2> SUFFICES ASSUME NEW o \in Threads, pc'[o] \in Sleepy
               PROVE  Sound(o)'
    BY DEF Sleepers
  <2>6. Sound(o) /\ awaits[top[o]] \in Tasks \cup {None}
    BY <1>0, <2>2, <2>3 DEF Sleepers, TypeOK
  <2>7. awaits[top[o]] # None /\ awaits[top[o]] # u /\ state'[awaits[top[o]]] = "done" => state[awaits[top[o]]] = "done"
    BY <2>4, <2>6
  <2>8. pc'[th] \in Finishing /\ top'[th] = u
    BY <2>1, <2>2, <2>3 DEF u
  <2> QED
    BY <2>1, <2>5, <2>6, <2>7, <2>8 DEF Sound
<1>6. ASSUME NEW th \in Threads, IoFinished(th)
      PROVE  Sleepers'
  <2>1. /\ pc[th] = "iodec" /\ state' = state /\ pc' = [pc EXCEPT ![th] = "wakedone"]
        /\ top' = top /\ awaits' = awaits /\ stop' = stop
    BY <1>6 DEF IoFinished
  <2>2. \A o \in Threads : pc'[o] = IF o = th THEN "wakedone" ELSE pc[o]
    BY <1>0, <2>1 DEF TypeOK
  <2>3. \A o \in Threads : /\ pc[o] \in Finishing => pc'[o] \in Finishing
                           /\ pc'[o] \in Sleepy => pc[o] \in Sleepy
    BY <2>1, <2>2 DEF Finishing, Sleepy
  <2>4. pc'[th] \in Finishing
    BY <2>2 DEF Finishing
  <2> QED
    BY <2>1, <2>3, <2>4 DEF Sleepers, Sound
<1>7. ASSUME NEW th \in Threads, WakeAfterDone(th)
      PROVE  Sleepers'
  <2>1. \A o \in Threads : pc'[o] \notin Sleepy
    <3>1. mu = None /\ pc' = [Broadcast(pc) EXCEPT ![th] = LoopOf(below[top[th]])]
      BY <1>7 DEF WakeAfterDone
    <3>2. LoopOf(below[top[th]]) \notin Sleepy
      BY DEF Sleepy, LoopOf
    <3> QED
      BY <1>0, <3>1, <3>2, BroadcastSleep
  <2> QED
    BY <2>1 DEF Sleepers
<1>8. ASSUME NEW th \in Threads, NEW t \in Tasks, THxPAR_await(th, t)
      PROVE  Sleepers'
  BY <1>0, <1>8, MoveSleep DEF THxPAR_await, TypeOK, Sleepy, Finishing
<1>9. ASSUME NEW th \in Threads, AwaitDone(th)
      PROVE  Sleepers'
  BY <1>0, <1>9, MoveSleep DEF AwaitDone, TypeOK, Sleepy, Finishing
<1>10. ASSUME NEW th \in Threads, AwaitNotDone(th)
      PROVE  Sleepers'
  BY <1>0, <1>10, MoveSleep DEF AwaitNotDone, TypeOK, Sleepy, Finishing
<1>11. ASSUME NEW th \in Threads, AwaitClaim(th)
      PROVE  Sleepers'
  <2> DEFINE u == awaits[top[th]]
  <2>1. u \in Tasks /\ pc[th] = "claim"
    BY <1>0, <1>11 DEF AwaitClaim, Registers
  <2>2. CASE task_claim(u) /\ Enter(th, u)
    BY <1>0, <1>11, <2>1, <2>2, MoveSleep DEF AwaitClaim, Enter, TypeOK, Sleepy, Finishing
  <2>3. CASE ~task_claim(u) /\ pc' = [pc EXCEPT ![th] = "scan"] /\ UNCHANGED <<state, on, below, top, calls>>
    BY <1>0, <1>11, <2>1, <2>3, MoveSleep DEF AwaitClaim, Sleepy, Finishing
  <2> QED
    BY <1>11, <2>2, <2>3 DEF AwaitClaim
<1>12. ASSUME NEW th \in Threads, ScanTake(th)
      PROVE  Sleepers'
  BY <1>0, <1>12, MoveSleep DEF ScanTake, TypeOK, Sleepy, Finishing
<1>13. ASSUME NEW th \in Threads, ScanNext(th)
      PROVE  Sleepers'
  BY <1>0, <1>13, MoveSleep DEF ScanNext, TypeOK, Sleepy, Finishing
<1>14. ASSUME NEW th \in Threads, UncountQueued(th)
      PROVE  Sleepers'
  BY <1>0, <1>14, MoveSleep DEF UncountQueued, TypeOK, Sleepy, Finishing
<1>15. ASSUME NEW th \in Threads, mt_run_entry(th)
      PROVE  Sleepers'
  <2> DEFINE u == item[th]
  <2>1. u \in Tasks /\ pc[th] = "entry"
    BY <1>0, <1>15 DEF mt_run_entry, Registers
  <2>2. CASE task_claim(u) /\ Enter(th, u)
    BY <1>0, <1>15, <2>1, <2>2, MoveSleep DEF mt_run_entry, Enter, TypeOK, Sleepy, Finishing
  <2>3. CASE ~task_claim(u) /\ pc' = [pc EXCEPT ![th] = LoopOf(top[th])] /\ UNCHANGED <<state, on, below, top, calls>>
    BY <1>0, <1>15, <2>1, <2>3, MoveSleep DEF mt_run_entry, Sleepy, Finishing, LoopOf
  <2> QED
    BY <1>15, <2>2, <2>3 DEF mt_run_entry
<1>16. ASSUME NEW th \in Threads, SleepTest(th)
      PROVE  Sleepers'
  <2> DEFINE over == WaitIsOver(top[th])
             l == IF ~over THEN "test2" ELSE IF top[th] \in Workers THEN "exited" ELSE "load"
  <2>1. /\ pc[th] \in {"test", "woken"} /\ pc' = [pc EXCEPT ![th] = l]
        /\ UNCHANGED <<state, stop, top, awaits, ioPending>>
    BY <1>16 DEF SleepTest
  <2>2. \A o \in Threads : pc'[o] = IF o = th THEN l ELSE pc[o]
    BY <1>0, <2>1 DEF TypeOK
  <2>3. l \in Sleepy => Sound(th)
    BY DEF WaitIsOver, Sound, Sleepy
  <2> HIDE DEF l
  <2>4. \A o \in Threads : pc[o] \in Finishing => pc'[o] \in Finishing
    BY <2>1, <2>2 DEF Finishing
  <2>5. \A o \in Threads : pc'[o] \in Sleepy => Sound(o)
    BY <2>2, <2>3 DEF Sleepers
  <2> QED
    BY <2>1, <2>4, <2>5 DEF Sleepers, Sound
<1>17. ASSUME NEW th \in Threads, SleepOrRescan(th)
      PROVE  Sleepers'
  BY <1>0, <1>17, MoveSleep DEF SleepOrRescan, LoopOf, TypeOK, Sleepy, Finishing
<1>18. ASSUME NEW th \in Threads, SpuriousWake(th)
      PROVE  Sleepers'
  BY <1>0, <1>18, MoveSleep DEF SpuriousWake, TypeOK, Sleepy, Finishing
<1>19. ASSUME NEW th \in Threads, MainReturns(th)
      PROVE  Sleepers'
  BY <1>0, <1>19, MoveSleep DEF MainReturns, TypeOK, Sleepy, Finishing
<1>20. ASSUME NEW th \in Threads, ShowReturns(th)
      PROVE  Sleepers'
  BY <1>0, <1>20, MoveSleep DEF ShowReturns, TypeOK, Sleepy, Finishing
<1>21. ASSUME NEW th \in Threads, THxPAR_join_io(th)
      PROVE  Sleepers'
  BY <1>0, <1>21, MoveSleep DEF THxPAR_join_io, TypeOK, Sleepy, Finishing
<1>22. ASSUME NEW th \in Threads, ShutdownStop(th)
      PROVE  Sleepers'
  <2>1. \A o \in Threads : pc'[o] \notin Sleepy
    <3>1. mu = None /\ pc' = [Broadcast(pc) EXCEPT ![th] = "join"]
      BY <1>22 DEF ShutdownStop
    <3>2. "join" \notin Sleepy
      BY DEF Sleepy, LoopOf
    <3> QED
      BY <1>0, <3>1, <3>2, BroadcastSleep
  <2> QED
    BY <2>1 DEF Sleepers
<1>23. ASSUME NEW th \in Threads, ShutdownJoin(th)
      PROVE  Sleepers'
  BY <1>0, <1>23, MoveSleep DEF ShutdownJoin, TypeOK, Sleepy, Finishing
<1>24. CASE UNCHANGED vars
  BY <1>24 DEF vars, Sleepers, Sound
<1>25. QED
  BY <1>1, <1>2, <1>3, <1>4, <1>5, <1>6, <1>7, <1>8, <1>9, <1>10, <1>11,
     <1>12, <1>13, <1>14, <1>15, <1>16, <1>17, <1>18, <1>19, <1>20,
     <1>21, <1>22, <1>23, <1>24
     DEF Next, Step, SpawnStep, ExecStep, AwaitStep, HelpStep, EndStep

LEMMA QuietQueue ==
  ASSUME QueueSeen, queued' # 0 => queued # 0,
         \A o \in Threads : pc'[o] = "asleep" => pc[o] = "asleep",
         \A o \in Threads : pc[o] \in {"count", "wake"} => pc'[o] \in {"count", "wake"}
  PROVE  QueueSeen'
BY DEF QueueSeen

LEMMA MoveQueue ==
  ASSUME TypeOK, QueueSeen, NEW th \in Threads, NEW l, queued' # 0 => queued # 0,
         pc' = [pc EXCEPT ![th] = l], pc[th] \notin {"count", "wake"}, l # "asleep"
  PROVE  QueueSeen'
<1>1. \A o \in Threads : pc'[o] = IF o = th THEN l ELSE pc[o]
  BY DEF TypeOK
<1> QED
  BY <1>1, QuietQueue

LEMMA QueueStep ==
  ASSUME Structure, OneEntry, Counted, Mutex, QueueSeen, [Next]_vars
  PROVE  QueueSeen'
<1> USE DEF Goto
<1>0. TypeOK
  BY DEF Structure
<1>1. ASSUME NEW th \in Threads, NEW t \in Tasks, SpawnTask(th, t)
      PROVE  QueueSeen'
  <2>1. queued' = queued /\ pc[th] = "body" /\ pc' = [mt_start(pc) EXCEPT ![th] = "push"]
    BY <1>1 DEF SpawnTask
  <2>2. \A o \in Threads : pc'[o] = IF o = th THEN "push" ELSE IF pc[o] = "off" THEN "scan" ELSE pc[o]
    BY <1>0, <2>1 DEF mt_start, TypeOK
  <2> QED
    BY <2>1, <2>2, QuietQueue
<1>2. ASSUME NEW th \in Threads, deque_push(th)
      PROVE  QueueSeen'
  BY <1>0, <1>2, MoveQueue DEF deque_push, TypeOK
<1>3. ASSUME NEW th \in Threads, CountQueued(th)
      PROVE  QueueSeen'
  <2>1. pc'[th] = "wake"
    BY <1>0, <1>3 DEF CountQueued, TypeOK
  <2> QED
    BY <2>1 DEF QueueSeen
<1>4. ASSUME NEW th \in Threads, WakeAfterPush(th)
      PROVE  QueueSeen'
  <2>1. \A o \in Threads : pc'[o] \notin Sleepy
    <3>1. mu = None /\ pc' = [Broadcast(pc) EXCEPT ![th] = "body"]
      BY <1>4 DEF WakeAfterPush
    <3>2. "body" \notin Sleepy
      BY DEF Sleepy, LoopOf
    <3> QED
      BY <1>0, <3>1, <3>2, BroadcastSleep
  <2> QED
    BY <2>1 DEF QueueSeen, Sleepy
<1>5. ASSUME NEW th \in Threads, Publish(th)
      PROVE  QueueSeen'
  BY <1>0, <1>5, MoveQueue DEF Publish, TypeOK
<1>6. ASSUME NEW th \in Threads, IoFinished(th)
      PROVE  QueueSeen'
  BY <1>0, <1>6, MoveQueue DEF IoFinished, TypeOK
<1>7. ASSUME NEW th \in Threads, WakeAfterDone(th)
      PROVE  QueueSeen'
  <2>1. \A o \in Threads : pc'[o] \notin Sleepy
    <3>1. mu = None /\ pc' = [Broadcast(pc) EXCEPT ![th] = LoopOf(below[top[th]])]
      BY <1>7 DEF WakeAfterDone
    <3>2. LoopOf(below[top[th]]) \notin Sleepy
      BY DEF Sleepy, LoopOf
    <3> QED
      BY <1>0, <3>1, <3>2, BroadcastSleep
  <2> QED
    BY <2>1 DEF QueueSeen, Sleepy
<1>8. ASSUME NEW th \in Threads, NEW t \in Tasks, THxPAR_await(th, t)
      PROVE  QueueSeen'
  BY <1>0, <1>8, MoveQueue DEF THxPAR_await, TypeOK
<1>9. ASSUME NEW th \in Threads, AwaitDone(th)
      PROVE  QueueSeen'
  BY <1>0, <1>9, MoveQueue DEF AwaitDone, TypeOK
<1>10. ASSUME NEW th \in Threads, AwaitNotDone(th)
      PROVE  QueueSeen'
  BY <1>0, <1>10, MoveQueue DEF AwaitNotDone, TypeOK
<1>11. ASSUME NEW th \in Threads, AwaitClaim(th)
      PROVE  QueueSeen'
  <2>1. pc[th] = "claim" /\ queued' = queued
    BY <1>11 DEF AwaitClaim
  <2>2. \/ pc' = [pc EXCEPT ![th] = "body"]
        \/ pc' = [pc EXCEPT ![th] = "scan"]
    BY <1>11 DEF AwaitClaim, Enter
  <2> QED
    BY <1>0, <2>1, <2>2, MoveQueue
<1>12. ASSUME NEW th \in Threads, ScanTake(th)
      PROVE  QueueSeen'
  BY <1>0, <1>12, MoveQueue DEF ScanTake, TypeOK
<1>13. ASSUME NEW th \in Threads, ScanNext(th)
      PROVE  QueueSeen'
  BY <1>0, <1>13, MoveQueue DEF ScanNext, TypeOK
<1>14. ASSUME NEW th \in Threads, UncountQueued(th)
      PROVE  QueueSeen'
  <2>1. pc[th] = "uncount" /\ pc' = [pc EXCEPT ![th] = "entry"]
    BY <1>14 DEF UncountQueued
  <2>2. CASE queued # 0
    BY <1>0, <2>1, <2>2, MoveQueue
  <2>3. CASE queued = 0
    <3>1. At("count") # {}
      <4> SUFFICES ASSUME At("count") = {}
                   PROVE  FALSE
        OBVIOUS
      <4>1. Cardinality(Slots) + Cardinality(At("uncount")) = 0
        BY <2>3, QueuedExact
      <4>2. Cardinality(Slots) \in Nat /\ Cardinality(At("uncount")) \in Nat /\ IsFiniteSet(At("uncount"))
        BY AtFinite, FS_CardinalityType DEF Counted
      <4>3. Cardinality(At("uncount")) = 0
        BY <4>1, <4>2
      <4>4. At("uncount") = {}
        BY <4>2, <4>3, FS_EmptySet
      <4> QED
        BY <2>1, <4>4 DEF At
    <3>2. PICK o \in Threads : pc[o] = "count"
      BY <3>1 DEF At
    <3>3. pc'[o] = "count"
      BY <1>0, <2>1, <3>2 DEF TypeOK
    <3> QED
      BY <3>3 DEF QueueSeen
  <2> QED
    BY <2>2, <2>3
<1>15. ASSUME NEW th \in Threads, mt_run_entry(th)
      PROVE  QueueSeen'
  <2>1. pc[th] = "entry" /\ queued' = queued
    BY <1>15 DEF mt_run_entry
  <2>2. \/ pc' = [pc EXCEPT ![th] = "body"]
        \/ pc' = [pc EXCEPT ![th] = LoopOf(top[th])]
    BY <1>15 DEF mt_run_entry, Enter
  <2> QED
    BY <1>0, <2>1, <2>2, MoveQueue DEF LoopOf
<1>16. ASSUME NEW th \in Threads, SleepTest(th)
      PROVE  QueueSeen'
  BY <1>0, <1>16, MoveQueue DEF SleepTest, TypeOK
<1>17. ASSUME NEW th \in Threads, SleepOrRescan(th)
      PROVE  QueueSeen'
  <2>1. pc[th] = "test2" /\ queued' = queued
    BY <1>17 DEF SleepOrRescan
  <2>2. CASE queued = 0
    BY <2>1, <2>2 DEF QueueSeen
  <2>3. CASE queued # 0
    <3>1. pc' = [pc EXCEPT ![th] = LoopOf(top[th])]
      BY <1>17, <2>3 DEF SleepOrRescan
    <3> QED
      BY <1>0, <2>1, <3>1, MoveQueue DEF LoopOf
  <2> QED
    BY <2>2, <2>3
<1>18. ASSUME NEW th \in Threads, SpuriousWake(th)
      PROVE  QueueSeen'
  BY <1>0, <1>18, MoveQueue DEF SpuriousWake, TypeOK
<1>19. ASSUME NEW th \in Threads, MainReturns(th)
      PROVE  QueueSeen'
  BY <1>0, <1>19, MoveQueue DEF MainReturns, TypeOK
<1>20. ASSUME NEW th \in Threads, ShowReturns(th)
      PROVE  QueueSeen'
  BY <1>0, <1>20, MoveQueue DEF ShowReturns, TypeOK
<1>21. ASSUME NEW th \in Threads, THxPAR_join_io(th)
      PROVE  QueueSeen'
  BY <1>0, <1>21, MoveQueue DEF THxPAR_join_io, TypeOK
<1>22. ASSUME NEW th \in Threads, ShutdownStop(th)
      PROVE  QueueSeen'
  <2>1. \A o \in Threads : pc'[o] \notin Sleepy
    <3>1. mu = None /\ pc' = [Broadcast(pc) EXCEPT ![th] = "join"]
      BY <1>22 DEF ShutdownStop
    <3>2. "join" \notin Sleepy
      BY DEF Sleepy, LoopOf
    <3> QED
      BY <1>0, <3>1, <3>2, BroadcastSleep
  <2> QED
    BY <2>1 DEF QueueSeen, Sleepy
<1>23. ASSUME NEW th \in Threads, ShutdownJoin(th)
      PROVE  QueueSeen'
  BY <1>0, <1>23, MoveQueue DEF ShutdownJoin, TypeOK
<1>24. CASE UNCHANGED vars
  BY <1>24 DEF vars, QueueSeen
<1>25. QED
  BY <1>1, <1>2, <1>3, <1>4, <1>5, <1>6, <1>7, <1>8, <1>9, <1>10, <1>11,
     <1>12, <1>13, <1>14, <1>15, <1>16, <1>17, <1>18, <1>19, <1>20,
     <1>21, <1>22, <1>23, <1>24
     DEF Next, Step, SpawnStep, ExecStep, AwaitStep, HelpStep, EndStep


-----------------------------------------------------------------------------
(***************************************************************************)
(* The inductive invariant of the sleepers.                                *)
(***************************************************************************)
SleepInv == Structure /\ Ends /\ Mutex /\ Counted /\ Entries /\ Sleepers /\ QueueSeen

LEMMA SleepInit == Init => SleepInv
<1> SUFFICES ASSUME Init
             PROVE  SleepInv
  OBVIOUS
<1>0. Structure
  BY StructureInit
<1>1. /\ \A th \in Threads : pc[th] \in {"body", "off"} /\ top[th] = th /\ item[th] = None
      /\ pc[0] = "body" /\ stop = FALSE /\ queued = 0 /\ \A d \in Threads : deque[d] = <<>>
      /\ \A t \in Tasks : state[t] = "unborn"
  BY Kinds DEF Init
<1>2. Ends /\ Mutex
  BY <1>1 DEF Ends, MainEnds, Mutex, Workers
<1>3. Slots = {}
  <2>1. \A d \in Threads : DOMAIN deque[d] = {}
    BY <1>1
  <2> QED
    BY <2>1 DEF Slots
<1>4. At("count") = {} /\ At("uncount") = {}
  BY <1>1 DEF At
<1>5. Counted
  <2>1. IsFiniteSet(Slots) /\ Cardinality(Slots) = 0 /\ Cardinality(At("count")) = 0
        /\ Cardinality(At("uncount")) = 0
    BY <1>3, <1>4, FS_EmptySet
  <2>2. Wrap \in Nat \ {0}
    BY PoolAssumption
  <2>3. (0 + 0 + Wrap - 0) % Wrap = 0
    <3>1. (0 + Wrap) % Wrap = 0 % Wrap
      <4>1. 0 \in Int
        OBVIOUS
      <4> QED
        BY <2>2, <4>1, ModWrap, Zenon
    <3>2. 0 % Wrap = 0 /\ 0 + 0 + Wrap - 0 = 0 + Wrap
      BY <2>2
    <3> QED
      BY <3>1, <3>2
  <2> QED
    BY <1>1, <2>1, <2>3, CountForm DEF Counted
<1>6. Entries
  <2>1. \A d \in Threads : 1 .. Len(deque[d]) = {}
    BY <1>1
  <2>2. OneEntry
    BY <1>1, <2>1 DEF OneEntry
  <2> QED
    BY <1>1, <2>2 DEF Entries, Kept
<1>7. Sleepers /\ QueueSeen
  BY <1>1 DEF Sleepers, QueueSeen, Sleepy
<1> QED
  BY <1>0, <1>2, <1>5, <1>6, <1>7 DEF SleepInv

LEMMA SleepInvStep == SleepInv /\ [Next]_vars => SleepInv'
<1> SUFFICES ASSUME SleepInv, [Next]_vars
             PROVE  SleepInv'
  OBVIOUS
<1>0. Structure /\ Ends /\ Mutex /\ Counted /\ Entries /\ OneEntry /\ MainEnds /\ Sleepers /\ QueueSeen
  BY DEF SleepInv, Entries, Ends
<1>1. Structure'
  BY <1>0, StructureStep
<1>2. Ends' /\ Mutex'
  BY <1>0, EndsStep
<1>3. Counted'
  BY <1>0, CountStep
<1>4. Entries'
  BY <1>0, EntryStep
<1>5. Sleepers' /\ QueueSeen'
  BY <1>0, SleepStep, QueueStep
<1> QED
  BY <1>1, <1>2, <1>3, <1>4, <1>5 DEF SleepInv

LEMMA SleepInvHolds == Spec => []SleepInv
BY SleepInit, SleepInvStep, PTL DEF Spec

\* g_queued counts the entries of all deques (QueuedCounts): whatever push and
\* take interleave, the counter is off only by the pushes not yet counted and the
\* takes not yet uncounted.
THEOREM QueuedIsCounted == Spec => []QueuedCounts
<1>1. SleepInv => QueuedCounts
  BY DEF SleepInv, Counted
<1> QED
  BY <1>1, SleepInvHolds, PTL

\* runtime.c's claim for g_mt_mu, "no wakeup is lost" (NoLostWakeup): a sleeper
\* whose wait is over, or for whom something is queued, is about to be woken by
\* the thread whose step ended the wait.
THEOREM WakeupsAreNotLost == Spec => []NoLostWakeup
<1>1. SleepInv => NoLostWakeup
  <2> SUFFICES ASSUME SleepInv, NEW th \in Threads, pc[th] = "asleep"
               PROVE  /\ queued # 0 => \E o \in Threads : pc[o] \in {"count", "wake"}
                      /\ WaitIsOver(top[th]) =>
                           \E o \in Threads :
                             /\ pc[o] \in {"iodec", "wakedone"}
                             /\ awaits[top[th]] # None => top[o] = awaits[top[th]]
    BY DEF NoLostWakeup
  <2>1. Sound(th)
    BY DEF SleepInv, Sleepers, Sleepy
  <2>2. queued # 0 => \E o \in Threads : pc[o] \in {"count", "wake"}
    BY DEF SleepInv, QueueSeen
  <2> QED
    BY <2>1, <2>2 DEF Sound, WaitIsOver, Finishing
<1> QED
  BY <1>1, SleepInvHolds, PTL


-----------------------------------------------------------------------------
(***************************************************************************)
(* Fork and join: tasks that await only what they spawned.  Whoever waits  *)
(* on a stack waits for a future it holds, and among any tasks being run   *)
(* the one claimed last is called from by none of them and holds none of   *)
(* their futures, for it has been able to spawn only later ones.           *)
(***************************************************************************)
Waiting == {"load", "claim", "scan", "uncount", "entry", "test", "test2", "asleep", "woken"}

Awaiting ==
  /\ \A th \in Threads : top[th] \in Tasks /\ pc[th] \in Waiting => awaits[top[th]] \in Tasks
  /\ \A t \in Tasks : below[t] \in Tasks => awaits[below[t]] \in Tasks
  /\ \A a \in Activities : awaits[a] \in Tasks => awaits[a] \in knows[a]
  /\ \A a \in Activities : \A t \in knows[a] : state[t] # "unborn"

Stacked ==
  /\ \A t \in Tasks : state[t] = "running" =>
       (\E th \in Threads : top[th] = t) \/ (\E u \in Tasks : below[u] = t)
  /\ \A t \in Tasks : below[t] # None =>
       state[t] = "running" \/ \E th \in Threads : top[th] = t /\ pc[th] \in Finishing

Running == {t \in Tasks : state[t] = "running"}

Newest ==
  /\ \A t \in Tasks : state[t] \in {"unborn", "pending"} => knows[t] = {}
  /\ \A S \in SUBSET Running : S # {} => \E m \in S : \A v \in S : below[v] # m /\ v \notin knows[m]

Fork == Awaiting /\ Stacked /\ Newest

\* A step that leaves the stacks and the futures alone and begins no wait.
LEMMA QuietFork ==
  ASSUME Fork, UNCHANGED <<state, top, below, awaits, knows>>,
         \A o \in Threads : pc'[o] \in Waiting => pc[o] \in Waiting \/ top[o] \notin Tasks,
         \A o \in Threads : pc[o] \in Finishing => pc'[o] \in Finishing
  PROVE  Fork'
<1>1. Awaiting'
  BY DEF Fork, Awaiting
<1>2. Stacked'
  BY DEF Fork, Stacked
<1>3. Newest'
  BY DEF Fork, Newest, Running
<1> QED
  BY <1>1, <1>2, <1>3 DEF Fork

LEMMA MoveFork ==
  ASSUME TypeOK, Fork, UNCHANGED <<state, top, below, awaits, knows>>, NEW th \in Threads, NEW l,
         pc' = [pc EXCEPT ![th] = l],
         l \in Waiting => pc[th] \in Waiting \/ top[th] \notin Tasks,
         pc[th] \in Finishing => l \in Finishing
  PROVE  Fork'
<1>1. \A o \in Threads : pc'[o] = IF o = th THEN l ELSE pc[o]
  BY DEF TypeOK
<1> QED
  BY <1>1, QuietFork

\* A task is called on top of an activity that waits.
LEMMA EnterFork ==
  ASSUME Structure, Fork, NEW th \in Threads, NEW t \in Tasks, state[t] = "pending",
         pc[th] \in Waiting, Enter(th, t), UNCHANGED <<awaits, knows>>
  PROVE  Fork'
<1> DEFINE a == top[th]
<1>0. TypeOK /\ Chains /\ Progress
  BY DEF Structure
<1>1. /\ state' = [state EXCEPT ![t] = "running"] /\ below' = [below EXCEPT ![t] = a]
      /\ top' = [top EXCEPT ![th] = t] /\ pc' = [pc EXCEPT ![th] = "body"]
  BY DEF Enter, Goto
<1>2. a \in Activities /\ below[t] = None /\ \A u \in Tasks : below[u] # t
  BY <1>0, Kinds DEF TypeOK, Chains, Progress
<1>3. \A o \in Threads : top[o] # t
  BY <1>0 DEF Progress, Finishing
<1> HIDE DEF a
<1>a. a = top[th]
  BY DEF a
<1>4. /\ \A u \in Tasks : state'[u] = IF u = t THEN "running" ELSE state[u]
      /\ \A u \in Tasks : below'[u] = IF u = t THEN a ELSE below[u]
      /\ \A o \in Threads : top'[o] = IF o = th THEN t ELSE top[o]
      /\ \A o \in Threads : pc'[o] = IF o = th THEN "body" ELSE pc[o]
  BY <1>0, <1>1 DEF TypeOK
<1>5. Awaiting'
  <2>1. \A o \in Threads : top'[o] \in Tasks /\ pc'[o] \in Waiting => awaits[top'[o]] \in Tasks
    BY <1>4 DEF Fork, Awaiting, Waiting
  <2>2. a \in Tasks => awaits[a] \in Tasks
    BY <1>a DEF Fork, Awaiting
  <2>3. \A u \in Tasks : below'[u] \in Tasks => awaits[below'[u]] \in Tasks
    BY <1>4, <2>2 DEF Fork, Awaiting
  <2>4. \A b \in Activities : \A u \in knows[b] : state'[u] # "unborn"
    <3> SUFFICES ASSUME NEW b \in Activities, NEW u \in knows[b]
                 PROVE  state'[u] # "unborn"
      OBVIOUS
    <3>1. u \in Tasks /\ state[u] # "unborn"
      BY <1>0 DEF Fork, Awaiting, TypeOK
    <3> QED
      BY <1>4, <3>1
  <2> QED
    BY <2>1, <2>3, <2>4 DEF Fork, Awaiting
<1>6. Stacked'
  <2>1. ASSUME NEW u \in Tasks, state'[u] = "running"
        PROVE  (\E o \in Threads : top'[o] = u) \/ (\E v \in Tasks : below'[v] = u)
    <3>1. CASE u = t
      BY <1>4, <3>1
    <3>2. CASE u # t /\ u = a
      BY <1>4, <3>2
    <3>3. CASE u # t /\ u # a
      <4>1. (\E o \in Threads : top[o] = u) \/ (\E v \in Tasks : below[v] = u)
        BY <1>4, <2>1, <3>3 DEF Fork, Stacked
      <4>2. \A o \in Threads : top[o] = u => top'[o] = u
        BY <1>4, <1>a, <3>3
      <4>3. \A v \in Tasks : below[v] = u => below'[v] = u
        BY <1>2, <1>4, <3>3, Kinds
      <4> QED
        BY <4>1, <4>2, <4>3
    <3> QED
      BY <3>1, <3>2, <3>3
  <2>2. ASSUME NEW u \in Tasks, below'[u] # None
        PROVE  state'[u] = "running" \/ \E o \in Threads : top'[o] = u /\ pc'[o] \in Finishing
    <3>1. CASE u = t
      BY <1>4, <3>1
    <3>2. CASE u # t
      <4>1. state[u] = "running" \/ \E o \in Threads : top[o] = u /\ pc[o] \in Finishing
        BY <1>4, <2>2, <3>2 DEF Fork, Stacked
      <4>2. \A o \in Threads : pc[o] \in Finishing => top'[o] = top[o] /\ pc'[o] = pc[o]
        BY <1>4 DEF Finishing, Waiting
      <4> QED
        BY <1>4, <3>2, <4>1, <4>2
    <3> QED
      BY <3>1, <3>2
  <2> QED
    BY <2>1, <2>2 DEF Stacked
<1>7. Newest'
  <2>1. \A u \in Tasks : state'[u] \in {"unborn", "pending"} => knows[u] = {}
    BY <1>4 DEF Fork, Newest
  <2>2. ASSUME NEW S \in SUBSET Running', S # {}
        PROVE  \E m \in S : \A v \in S : below'[v] # m /\ v \notin knows[m]
    <3>1. \A v \in S : v \in Tasks /\ state'[v] = "running"
      BY DEF Running
    <3>2. CASE t \in S
      <4>1. knows[t] = {}
        BY DEF Fork, Newest
      <4>2. \A v \in S : below'[v] # t
        BY <1>2, <1>3, <1>4, <1>a, <3>1
      <4> QED
        BY <3>2, <4>1, <4>2
    <3>3. CASE t \notin S
      <4>1. S \in SUBSET Running /\ \A v \in S : below'[v] = below[v]
        BY <1>4, <3>1, <3>3 DEF Running
      <4>2. PICK m \in S : \A v \in S : below[v] # m /\ v \notin knows[m]
        BY <2>2, <4>1 DEF Fork, Newest
      <4> QED
        BY <4>1, <4>2
    <3> QED
      BY <3>2, <3>3
  <2> QED
    BY <2>1, <2>2 DEF Newest
<1> QED
  BY <1>5, <1>6, <1>7 DEF Fork

LEMMA ForkStep ==
  ASSUME ForkJoin, Structure, Ends, Fork, [Next]_vars
  PROVE  Fork'
<1> USE DEF Goto
<1>0. TypeOK /\ Registers /\ Chains /\ Disjoint /\ Progress
  BY DEF Structure
<1>1. ASSUME NEW th \in Threads, NEW t \in Tasks, SpawnTask(th, t)
      PROVE  Fork'
  <2> DEFINE a == top[th]
  <2>1. /\ pc[th] = "body" /\ state[t] = "unborn" /\ state' = [state EXCEPT ![t] = "pending"]
        /\ UNCHANGED <<top, below, awaits>> /\ pc' = [mt_start(pc) EXCEPT ![th] = "push"]
        /\ knows' = [knows EXCEPT ![t] = {}, ![a] = @ \cup {t}]
    BY <1>1 DEF SpawnTask
  <2>2. a \in Activities /\ t \in Activities /\ knows \in [Activities -> SUBSET Tasks] /\ a # t
    BY ZenonT(40), <1>0, <2>1, Kinds DEF TypeOK, Progress, Finishing
  <2>3. knows[t] = {}
    BY <2>1 DEF Fork, Newest
  <2> HIDE DEF a
  <2>4. \A b \in Activities : knows'[b] = IF b = a THEN knows[a] \cup {t} ELSE knows[b]
    BY <2>1, <2>2, <2>3
  <2>5. \A u \in Tasks : state'[u] = IF u = t THEN "pending" ELSE state[u]
    BY <1>0, <2>1 DEF TypeOK
  <2>6. \A o \in Threads : pc'[o] = IF o = th THEN "push" ELSE IF pc[o] = "off" THEN "scan" ELSE pc[o]
    BY <1>0, <2>1 DEF mt_start, TypeOK
  <2>7. \A o \in Threads : pc[o] = "off" => top[o] \notin Tasks
    BY Kinds DEF Ends
  <2>8. Awaiting'
    <3>1. \A o \in Threads : top[o] \in Tasks /\ pc'[o] \in Waiting => awaits[top[o]] \in Tasks
      BY <2>6, <2>7 DEF Fork, Awaiting, Waiting
    <3>2. \A b \in Activities : awaits[b] \in Tasks => awaits[b] \in knows'[b]
      BY <2>4 DEF Fork, Awaiting
    <3>3. \A b \in Activities : \A u \in knows'[b] : state'[u] # "unborn"
      <4> SUFFICES ASSUME NEW b \in Activities, NEW u \in knows'[b]
                   PROVE  state'[u] # "unborn"
        OBVIOUS
      <4>1. CASE u = t
        BY <2>5, <4>1
      <4>2. CASE u # t
        <5>1. u \in knows[b]
          BY <2>4, <4>2
        <5>2. u \in Tasks /\ state[u] # "unborn"
          BY <2>2, <5>1 DEF Fork, Awaiting
        <5> QED
          BY <2>5, <5>2
      <4> QED
        BY <4>1, <4>2
    <3> QED
      BY <2>1, <3>1, <3>2, <3>3 DEF Fork, Awaiting
  <2>9. Stacked'
    <3>1. \A u \in Tasks : (state'[u] = "running") <=> (state[u] = "running")
      BY <2>1, <2>5
    <3>2. \A o \in Threads : pc[o] \in Finishing => pc'[o] \in Finishing
      BY <2>1, <2>6 DEF Finishing
    <3> QED
      BY <2>1, <3>1, <3>2 DEF Fork, Stacked
  <2>10. Newest'
    <3>1. \A u \in Tasks : state'[u] \in {"unborn", "pending"} => knows'[u] = {}
      <4> SUFFICES ASSUME NEW u \in Tasks, state'[u] \in {"unborn", "pending"}
                   PROVE  knows'[u] = {}
        OBVIOUS
      <4>1. u # a
        <5>1. a \in Tasks => state[a] = "running"
          BY <1>0, <2>1 DEF Progress, Finishing, a
        <5> QED
          BY <2>2, <2>5, <5>1
      <4>2. knows[u] = {}
        BY <2>3, <2>5 DEF Fork, Newest
      <4> QED
        BY <2>4, <4>1, <4>2, Kinds
    <3>2. ASSUME NEW S \in SUBSET Running', S # {}
          PROVE  \E m \in S : \A v \in S : below'[v] # m /\ v \notin knows'[m]
      <4>1. S \in SUBSET Running /\ t \notin S
        BY <2>5 DEF Running
      <4>2. PICK m \in S : \A v \in S : below[v] # m /\ v \notin knows[m]
        BY <3>2, <4>1 DEF Fork, Newest
      <4>3. m \in Activities
        BY <4>1, Kinds DEF Running
      <4>4. \A v \in S : v # t /\ (v \in knows'[m] => v \in knows[m])
        BY <2>4, <4>1, <4>3
      <4>5. below' = below
        BY <2>1
      <4> QED
        BY <4>2, <4>4, <4>5
    <3> QED
      BY <3>1, <3>2 DEF Newest
  <2> QED
    BY <2>8, <2>9, <2>10 DEF Fork
<1>2. ASSUME NEW th \in Threads, deque_push(th)
      PROVE  Fork'
  BY <1>0, <1>2, MoveFork DEF deque_push, TypeOK, Waiting, Finishing
<1>3. ASSUME NEW th \in Threads, CountQueued(th)
      PROVE  Fork'
  BY <1>0, <1>3, MoveFork DEF CountQueued, TypeOK, Waiting, Finishing
<1>4. ASSUME NEW th \in Threads, WakeAfterPush(th)
      PROVE  Fork'
  <2>1. UNCHANGED <<state, top, below, awaits, knows>> /\ pc[th] = "wake"
        /\ pc' = [Broadcast(pc) EXCEPT ![th] = "body"]
    BY <1>4 DEF WakeAfterPush
  <2>2. \A o \in Threads : pc'[o] = IF o = th THEN "body" ELSE IF pc[o] = "asleep" THEN "woken" ELSE pc[o]
    BY <1>0, <2>1 DEF Broadcast, TypeOK
  <2> QED
    BY <2>1, <2>2, QuietFork DEF Waiting, Finishing
<1>5. ASSUME NEW th \in Threads, Publish(th)
      PROVE  Fork'
  <2> DEFINE u == top[th]
             l == IF u \in IoTasks THEN "iodec" ELSE "wakedone"
  <2>1. /\ pc[th] = "body" /\ u \in Tasks /\ state' = [state EXCEPT ![u] = "done"]
        /\ pc' = [pc EXCEPT ![th] = l] /\ UNCHANGED <<top, below, awaits, knows>>
    BY <1>5 DEF Publish
  <2>2. l \in Finishing /\ l \notin Waiting
    BY DEF Finishing, Waiting
  <2> HIDE DEF u, l
  <2>3. \A o \in Threads : pc'[o] = IF o = th THEN l ELSE pc[o]
    BY <1>0, <2>1 DEF TypeOK
  <2>4. \A v \in Tasks : state'[v] = IF v = u THEN "done" ELSE state[v]
    BY <1>0, <2>1 DEF TypeOK
  <2>5. \A o \in Threads : pc[o] \in Finishing => pc'[o] \in Finishing
    BY <2>1, <2>2, <2>3
  <2>6. Awaiting'
    <3>1. \A b \in Activities : \A v \in knows[b] : state'[v] # "unborn"
      <4> SUFFICES ASSUME NEW b \in Activities, NEW v \in knows[b]
                   PROVE  state'[v] # "unborn"
        OBVIOUS
      <4>1. v \in Tasks /\ state[v] # "unborn"
        BY <1>0 DEF Fork, Awaiting, TypeOK
      <4> QED
        BY <2>4, <4>1
    <3>2. \A o \in Threads : top[o] \in Tasks /\ pc'[o] \in Waiting => awaits[top[o]] \in Tasks
      BY <2>2, <2>3 DEF Fork, Awaiting
    <3> QED
      BY <2>1, <3>1, <3>2 DEF Fork, Awaiting
  <2>7. Stacked'
    <3>1. \A v \in Tasks : state'[v] = "running" => state[v] = "running"
      BY <2>4
    <3>2. \A v \in Tasks : v # u => state'[v] = state[v]
      BY <2>4
    <3>3. top[th] = u /\ pc'[th] \in Finishing
      BY <2>2, <2>3 DEF u
    <3> QED
      BY <2>1, <2>5, <3>1, <3>2, <3>3 DEF Fork, Stacked
  <2>8. Newest'
    <3>1. Running' \subseteq Running
      BY <2>4 DEF Running
    <3>2. \A v \in Tasks : state'[v] \in {"unborn", "pending"} => knows[v] = {}
      BY <2>4 DEF Fork, Newest
    <3>3. \A S \in SUBSET Running' : S \in SUBSET Running
      BY <3>1
    <3> QED
      BY <2>1, <3>2, <3>3 DEF Fork, Newest
  <2> QED
    BY <2>6, <2>7, <2>8 DEF Fork
<1>6. ASSUME NEW th \in Threads, IoFinished(th)
      PROVE  Fork'
  BY <1>0, <1>6, MoveFork DEF IoFinished, TypeOK, Waiting, Finishing
<1>7. ASSUME NEW th \in Threads, WakeAfterDone(th)
      PROVE  Fork'
  <2> DEFINE t == top[th]
             a == below[t]
  <2>1. /\ pc[th] = "wakedone" /\ pc' = [Broadcast(pc) EXCEPT ![th] = LoopOf(a)]
        /\ top' = [top EXCEPT ![th] = a] /\ below' = [below EXCEPT ![t] = None]
        /\ UNCHANGED <<state, awaits, knows>>
    BY <1>7 DEF WakeAfterDone
  <2>2. t \in Tasks /\ state[t] = "done" /\ on[t] = th /\ a \in Activities
    BY <1>0, <2>1, Kinds DEF Registers, Progress, Chains, Finishing
  <2>3. \A o \in Threads : o # th => top[o] # t
    BY DistinctTops
  <2>4. \A u \in Tasks : below[u] # t /\ (u # t => below[u] # a)
    <3>1. a # None
      BY <2>2, Kinds, PoolAssumption
    <3> QED
      BY <1>0, <2>2, <3>1 DEF Disjoint
  <2> HIDE DEF t, a
  <2>a. t = top[th] /\ a = below[t]
    BY DEF t, a
  <2>5. /\ \A o \in Threads : top'[o] = IF o = th THEN a ELSE top[o]
        /\ \A u \in Tasks : below'[u] = IF u = t THEN None ELSE below[u]
        /\ \A o \in Threads : pc'[o] = IF o = th THEN LoopOf(a) ELSE IF pc[o] = "asleep" THEN "woken" ELSE pc[o]
    BY <1>0, <2>1 DEF TypeOK, Broadcast
  <2>6. Awaiting'
    <3>1. a \in Tasks => awaits[a] \in Tasks
      BY <2>2, <2>a DEF Fork, Awaiting
    <3>2. \A o \in Threads : o # th /\ pc'[o] \in Waiting => pc[o] \in Waiting
      BY <2>5 DEF Waiting
    <3>3. \A o \in Threads : top'[o] \in Tasks /\ pc'[o] \in Waiting => awaits[top'[o]] \in Tasks
      BY <2>5, <3>1, <3>2 DEF Fork, Awaiting
    <3>4. \A u \in Tasks : below'[u] \in Tasks => awaits[below'[u]] \in Tasks
      BY <2>5, Kinds DEF Fork, Awaiting
    <3> QED
      BY <2>1, <3>3, <3>4 DEF Fork, Awaiting
  <2>7. Stacked'
    <3>1. ASSUME NEW u \in Tasks, state[u] = "running"
          PROVE  (\E o \in Threads : top'[o] = u) \/ (\E v \in Tasks : below'[v] = u)
      <4>1. u # t
        BY <2>2, <3>1
      <4>2. CASE u = a
        BY <2>5, <4>2
      <4>3. CASE u # a
        <5>1. (\E o \in Threads : top[o] = u) \/ (\E v \in Tasks : below[v] = u)
          BY <3>1 DEF Fork, Stacked
        <5>2. \A o \in Threads : top[o] = u => top'[o] = u
          BY <2>5, <2>a, <4>1
        <5>3. \A v \in Tasks : below[v] = u => below'[v] = u
          BY <2>5, <2>a, <4>3
        <5> QED
          BY <5>1, <5>2, <5>3
      <4> QED
        BY <4>2, <4>3
    <3>2. ASSUME NEW u \in Tasks, below'[u] # None
          PROVE  state[u] = "running" \/ \E o \in Threads : top'[o] = u /\ pc'[o] \in Finishing
      <4>1. u # t /\ below[u] # None
        BY <2>5, <3>2
      <4>2. state[u] = "running" \/ \E o \in Threads : top[o] = u /\ pc[o] \in Finishing
        BY <4>1 DEF Fork, Stacked
      <4>3. \A o \in Threads : top[o] = u /\ pc[o] \in Finishing => top'[o] = u /\ pc'[o] \in Finishing
        BY <2>5, <2>a, <4>1 DEF Finishing
      <4> QED
        BY <4>2, <4>3
    <3> QED
      BY <2>1, <3>1, <3>2 DEF Stacked
  <2>8. Newest'
    <3>1. Running' = Running /\ t \notin Running
      BY <2>1, <2>2 DEF Running
    <3>2. \A v \in Running : below'[v] = below[v]
      BY <2>5, <3>1 DEF Running
    <3>3. ASSUME NEW S \in SUBSET Running, S # {}
          PROVE  \E m \in S : \A v \in S : below'[v] # m /\ v \notin knows[m]
      <4>1. PICK m \in S : \A v \in S : below[v] # m /\ v \notin knows[m]
        BY <3>3 DEF Fork, Newest
      <4> QED
        BY <3>2, <4>1
    <3> QED
      BY <2>1, <3>1, <3>3 DEF Fork, Newest
  <2> QED
    BY <2>6, <2>7, <2>8 DEF Fork
<1>8. ASSUME NEW th \in Threads, NEW t \in Tasks, THxPAR_await(th, t)
      PROVE  Fork'
  <2> DEFINE a == top[th]
  <2>1. /\ pc[th] = "body" /\ t \in knows[a] /\ awaits' = [awaits EXCEPT ![a] = t]
        /\ pc' = [pc EXCEPT ![th] = "load"] /\ UNCHANGED <<state, top, below, knows>>
    BY <1>8 DEF THxPAR_await
  <2>2. a \in Activities /\ \A o \in Threads : pc'[o] = IF o = th THEN "load" ELSE pc[o]
    BY <1>0, <2>1 DEF TypeOK
  <2> HIDE DEF a
  <2>3. \A b \in Activities : awaits'[b] = IF b = a THEN t ELSE awaits[b]
    BY <1>0, <2>1 DEF TypeOK
  <2>4. Awaiting'
    <3>1. \A o \in Threads : top[o] \in Tasks /\ pc'[o] \in Waiting => awaits'[top[o]] \in Tasks
      <4> SUFFICES ASSUME NEW o \in Threads, top[o] \in Tasks, pc'[o] \in Waiting
                   PROVE  awaits'[top[o]] \in Tasks
        OBVIOUS
      <4>1. CASE o = th
        BY <2>2, <2>3, <4>1 DEF a
      <4>2. CASE o # th
        BY <2>2, <2>3, <4>2, Kinds DEF Fork, Awaiting
      <4> QED
        BY <4>1, <4>2
    <3>2. \A u \in Tasks : below[u] \in Tasks => awaits'[below[u]] \in Tasks
      BY <2>3, Kinds DEF Fork, Awaiting
    <3>3. \A b \in Activities : awaits'[b] \in Tasks => awaits'[b] \in knows[b]
      BY <2>1, <2>3 DEF Fork, Awaiting
    <3> QED
      BY <2>1, <3>1, <3>2, <3>3 DEF Fork, Awaiting
  <2>5. Stacked'
    <3>1. \A o \in Threads : pc[o] \in Finishing => pc'[o] \in Finishing
      BY <2>1, <2>2 DEF Finishing
    <3> QED
      BY <2>1, <3>1 DEF Fork, Stacked
  <2>6. Newest'
    BY <2>1 DEF Fork, Newest, Running
  <2> QED
    BY <2>4, <2>5, <2>6 DEF Fork
<1>9. ASSUME NEW th \in Threads, AwaitDone(th)
      PROVE  Fork'
  <2> DEFINE a == top[th]
             t == awaits[a]
  <2>1. /\ pc[th] = "load" /\ awaits' = [awaits EXCEPT ![a] = None]
        /\ knows' = [knows EXCEPT ![a] = (@ \ {t}) \cup {}]
        /\ pc' = [pc EXCEPT ![th] = "body"] /\ UNCHANGED <<state, top, below>>
    BY <1>9 DEF AwaitDone
  <2>2. a \in Activities /\ \A o \in Threads : pc'[o] = IF o = th THEN "body" ELSE pc[o]
    BY <1>0, <2>1 DEF TypeOK
  <2>3. /\ \A o \in Threads : o # th => top[o] # a
        /\ \A u \in Tasks : below[u] # a
    BY <1>0, DistinctTops DEF Disjoint
  <2> HIDE DEF a, t
  <2>4. /\ \A b \in Activities : awaits'[b] = IF b = a THEN None ELSE awaits[b]
        /\ \A b \in Activities : knows'[b] = IF b = a THEN knows[a] \ {t} ELSE knows[b]
    BY <1>0, <2>1 DEF TypeOK
  <2>5. Awaiting'
    <3>1. \A o \in Threads : top[o] \in Tasks /\ pc'[o] \in Waiting => awaits'[top[o]] \in Tasks
      BY <2>2, <2>3, <2>4, Kinds DEF Fork, Awaiting, Waiting
    <3>2. \A u \in Tasks : below[u] \in Tasks => awaits'[below[u]] \in Tasks
      BY <2>3, <2>4, Kinds DEF Fork, Awaiting
    <3>3. \A b \in Activities : awaits'[b] \in Tasks => awaits'[b] \in knows'[b]
      BY <2>4, Kinds DEF Fork, Awaiting
    <3>4. \A b \in Activities : \A u \in knows'[b] : state[u] # "unborn"
      BY <2>4 DEF Fork, Awaiting
    <3> QED
      BY <2>1, <3>1, <3>2, <3>3, <3>4 DEF Awaiting
  <2>6. Stacked'
    <3>1. \A o \in Threads : pc[o] \in Finishing => pc'[o] \in Finishing
      BY <2>1, <2>2 DEF Finishing
    <3> QED
      BY <2>1, <3>1 DEF Fork, Stacked
  <2>7. Newest'
    <3>1. \A b \in Tasks : knows'[b] \subseteq knows[b]
      BY <2>4, Kinds
    <3>2. \A u \in Tasks : state[u] \in {"unborn", "pending"} => knows'[u] = {}
      BY <3>1 DEF Fork, Newest
    <3>3. ASSUME NEW S \in SUBSET Running, S # {}
          PROVE  \E m \in S : \A v \in S : below[v] # m /\ v \notin knows'[m]
      <4>1. PICK m \in S : \A v \in S : below[v] # m /\ v \notin knows[m]
        BY <3>3 DEF Fork, Newest
      <4> QED
        BY <3>1, <4>1 DEF Running
    <3>4. Running' = Running
      BY <2>1 DEF Running
    <3> QED
      BY <2>1, <3>2, <3>3, <3>4 DEF Newest
  <2> QED
    BY <2>5, <2>6, <2>7 DEF Fork
<1>10. ASSUME NEW th \in Threads, AwaitNotDone(th)
      PROVE  Fork'
  BY <1>0, <1>10, MoveFork DEF AwaitNotDone, TypeOK, Waiting, Finishing
<1>11. ASSUME NEW th \in Threads, AwaitClaim(th)
      PROVE  Fork'
  <2> DEFINE u == awaits[top[th]]
  <2>1. u \in Tasks /\ pc[th] = "claim" /\ UNCHANGED <<awaits, knows>>
    BY <1>0, <1>11 DEF AwaitClaim, Registers
  <2>2. CASE task_claim(u) /\ Enter(th, u)
    BY <2>1, <2>2, EnterFork DEF task_claim, Waiting
  <2>3. CASE ~task_claim(u) /\ pc' = [pc EXCEPT ![th] = "scan"] /\ UNCHANGED <<state, on, below, top, calls>>
    BY <1>0, <2>1, <2>3, MoveFork DEF Waiting, Finishing
  <2> QED
    BY <1>11, <2>2, <2>3 DEF AwaitClaim
<1>12. ASSUME NEW th \in Threads, ScanTake(th)
      PROVE  Fork'
  BY <1>0, <1>12, MoveFork DEF ScanTake, TypeOK, Waiting, Finishing
<1>13. ASSUME NEW th \in Threads, ScanNext(th)
      PROVE  Fork'
  BY <1>0, <1>13, MoveFork DEF ScanNext, TypeOK, Waiting, Finishing
<1>14. ASSUME NEW th \in Threads, UncountQueued(th)
      PROVE  Fork'
  BY <1>0, <1>14, MoveFork DEF UncountQueued, TypeOK, Waiting, Finishing
<1>15. ASSUME NEW th \in Threads, mt_run_entry(th)
      PROVE  Fork'
  <2> DEFINE u == item[th]
  <2>1. u \in Tasks /\ pc[th] = "entry" /\ UNCHANGED <<awaits, knows>>
    BY <1>0, <1>15 DEF mt_run_entry, Registers
  <2>2. CASE task_claim(u) /\ Enter(th, u)
    BY <2>1, <2>2, EnterFork DEF task_claim, Waiting
  <2>3. CASE ~task_claim(u) /\ pc' = [pc EXCEPT ![th] = LoopOf(top[th])] /\ UNCHANGED <<state, on, below, top, calls>>
    BY <1>0, <2>1, <2>3, MoveFork DEF Waiting, Finishing, LoopOf
  <2> QED
    BY <1>15, <2>2, <2>3 DEF mt_run_entry
<1>16. ASSUME NEW th \in Threads, SleepTest(th)
      PROVE  Fork'
  BY <1>0, <1>16, MoveFork DEF SleepTest, TypeOK, Waiting, Finishing
<1>17. ASSUME NEW th \in Threads, SleepOrRescan(th)
      PROVE  Fork'
  BY <1>0, <1>17, MoveFork DEF SleepOrRescan, LoopOf, TypeOK, Waiting, Finishing
<1>18. ASSUME NEW th \in Threads, SpuriousWake(th)
      PROVE  Fork'
  BY <1>0, <1>18, MoveFork DEF SpuriousWake, TypeOK, Waiting, Finishing
<1>19. ASSUME NEW th \in Threads, MainReturns(th)
      PROVE  Fork'
  BY <1>0, <1>19, MoveFork, Kinds DEF MainReturns, Waiting, Finishing
<1>20. ASSUME NEW th \in Threads, ShowReturns(th)
      PROVE  Fork'
  BY <1>0, <1>20, MoveFork DEF ShowReturns, TypeOK, Waiting, Finishing
<1>21. ASSUME NEW th \in Threads, THxPAR_join_io(th)
      PROVE  Fork'
  BY <1>0, <1>21, MoveFork DEF THxPAR_join_io, TypeOK, Waiting, Finishing
<1>22. ASSUME NEW th \in Threads, ShutdownStop(th)
      PROVE  Fork'
  <2>1. UNCHANGED <<state, top, below, awaits, knows>> /\ pc[th] = "shutdown"
        /\ pc' = [Broadcast(pc) EXCEPT ![th] = "join"]
    BY <1>22 DEF ShutdownStop
  <2>2. \A o \in Threads : pc'[o] = IF o = th THEN "join" ELSE IF pc[o] = "asleep" THEN "woken" ELSE pc[o]
    BY <1>0, <2>1 DEF Broadcast, TypeOK
  <2> QED
    BY <2>1, <2>2, QuietFork DEF Waiting, Finishing
<1>23. ASSUME NEW th \in Threads, ShutdownJoin(th)
      PROVE  Fork'
  BY <1>0, <1>23, MoveFork DEF ShutdownJoin, TypeOK, Waiting, Finishing
<1>24. CASE UNCHANGED vars
  BY <1>24, QuietFork DEF vars
<1>25. QED
  BY <1>1, <1>2, <1>3, <1>4, <1>5, <1>6, <1>7, <1>8, <1>9, <1>10, <1>11,
     <1>12, <1>13, <1>14, <1>15, <1>16, <1>17, <1>18, <1>19, <1>20,
     <1>21, <1>22, <1>23, <1>24
     DEF Next, Step, SpawnStep, ExecStep, AwaitStep, HelpStep, EndStep


LEMMA ForkInit == Init => Fork
<1> SUFFICES ASSUME Init
             PROVE  Fork
  OBVIOUS
<1>1. /\ \A th \in Threads : top[th] = th /\ top[th] \notin Tasks
      /\ \A t \in Tasks : below[t] = None /\ state[t] = "unborn"
      /\ \A a \in Activities : awaits[a] = None /\ knows[a] = {}
  BY Kinds DEF Init
<1>2. Awaiting
  BY <1>1, Kinds DEF Awaiting
<1>3. Stacked
  BY <1>1 DEF Stacked
<1>4. Newest
  BY <1>1, Kinds DEF Newest, Running
<1> QED
  BY <1>2, <1>3, <1>4 DEF Fork

\* Were every thread asleep, no entry would be queued and no task pending; the task
\* claimed last would be waiting for a future of its own, which then is done, and
\* the thread that finished it is not asleep.
LEMMA SomeoneAwake == SleepInv /\ Fork /\ IoCount => PoolNotStuck
<1> SUFFICES ASSUME SleepInv, Fork, IoCount, ~Exited,
                    \A th \in Threads : pc[th] \in {"asleep", "off", "exited"}
             PROVE  FALSE
  BY DEF PoolNotStuck
<1>0. Structure /\ TypeOK /\ Progress /\ Ends /\ Counted /\ OneEntry /\ Kept /\ Sleepers /\ QueueSeen
  BY DEF SleepInv, Structure, Entries
<1>1. 0 \in Threads /\ 0 \notin Workers /\ pc[0] = "asleep"
  BY <1>0, Kinds DEF Ends, Exited, Workers
<1>2. \A th \in Threads : pc[th] = "exited" => FALSE
  BY <1>0, <1>1 DEF Ends, Workers
<1>3. \A th \in Threads : pc[th] \notin Finishing /\ pc[th] \notin {"count", "wake"} /\ pc[th] \notin Holding
  BY DEF Finishing, Holding
<1>4. queued = 0
  BY <1>0, <1>1, <1>3 DEF QueueSeen
<1>5. Slots = {}
  <2>1. At("count") = {} /\ At("uncount") = {}
    BY DEF At
  <2>2. Cardinality(At("uncount")) = 0
    BY <2>1, FS_EmptySet
  <2>3. 0 = Cardinality(Slots) + 0
    BY <1>0, <1>4, <2>1, <2>2, QueuedExact
  <2>4. Cardinality(Slots) \in Nat /\ IsFiniteSet(Slots)
    BY <1>0, FS_CardinalityType DEF Counted
  <2>5. Cardinality(Slots) = 0
    BY <2>3, <2>4
  <2> QED
    BY <2>4, <2>5, FS_EmptySet
<1>6. \A t \in Tasks : state[t] # "pending"
  <2> SUFFICES ASSUME NEW t \in Tasks, state[t] = "pending"
               PROVE  FALSE
    OBVIOUS
  <2>1. PICK d \in Threads : \E i \in 1 .. Len(deque[d]) : deque[d][i] = t
    BY <1>0, <1>3 DEF Kept, Located
  <2>2. PICK i \in 1 .. Len(deque[d]) : deque[d][i] = t
    BY <2>1
  <2>3. <<d, i>> \in Slots
    BY <1>0, SlotsLong DEF TypeOK
  <2> QED
    BY <1>5, <2>3
<1>7. ASSUME NEW th \in Threads, pc[th] = "asleep", top[th] \notin Workers, awaits[top[th]] \in Tasks
      PROVE  awaits[top[th]] \in Running /\ awaits[top[th]] \in knows[top[th]]
  <2> DEFINE v == awaits[top[th]]
  <2>1. top[th] \in Activities /\ v \in Tasks /\ v # None
    BY <1>0, <1>7, Kinds DEF TypeOK
  <2>2. state[v] # "done"
    BY <1>0, <1>3, <1>7, <2>1 DEF Sleepers, Sleepy, Sound
  <2>3. v \in knows[top[th]] /\ state[v] # "unborn"
    BY <2>1 DEF Fork, Awaiting
  <2>4. state[v] \in {"unborn", "pending", "running", "done"}
    BY <1>0, <2>1 DEF TypeOK
  <2> QED
    BY <1>6, <2>1, <2>2, <2>3, <2>4 DEF Running
<1>8. Running = {}
  <2> SUFFICES ASSUME Running # {}
               PROVE  FALSE
    OBVIOUS
  <2>1. PICK m \in Running : \A v \in Running : below[v] # m /\ v \notin knows[m]
    BY DEF Fork, Newest
  <2>2. m \in Tasks /\ state[m] = "running"
    BY DEF Running
  <2>3. \A u \in Tasks : below[u] # m
    <3> SUFFICES ASSUME NEW u \in Tasks, below[u] = m
                 PROVE  FALSE
      OBVIOUS
    <3>1. state[u] = "running"
      BY <1>3, <2>2, Kinds DEF Fork, Stacked
    <3> QED
      BY <2>1, <3>1 DEF Running
  <2>4. PICK th \in Threads : top[th] = m
    BY <2>2, <2>3 DEF Fork, Stacked
  <2>5. pc[th] = "asleep"
    BY <1>0, <1>2, <2>2, <2>4, Kinds DEF Ends
  <2>6. awaits[m] \in Tasks /\ m \notin Workers
    BY <2>2, <2>4, <2>5, Kinds DEF Fork, Awaiting, Waiting, Workers
  <2> QED
    BY <1>7, <2>1, <2>4, <2>5, <2>6
<1>9. top[0] = 0
  <2>1. top[0] \in Tasks => state[top[0]] = "running"
    BY <1>0, <1>1, <1>3 DEF Progress
  <2>2. top[0] \notin Tasks
    BY <1>8, <2>1 DEF Running
  <2> QED
    BY <1>0, <1>1, <2>2 DEF Structure, TypeOK, Chains, Activities
<1>10. awaits[0] = None
  <2>1. awaits[0] \in Tasks \cup {None}
    BY <1>0, <1>1, Kinds DEF TypeOK
  <2> QED
    BY <1>1, <1>7, <1>8, <1>9, <2>1
<1>11. ioPending = 0
  <2>1. IoOpen = {}
    BY <1>3, <1>6, <1>8, Kinds DEF IoOpen, Running, Finishing
  <2> QED
    BY <2>1, FS_EmptySet DEF IoCount
<1> QED
  <2>1. Sound(0)
    BY <1>0, <1>1 DEF Sleepers, Sleepy
  <2> QED
    BY <1>1, <1>3, <1>9, <1>10, <1>11, <2>1 DEF Sound

\* runtime.c: "a pool whose every thread awaits cannot deadlock" (PoolNotStuck).  It
\* is so for every program whose tasks await only the futures they spawned.  (For
\* other programs it is false, and a run shows two tasks asleep for each other.)
THEOREM PoolNeverAllAsleep ==
  ASSUME ForkJoin = TRUE
  PROVE  Spec => []PoolNotStuck
<1> DEFINE Inv == SleepInv /\ Fork /\ IoCount
<1>1. Init => Inv
  <2>1. Init => IoCount
    <3> SUFFICES ASSUME Init
                 PROVE  IoCount
      OBVIOUS
    <3>1. IoOpen = {}
      BY Kinds DEF Init, IoOpen
    <3> QED
      BY <3>1, FS_EmptySet DEF Init, IoCount
  <2> QED
    BY <2>1, SleepInit, ForkInit
<1>2. Inv /\ [Next]_vars => Inv'
  <2> SUFFICES ASSUME SleepInv, Fork, IoCount, [Next]_vars
               PROVE  Inv'
    OBVIOUS
  <2>1. SleepInv'
    BY SleepInvStep
  <2>2. Structure /\ Ends /\ ForkJoin
    BY DEF SleepInv
  <2>3. Fork'
    BY <2>2, ForkStep
  <2>4. IoCount'
    BY <2>2, IoStep
  <2> QED
    BY <2>1, <2>3, <2>4
<1>3. Inv => PoolNotStuck
  BY SomeoneAwake
<1> QED
  BY <1>1, <1>2, <1>3, PTL DEF Spec

=============================================================================
