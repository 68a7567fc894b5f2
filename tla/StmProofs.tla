----------------------------- MODULE StmProofs -----------------------------
(***************************************************************************)
(* Proofs about transactions, for any number of threads, transactions and  *)
(* variables, and runs and nestings of any length: the types, that a       *)
(* logged version tells the value it was read with, that a mark is always  *)
(* a mark of its log, and that `atomically` is the one-step transaction of *)
(* AtomicStm.                                                              *)
(***************************************************************************)
EXTENDS Stm, TLAPS, SequenceTheorems, FiniteSetTheorems, WellFoundedInduction

-----------------------------------------------------------------------------
(***************************************************************************)
(* What replaying a run computes.                                          *)
(***************************************************************************)
Start(st) == [ok |-> TRUE, view |-> st, saved |-> <<>>]

\* r is the replay of ops on st, one state for each number of operations.
IsReplay(r, st, ops) ==
  r = [n \in 0 .. Len(ops) |->
         IF n = 0 THEN Start(st) ELSE Atomic!Replay1(r[n - 1], ops[n])]

\* The function AtomicStm defines recursively is a replay where there is one.
LEMMA ReplaysIsReplay ==
  ASSUME NEW st, NEW ops, \E r : IsReplay(r, st, ops)
  PROVE  IsReplay(Atomic!Replays(st, ops), st, ops)
BY Zenon DEF Atomic!Replays, IsReplay, Start

LEMMA ReplayOfNothing ==
  ASSUME NEW st
  PROVE  /\ \E r : IsReplay(r, st, <<>>)
         /\ \A r : IsReplay(r, st, <<>>) => r[0] = Start(st)
<1> DEFINE f == [n \in 0 .. 0 |-> Start(st)]
<1>1. Len(<<>>) = 0
  OBVIOUS
<1>2. IsReplay(f, st, <<>>)
  BY <1>1 DEF IsReplay
<1>3. ASSUME NEW r, IsReplay(r, st, <<>>)
      PROVE  r[0] = Start(st)
  BY <1>1, <1>3 DEF IsReplay
<1> QED
  BY <1>2, <1>3

\* A replay of one operation more is a replay of the others, and one step.
LEMMA ReplayOfOneMore ==
  ASSUME NEW S, NEW ops \in Seq(S), NEW op \in S, NEW st
  PROVE  /\ (\E r : IsReplay(r, st, ops)) =>
              \E r : IsReplay(r, st, Append(ops, op))
         /\ \A r : IsReplay(r, st, Append(ops, op)) =>
              \E q : /\ IsReplay(q, st, ops)
                     /\ r[Len(Append(ops, op))] = Atomic!Replay1(q[Len(ops)], op)
<1> DEFINE n == Len(ops)
           more == Append(ops, op)
<1>0. n \in Nat
  OBVIOUS
<1>1. /\ Len(more) = n + 1
      /\ \A i \in 1 .. n : more[i] = ops[i]
      /\ more[n + 1] = op
  OBVIOUS
<1> HIDE DEF n, more
<1>2. ASSUME NEW q, IsReplay(q, st, ops)
      PROVE  \E r : IsReplay(r, st, more)
  <2> DEFINE f == [i \in 0 .. n + 1 |-> IF i = n + 1 THEN Atomic!Replay1(q[n], op) ELSE q[i]]
             g == [i \in 0 .. n + 1 |->
                     IF i = 0 THEN Start(st) ELSE Atomic!Replay1(f[i - 1], more[i])]
  <2>1. ASSUME NEW i \in 0 .. n + 1
        PROVE  f[i] = g[i]
    <3>1. CASE i = n + 1
      <4>1. f[i] = Atomic!Replay1(q[n], op)
        BY <1>0, <3>1
      <4>2. f[i - 1] = q[n] /\ more[i] = op /\ i # 0
        BY <1>0, <1>1, <3>1
      <4> QED
        BY <4>1, <4>2
    <3>2. CASE i = 0
      <4>1. q[0] = Start(st)
        BY <1>0, <1>2 DEF IsReplay, n
      <4> QED
        BY <1>0, <3>2, <4>1
    <3>3. CASE i \in 1 .. n
      <4>1. q[i] = Atomic!Replay1(q[i - 1], ops[i])
        BY <1>0, <1>2, <3>3 DEF IsReplay, n
      <4>2. f[i] = q[i] /\ f[i - 1] = q[i - 1] /\ more[i] = ops[i] /\ i # 0
        BY <1>0, <1>1, <3>3
      <4> QED
        BY <4>1, <4>2
    <3> QED
      BY <1>0, <3>1, <3>2, <3>3
  <2>2. f = g
    BY <2>1
  <2>3. IsReplay(f, st, more)
    BY <1>1, <2>2 DEF IsReplay
  <2> QED
    BY <2>3
<1>3. ASSUME NEW r, IsReplay(r, st, more)
      PROVE  \E q : /\ IsReplay(q, st, ops)
                    /\ r[n + 1] = Atomic!Replay1(q[n], op)
  <2> DEFINE q == [i \in 0 .. n |-> r[i]]
             p == [i \in 0 .. n |->
                     IF i = 0 THEN Start(st) ELSE Atomic!Replay1(q[i - 1], ops[i])]
  <2>1. \A i \in 0 .. n + 1 :
          r[i] = IF i = 0 THEN Start(st) ELSE Atomic!Replay1(r[i - 1], more[i])
    BY <1>1, <1>3 DEF IsReplay
  <2>2. ASSUME NEW i \in 0 .. n
        PROVE  q[i] = p[i]
    <3>1. CASE i = 0
      BY <1>0, <2>1, <3>1
    <3>2. CASE i # 0
      <4>1. i \in 1 .. n /\ i - 1 \in 0 .. n
        BY <1>0, <3>2
      <4>2. r[i] = Atomic!Replay1(r[i - 1], more[i])
        BY <1>0, <2>1, <3>2
      <4>3. more[i] = ops[i] /\ q[i] = r[i] /\ q[i - 1] = r[i - 1]
        BY <1>1, <4>1
      <4> QED
        BY <3>2, <4>2, <4>3
    <3> QED
      BY <3>1, <3>2
  <2>3. q = p
    BY <2>2
  <2>4. IsReplay(q, st, ops)
    BY <2>3 DEF IsReplay, n
  <2>5. r[n + 1] = Atomic!Replay1(r[n], more[n + 1])
    BY <1>0, <2>1
  <2>6. q[n] = r[n]
    BY <1>0
  <2> QED
    BY <1>1, <2>4, <2>5, <2>6
<1> QED
  BY <1>1, <1>2, <1>3 DEF n, more

-----------------------------------------------------------------------------
(***************************************************************************)
(* Write logs.                                                             *)
(***************************************************************************)
Values == {<<>>} \cup (Txs \X Nat)
LogWrites == Seq([tv : TVars, val : Values])

At(ws, tv) == {i \in 1 .. Len(ws) : ws[i].tv = tv}
Written(ws, tv) == \E i \in 1 .. Len(ws) : ws[i].tv = tv

\* What a transaction with the write log ws sees of the store st.
Overlay(st, ws) ==
  [tv \in TVars |-> IF Written(ws, tv) THEN LastWrite(ws, tv) ELSE st[tv]]

LEMMA LeastNat ==
  ASSUME NEW T, T \subseteq Nat, T # {}
  PROVE  \E x \in T : \A y \in T : x <= y
<1>1. PICK x \in T : \A y \in T : ~(<<y, x>> \in OpToRel(<, Nat))
  BY WFMin, NatLessThanWellFounded
<1>2. ASSUME NEW y \in T
      PROVE  x <= y
  <2>1. x \in Nat /\ y \in Nat
    OBVIOUS
  <2>2. ~(y < x)
    BY <1>1, <2>1 DEF OpToRel
  <2> QED
    BY <2>1, <2>2
<1> QED
  BY <1>2

LEMMA MaxExists ==
  ASSUME NEW n \in Nat, NEW T, T \subseteq 1 .. n, T # {}
  PROVE  Max(T) \in T /\ \A y \in T : Max(T) >= y
<1> DEFINE D == {d \in Nat : n - d \in T}
<1>1. D \subseteq Nat /\ D # {}
  <2>1. PICK y \in T : TRUE
    OBVIOUS
  <2>2. n - y \in Nat /\ n - (n - y) = y
    OBVIOUS
  <2> QED
    BY <2>1, <2>2
<1>2. PICK d \in D : \A e \in D : d <= e
  <2> HIDE DEF D
  <2> QED
    BY <1>1, LeastNat
<1>3. n - d \in T
  OBVIOUS
<1>4. ASSUME NEW y \in T
      PROVE  n - d >= y
  <2>1. n - y \in Nat /\ n - (n - y) = y
    OBVIOUS
  <2>2. n - y \in D
    BY <2>1
  <2>3. d <= n - y
    BY <1>2, <2>2
  <2> QED
    BY <2>1, <2>3
<1>5. \E x \in T : \A y \in T : x >= y
  BY <1>3, <1>4
<1> HIDE DEF D
<1> QED
  BY <1>5 DEF Max

LEMMA LastWriteType ==
  ASSUME NEW ws \in LogWrites, NEW tv, Written(ws, tv)
  PROVE  LastWrite(ws, tv) \in Values
<1>1. Len(ws) \in Nat /\ At(ws, tv) \subseteq 1 .. Len(ws) /\ At(ws, tv) # {}
  BY DEF LogWrites, At, Written
<1>2. Max(At(ws, tv)) \in At(ws, tv)
  BY <1>1, MaxExists
<1>3. Max(At(ws, tv)) \in 1 .. Len(ws)
  BY <1>2 DEF At
<1>4. ws[Max(At(ws, tv))] \in [tv : TVars, val : Values]
  BY <1>3, ElementOfSeq DEF LogWrites
<1> QED
  BY <1>4 DEF LastWrite, At

LEMMA WritesToType ==
  ASSUME NEW ws \in LogWrites, NEW tv
  PROVE  /\ WritesTo(ws, tv) \in Nat
         /\ WritesTo(ws, tv) > 0 <=> Written(ws, tv)
<1>1. Len(ws) \in Nat
  BY DEF LogWrites
<1>2. IsFiniteSet(1 .. Len(ws)) /\ At(ws, tv) \in SUBSET (1 .. Len(ws))
  BY <1>1, FS_Interval DEF At
<1>3. IsFiniteSet(At(ws, tv))
  BY <1>2, FS_Subset
<1>4. Cardinality(At(ws, tv)) \in Nat
  BY <1>3, FS_CardinalityType
<1>5. Cardinality(At(ws, tv)) = 0 <=> At(ws, tv) = {}
  BY <1>3, FS_EmptySet
<1>6. At(ws, tv) = {} <=> ~Written(ws, tv)
  BY DEF At, Written
<1>7. WritesTo(ws, tv) = Cardinality(At(ws, tv))
  BY DEF WritesTo, At
<1> QED
  BY <1>4, <1>5, <1>6, <1>7

\* One write more shows its own value, and the others as before.
LEMMA OverlayAppend ==
  ASSUME NEW st, NEW ws \in LogWrites, NEW tv \in TVars, NEW v \in Values
  PROVE  Overlay(st, Append(ws, [tv |-> tv, val |-> v])) =
           [Overlay(st, ws) EXCEPT ![tv] = v]
<1> DEFINE w == [tv |-> tv, val |-> v]
           n == Len(ws)
           more == Append(ws, w)
<1>0. n \in Nat
  BY DEF LogWrites
<1>1. /\ more \in LogWrites
      /\ Len(more) = n + 1
      /\ \A i \in 1 .. n : more[i] = ws[i]
      /\ more[n + 1] = w
  BY DEF LogWrites
<1> HIDE DEF n, more
<1>2. ASSUME NEW x \in TVars, x # tv
      PROVE  Overlay(st, more)[x] = Overlay(st, ws)[x]
  <2>1. At(more, x) = At(ws, x)
    BY <1>0, <1>1, <1>2 DEF At, n
  <2>2. Written(more, x) <=> Written(ws, x)
    BY <2>1 DEF At, Written
  <2>3. ASSUME Written(ws, x)
        PROVE  LastWrite(more, x) = LastWrite(ws, x)
    <3>1. At(ws, x) \subseteq 1 .. n /\ At(ws, x) # {}
      BY <2>3 DEF At, Written, n
    <3>2. Max(At(ws, x)) \in 1 .. n
      BY <1>0, <3>1, MaxExists
    <3> QED
      BY <1>1, <2>1, <3>2 DEF LastWrite, At
  <2> QED
    BY <2>2, <2>3 DEF Overlay
<1>3. Overlay(st, more)[tv] = v
  <2>1. n + 1 \in At(more, tv) /\ At(more, tv) \subseteq 1 .. n + 1
    BY <1>0, <1>1 DEF At
  <2>2. Max(At(more, tv)) = n + 1
    <3>1. Max(At(more, tv)) \in At(more, tv) /\ Max(At(more, tv)) >= n + 1
      BY <1>0, <2>1, MaxExists
    <3>2. Max(At(more, tv)) \in 1 .. n + 1
      BY <2>1, <3>1
    <3> QED
      BY <1>0, <3>1, <3>2
  <2>3. Written(more, tv)
    BY <2>1 DEF At, Written
  <2>4. LastWrite(more, tv) = more[n + 1].val
    BY <2>2 DEF LastWrite, At
  <2> QED
    BY <1>1, <2>3, <2>4 DEF Overlay
<1> DEFINE a == Overlay(st, more)
           b == [Overlay(st, ws) EXCEPT ![tv] = v]
<1>4. DOMAIN a = TVars /\ DOMAIN b = TVars /\ a = [x \in TVars |-> a[x]] /\ b = [x \in TVars |-> b[x]]
  BY DEF Overlay
<1>5. ASSUME NEW x \in TVars
      PROVE  a[x] = b[x]
  BY <1>2, <1>3 DEF Overlay
<1> HIDE DEF a, b
<1>6. a = b
  BY <1>4, <1>5
<1> QED
  BY <1>6 DEF a, b, more

LEMMA OverlayNothing ==
  ASSUME NEW S, NEW st \in [TVars -> S]
  PROVE  Overlay(st, <<>>) = st
<1>1. \A tv : ~Written(<<>>, tv)
  BY DEF Written
<1> QED
  BY <1>1 DEF Overlay

LEMMA PrefixFacts ==
  ASSUME NEW S, NEW ws \in Seq(S), NEW m \in 0 .. Len(ws)
  PROVE  /\ SubSeq(ws, 1, m) \in Seq(S)
         /\ Len(SubSeq(ws, 1, m)) = m
         /\ \A i \in 1 .. m : SubSeq(ws, 1, m)[i] = ws[i]
<1>1. Len(ws) \in Nat /\ \A i \in 1 .. m : ws[i] \in S
  OBVIOUS
<1>2. /\ SubSeq(ws, 1, m) \in Seq(S)
      /\ Len(SubSeq(ws, 1, m)) = IF 1 <= m THEN m - 1 + 1 ELSE 0
      /\ \A i \in 1 .. m - 1 + 1 : SubSeq(ws, 1, m)[i] = ws[1 + i - 1]
  BY <1>1, SubSeqProperties
<1>3. ASSUME NEW i \in 1 .. m
      PROVE  SubSeq(ws, 1, m)[i] = ws[i]
  <2>1. m - 1 + 1 = m /\ 1 + i - 1 = i
    BY <1>1
  <2> QED
    BY <1>2, <2>1
<1> QED
  BY <1>1, <1>2, <1>3

LEMMA PrefixOfMore ==
  ASSUME NEW S, NEW ws \in Seq(S), NEW w \in S, NEW m \in 0 .. Len(ws)
  PROVE  SubSeq(Append(ws, w), 1, m) = SubSeq(ws, 1, m)
<1>1. /\ Append(ws, w) \in Seq(S) /\ Len(Append(ws, w)) = Len(ws) + 1 /\ Len(ws) \in Nat
      /\ \A i \in 1 .. Len(ws) : Append(ws, w)[i] = ws[i]
  OBVIOUS
<1>2. m \in 0 .. Len(Append(ws, w))
  BY <1>1
<1>3. /\ SubSeq(Append(ws, w), 1, m) \in Seq(S)
      /\ Len(SubSeq(Append(ws, w), 1, m)) = m
      /\ \A i \in 1 .. m : SubSeq(Append(ws, w), 1, m)[i] = Append(ws, w)[i]
  BY <1>1, <1>2, PrefixFacts
<1>4. /\ SubSeq(ws, 1, m) \in Seq(S)
      /\ Len(SubSeq(ws, 1, m)) = m
      /\ \A i \in 1 .. m : SubSeq(ws, 1, m)[i] = ws[i]
  BY PrefixFacts
<1>5. \A i \in 1 .. m : SubSeq(Append(ws, w), 1, m)[i] = SubSeq(ws, 1, m)[i]
  BY <1>1, <1>3, <1>4
<1> QED
  BY <1>3, <1>4, <1>5, SeqEqual

LEMMA PrefixOfPrefix ==
  ASSUME NEW S, NEW ws \in Seq(S), NEW m \in 0 .. Len(ws), NEW k \in 0 .. m
  PROVE  SubSeq(SubSeq(ws, 1, m), 1, k) = SubSeq(ws, 1, k)
<1> DEFINE p == SubSeq(ws, 1, m)
<1>1. /\ p \in Seq(S) /\ Len(p) = m /\ Len(ws) \in Nat
      /\ \A i \in 1 .. m : p[i] = ws[i]
  BY PrefixFacts
<1> HIDE DEF p
<1>2. k \in 0 .. Len(p) /\ k \in 0 .. Len(ws)
  BY <1>1
<1>3. /\ SubSeq(p, 1, k) \in Seq(S)
      /\ Len(SubSeq(p, 1, k)) = k
      /\ \A i \in 1 .. k : SubSeq(p, 1, k)[i] = p[i]
  BY <1>1, <1>2, PrefixFacts
<1>4. /\ SubSeq(ws, 1, k) \in Seq(S)
      /\ Len(SubSeq(ws, 1, k)) = k
      /\ \A i \in 1 .. k : SubSeq(ws, 1, k)[i] = ws[i]
  BY <1>2, PrefixFacts
<1>5. \A i \in 1 .. k : SubSeq(p, 1, k)[i] = SubSeq(ws, 1, k)[i]
  BY <1>1, <1>3, <1>4
<1>6. SubSeq(p, 1, k) = SubSeq(ws, 1, k)
  BY <1>3, <1>4, <1>5, SeqEqual
<1> QED
  BY <1>6 DEF p

LEMMA FrontLast ==
  ASSUME NEW S, NEW s \in Seq(S), s # <<>>
  PROVE  /\ Front(s) \in Seq(S)
         /\ Len(s) \in Nat /\ Len(s) > 0
         /\ Len(Front(s)) = Len(s) - 1
         /\ \A i \in 1 .. Len(s) - 1 : Front(s)[i] = s[i]
         /\ Last(s) = s[Len(s)]
         /\ Last(s) \in S
<1>1. Len(s) \in Nat /\ Len(s) > 0 /\ Len(s) - 1 \in 0 .. Len(s)
  BY EmptySeq
<1>2. /\ Front(s) \in Seq(S)
      /\ Len(Front(s)) = Len(s) - 1
      /\ \A i \in 1 .. Len(s) - 1 : Front(s)[i] = s[i]
  BY <1>1, PrefixFacts DEF Front
<1> QED
  BY <1>1, <1>2 DEF Last

-----------------------------------------------------------------------------
(***************************************************************************)
(* What the log of a running transaction tells of its run: with the store  *)
(* va and the versions ve, rs, ws and ms are the reads, the writes and the *)
(* marks of a run that performed ops.                                      *)
(***************************************************************************)
Ops == [op : {"read", "write"}, tv : TVars, val : Values]
         \cup [op : {"save", "keep", "undo"}]

\* Every read of the log still stands, and st is the store where it matters.
Standing(va, ve, rs, st) ==
  \A i \in 1 .. Len(rs) : ve[rs[i].tv] = rs[i].version /\ st[rs[i].tv] = va[rs[i].tv]

\* The views the marks of the log go back to.
Views(st, ws, ms) == [k \in 1 .. Len(ms) |-> Overlay(st, SubSeq(ws, 1, ms[k]))]

\* A state of the replay on st that the log stands for.
Shows(s, va, ve, rs, ws, ms, st) ==
  /\ s = [ok |-> s.ok, view |-> Overlay(st, ws), saved |-> Views(st, ws, ms)]
  /\ s.ok \in BOOLEAN
  /\ Standing(va, ve, rs, st) => s.ok

Tracks(va, ve, rs, ws, ms, ops, st) ==
  /\ \E r : IsReplay(r, st, ops)
  /\ \A r : IsReplay(r, st, ops) => Shows(r[Len(ops)], va, ve, rs, ws, ms, st)

\* No read is of a version to come; a version that stands tells its value.
ReadsTell(va, ve, rs, ops) ==
  \A i \in 1 .. Len(rs) :
    /\ rs[i].version <= ve[rs[i].tv]
    /\ ve[rs[i].tv] = rs[i].version =>
         \E j \in 1 .. Len(ops) :
           ops[j] = [op |-> "read", tv |-> rs[i].tv, val |-> va[rs[i].tv]]

\* The marks are marks of the log, the inner ones no earlier than the outer.
MarksInLog(ws, ms) ==
  /\ \A k \in 1 .. Len(ms) : ms[k] <= Len(ws)
  /\ \A k, l \in 1 .. Len(ms) : k <= l => ms[k] <= ms[l]

LogOK(va, ve, rs, ws, ms, ops) ==
  /\ ReadsTell(va, ve, rs, ops)
  /\ MarksInLog(ws, ms)
  /\ \A st \in [TVars -> Values] : Tracks(va, ve, rs, ws, ms, ops, st)

LEMMA TracksMore ==
  ASSUME NEW va, NEW ve, NEW rs, NEW ws, NEW ms, NEW ops \in Seq(Ops), NEW st,
         NEW rs2, NEW ws2, NEW ms2, NEW op \in Ops,
         Tracks(va, ve, rs, ws, ms, ops, st),
         \A s : Shows(s, va, ve, rs, ws, ms, st) =>
                  Shows(Atomic!Replay1(s, op), va, ve, rs2, ws2, ms2, st)
  PROVE  Tracks(va, ve, rs2, ws2, ms2, Append(ops, op), st)
<1>1. \E r : IsReplay(r, st, Append(ops, op))
  BY ReplayOfOneMore DEF Tracks
<1>2. ASSUME NEW r, IsReplay(r, st, Append(ops, op))
      PROVE  Shows(r[Len(Append(ops, op))], va, ve, rs2, ws2, ms2, st)
  <2>1. PICK q : /\ IsReplay(q, st, ops)
                 /\ r[Len(Append(ops, op))] = Atomic!Replay1(q[Len(ops)], op)
    BY <1>2, ReplayOfOneMore
  <2>2. Shows(q[Len(ops)], va, ve, rs, ws, ms, st)
    BY <2>1 DEF Tracks
  <2> QED
    BY <2>1, <2>2
<1> QED
  BY <1>1, <1>2 DEF Tracks

LEMMA ReadsTellMore ==
  ASSUME NEW va, NEW ve, NEW rs, NEW ops \in Seq(Ops), NEW op \in Ops,
         ReadsTell(va, ve, rs, ops)
  PROVE  ReadsTell(va, ve, rs, Append(ops, op))
<1>1. /\ Len(Append(ops, op)) = Len(ops) + 1 /\ Len(ops) \in Nat
      /\ \A j \in 1 .. Len(ops) : Append(ops, op)[j] = ops[j]
  OBVIOUS
<1>2. \A j \in 1 .. Len(ops) : j \in 1 .. Len(Append(ops, op))
  BY <1>1
<1> QED
  BY <1>1, <1>2 DEF ReadsTell

LEMMA OpTypes ==
  ASSUME NEW tv \in TVars, NEW v \in Values
  PROVE  /\ [op |-> "read", tv |-> tv, val |-> v] \in Ops
         /\ [op |-> "write", tv |-> tv, val |-> v] \in Ops
         /\ [op |-> "save"] \in Ops /\ [op |-> "keep"] \in Ops /\ [op |-> "undo"] \in Ops
BY DEF Ops

\* An empty log of an empty run.
LEMMA LogStart ==
  ASSUME NEW va, NEW ve
  PROVE  LogOK(va, ve, <<>>, <<>>, <<>>, <<>>)
<1>1. ReadsTell(va, ve, <<>>, <<>>) /\ MarksInLog(<<>>, <<>>)
  BY DEF ReadsTell, MarksInLog
<1>2. ASSUME NEW st \in [TVars -> Values]
      PROVE  Tracks(va, ve, <<>>, <<>>, <<>>, <<>>, st)
  <2>1. Overlay(st, <<>>) = st
    BY OverlayNothing
  <2>2. Views(st, <<>>, <<>>) = <<>>
    BY DEF Views
  <2>3. Shows(Start(st), va, ve, <<>>, <<>>, <<>>, st)
    BY <2>1, <2>2 DEF Shows, Start
  <2> QED
    BY <2>3, ReplayOfNothing DEF Tracks
<1> QED
  BY <1>1, <1>2 DEF LogOK

\* A read of the transaction's own write.
LEMMA LogReadOwn ==
  ASSUME NEW va, NEW ve, NEW rs, NEW ws \in LogWrites, NEW ms, NEW ops \in Seq(Ops),
         NEW tv \in TVars, Written(ws, tv), LogOK(va, ve, rs, ws, ms, ops)
  PROVE  LogOK(va, ve, rs, ws, ms,
               Append(ops, [op |-> "read", tv |-> tv, val |-> LastWrite(ws, tv)]))
<1> DEFINE v == LastWrite(ws, tv)
           op == [op |-> "read", tv |-> tv, val |-> v]
<1>1. v \in Values
  BY LastWriteType
<1> HIDE DEF v
<1>2. op \in Ops /\ op.op = "read" /\ op.tv = tv /\ op.val = v
  BY <1>1, OpTypes
<1> HIDE DEF op
<1>3. ASSUME NEW st \in [TVars -> Values]
      PROVE  Tracks(va, ve, rs, ws, ms, Append(ops, op), st)
  <2>1. ASSUME NEW s, Shows(s, va, ve, rs, ws, ms, st)
        PROVE  Shows(Atomic!Replay1(s, op), va, ve, rs, ws, ms, st)
    <3>1. s.view[tv] = v
      BY <2>1 DEF Shows, Overlay, v
    <3>2. Atomic!Replay1(s, op) = [s EXCEPT !.ok = @ /\ s.view[op.tv] = op.val]
      BY <1>2 DEF Atomic!Replay1
    <3>3. s.ok \in BOOLEAN /\ s = [ok |-> s.ok, view |-> s.view, saved |-> s.saved]
      BY <2>1 DEF Shows
    <3>4. Atomic!Replay1(s, op) = s
      BY <1>2, <3>1, <3>2, <3>3
    <3> QED
      BY <2>1, <3>4
  <2> QED
    BY <1>2, <1>3, <2>1, TracksMore DEF LogOK
<1>4. ReadsTell(va, ve, rs, Append(ops, op))
  BY <1>2, ReadsTellMore DEF LogOK
<1> QED
  BY <1>3, <1>4 DEF LogOK, op, v

\* A read of a variable the transaction has not written.
LEMMA LogReadStore ==
  ASSUME NEW va \in [TVars -> Values], NEW ve \in [TVars -> Nat],
         NEW rs \in LogReads, NEW ws, NEW ms, NEW ops \in Seq(Ops),
         NEW tv \in TVars, ~Written(ws, tv), LogOK(va, ve, rs, ws, ms, ops)
  PROVE  LogOK(va, ve, Append(rs, [tv |-> tv, version |-> ve[tv]]), ws, ms,
               Append(ops, [op |-> "read", tv |-> tv, val |-> va[tv]]))
<1> DEFINE op == [op |-> "read", tv |-> tv, val |-> va[tv]]
           entry == [tv |-> tv, version |-> ve[tv]]
           rs2 == Append(rs, entry)
           ops2 == Append(ops, op)
<1>1. op \in Ops /\ op.op = "read" /\ op.tv = tv /\ op.val = va[tv]
  BY OpTypes
<1>2. entry \in [tv : TVars, version : Nat] /\ entry.tv = tv /\ entry.version = ve[tv]
  OBVIOUS
<1>3. /\ Len(rs) \in Nat /\ Len(rs2) = Len(rs) + 1
      /\ \A i \in 1 .. Len(rs) : rs2[i] = rs[i]
      /\ rs2[Len(rs) + 1] = entry
  BY <1>2, AppendProperties, LenProperties DEF LogReads
<1>4. /\ Len(ops) \in Nat /\ Len(ops2) = Len(ops) + 1
      /\ ops2[Len(ops) + 1] = op
  BY <1>1, AppendProperties, LenProperties
<1>5. ReadsTell(va, ve, rs, ops2)
  BY <1>1, ReadsTellMore DEF LogOK
<1> HIDE DEF rs2, ops2
<1>6. ReadsTell(va, ve, rs2, ops2)
  <2> SUFFICES ASSUME NEW i \in 1 .. Len(rs2)
               PROVE  /\ rs2[i].version <= ve[rs2[i].tv]
                      /\ ve[rs2[i].tv] = rs2[i].version =>
                           \E j \in 1 .. Len(ops2) :
                             ops2[j] = [op |-> "read", tv |-> rs2[i].tv, val |-> va[rs2[i].tv]]
    BY DEF ReadsTell
  <2>1. CASE i \in 1 .. Len(rs)
    BY <1>3, <1>5, <2>1 DEF ReadsTell
  <2>2. CASE i = Len(rs) + 1
    <3>1. Len(ops) + 1 \in 1 .. Len(ops2)
      BY <1>4
    <3> QED
      BY <1>2, <1>3, <1>4, <2>2, <3>1
  <2> QED
    BY <1>3, <2>1, <2>2
<1>7. ASSUME NEW st \in [TVars -> Values]
      PROVE  Tracks(va, ve, rs2, ws, ms, ops2, st)
  <2>1. ASSUME NEW s, Shows(s, va, ve, rs, ws, ms, st)
        PROVE  Shows(Atomic!Replay1(s, op), va, ve, rs2, ws, ms, st)
    <3> DEFINE t == Atomic!Replay1(s, op)
               b == s.view[tv] = va[tv]
    <3>1. t = [s EXCEPT !.ok = @ /\ s.view[op.tv] = op.val]
      BY <1>1 DEF Atomic!Replay1
    <3>2. s.ok \in BOOLEAN /\ s = [ok |-> s.ok, view |-> s.view, saved |-> s.saved]
      BY <2>1 DEF Shows
    <3>3. t = [ok |-> s.ok /\ b, view |-> s.view, saved |-> s.saved]
      BY <1>1, <3>1, <3>2
    <3>4. s.view[tv] = st[tv]
      BY <2>1 DEF Shows, Overlay
    <3> HIDE DEF t
    <3>5. /\ t.ok = (s.ok /\ b) /\ t.ok \in BOOLEAN
          /\ t = [ok |-> t.ok, view |-> s.view, saved |-> s.saved]
      BY <3>2, <3>3
    <3>6. ASSUME Standing(va, ve, rs2, st)
          PROVE  t.ok
      <4>1. Standing(va, ve, rs, st)
        BY <1>3, <3>6 DEF Standing
      <4>2. st[tv] = va[tv]
        BY <1>2, <1>3, <3>6 DEF Standing
      <4> QED
        BY <2>1, <3>4, <3>5, <4>1, <4>2 DEF Shows
    <3> QED
      BY <2>1, <3>5, <3>6 DEF Shows, t
  <2> QED
    BY <1>1, <1>7, <2>1, TracksMore DEF LogOK, ops2
<1> QED
  BY <1>6, <1>7 DEF LogOK, rs2, ops2

LEMMA LogWrite ==
  ASSUME NEW va, NEW ve, NEW rs, NEW ws \in LogWrites, NEW ms \in Seq(Nat),
         NEW ops \in Seq(Ops), NEW tv \in TVars, NEW v \in Values,
         LogOK(va, ve, rs, ws, ms, ops)
  PROVE  LogOK(va, ve, rs, Append(ws, [tv |-> tv, val |-> v]), ms,
               Append(ops, [op |-> "write", tv |-> tv, val |-> v]))
<1> DEFINE op == [op |-> "write", tv |-> tv, val |-> v]
           w == [tv |-> tv, val |-> v]
           ws2 == Append(ws, w)
<1>1. op \in Ops /\ op.op = "write" /\ op.tv = tv /\ op.val = v
  BY OpTypes
<1>2. ws \in Seq([tv : TVars, val : Values]) /\ w \in [tv : TVars, val : Values]
  BY DEF LogWrites
<1>3. Len(ws) \in Nat /\ Len(ws2) = Len(ws) + 1
  BY <1>2, AppendProperties, LenProperties
<1>4. \A k \in 1 .. Len(ms) : ms[k] \in 0 .. Len(ws)
  BY <1>3 DEF LogOK, MarksInLog
<1>5. MarksInLog(ws2, ms)
  BY <1>3, <1>4 DEF LogOK, MarksInLog
<1>6. ReadsTell(va, ve, rs, Append(ops, op))
  BY <1>1, ReadsTellMore DEF LogOK
<1>7. ASSUME NEW st \in [TVars -> Values]
      PROVE  Tracks(va, ve, rs, ws2, ms, Append(ops, op), st)
  <2>1. Overlay(st, ws2) = [Overlay(st, ws) EXCEPT ![tv] = v]
    BY OverlayAppend
  <2>2. ASSUME NEW k \in 1 .. Len(ms)
        PROVE  SubSeq(ws2, 1, ms[k]) = SubSeq(ws, 1, ms[k])
    BY <1>2, <1>4, PrefixOfMore
  <2>3. Views(st, ws2, ms) = Views(st, ws, ms)
    BY <2>2 DEF Views
  <2> HIDE DEF ws2
  <2>4. ASSUME NEW s, Shows(s, va, ve, rs, ws, ms, st)
        PROVE  Shows(Atomic!Replay1(s, op), va, ve, rs, ws2, ms, st)
    <3> DEFINE t == Atomic!Replay1(s, op)
    <3>1. t = [s EXCEPT !.view[op.tv] = op.val]
      BY <1>1 DEF Atomic!Replay1
    <3>2. s = [ok |-> s.ok, view |-> Overlay(st, ws), saved |-> Views(st, ws, ms)]
      BY <2>4 DEF Shows
    <3> HIDE DEF t, op
    <3>3. t = [ok |-> s.ok, view |-> [s.view EXCEPT ![tv] = v], saved |-> s.saved]
      BY <1>1, <3>1, <3>2
    <3>4. s.view = Overlay(st, ws) /\ s.saved = Views(st, ws, ms)
      BY <3>2
    <3>5. t = [ok |-> s.ok, view |-> Overlay(st, ws2), saved |-> Views(st, ws2, ms)]
      BY <2>1, <2>3, <3>3, <3>4
    <3>6. t.ok = s.ok
      BY <3>5
    <3> QED
      BY <2>4, <3>5, <3>6 DEF Shows, t
  <2> QED
    BY <1>1, <1>7, <2>4, TracksMore DEF LogOK
<1> QED
  BY <1>5, <1>6, <1>7 DEF LogOK

LEMMA LogSave ==
  ASSUME NEW va, NEW ve, NEW rs, NEW ws \in LogWrites, NEW ms \in Seq(Nat),
         NEW ops \in Seq(Ops), LogOK(va, ve, rs, ws, ms, ops)
  PROVE  LogOK(va, ve, rs, ws, Append(ms, Len(ws)), Append(ops, [op |-> "save"]))
<1> DEFINE op == [op |-> "save"]
           ms2 == Append(ms, Len(ws))
           n == Len(ms)
<1>1. op \in Ops /\ op.op = "save"
  BY DEF Ops
<1>2. Len(ws) \in Nat /\ SubSeq(ws, 1, Len(ws)) = ws
  BY SubSeqFull DEF LogWrites
<1>3. /\ n \in Nat /\ Len(ms2) = n + 1
      /\ \A i \in 1 .. n : ms2[i] = ms[i]
      /\ ms2[n + 1] = Len(ws)
  BY <1>2, AppendProperties, LenProperties
<1>4. ReadsTell(va, ve, rs, Append(ops, op))
  BY <1>1, ReadsTellMore DEF LogOK
<1> HIDE DEF ms2, op
<1>5. MarksInLog(ws, ms2)
  <2>1. \A k \in 1 .. n + 1 : k \in 1 .. n \/ k = n + 1
    BY <1>3
  <2>2. \A k \in 1 .. n : ms[k] <= Len(ws)
    BY DEF LogOK, MarksInLog
  <2>3. \A k \in 1 .. n + 1 : ms2[k] <= Len(ws)
    BY <1>2, <1>3, <2>1, <2>2
  <2>4. ASSUME NEW k \in 1 .. n + 1, NEW l \in 1 .. n + 1, k <= l
        PROVE  ms2[k] <= ms2[l]
    <3>1. CASE l = n + 1
      BY <1>3, <2>3, <3>1
    <3>2. CASE l \in 1 .. n
      <4>1. k \in 1 .. n
        BY <1>3, <2>4, <3>2
      <4> QED
        BY <1>3, <2>4, <3>2, <4>1 DEF LogOK, MarksInLog
    <3> QED
      BY <2>1, <3>1, <3>2
  <2> QED
    BY <1>3, <2>3, <2>4 DEF MarksInLog
<1>6. ASSUME NEW st \in [TVars -> Values]
      PROVE  Tracks(va, ve, rs, ws, ms2, Append(ops, op), st)
  <2> DEFINE a == Append(Views(st, ws, ms), Overlay(st, ws))
             b == Views(st, ws, ms2)
             V == {Overlay(st, u) : u \in {ws} \cup {SubSeq(ws, 1, ms[k]) : k \in 1 .. n}}
  <2>0. Overlay(st, ws) \in V /\ \A k \in 1 .. n : Overlay(st, SubSeq(ws, 1, ms[k])) \in V
    OBVIOUS
  <2>1. Views(st, ws, ms) \in Seq(V) /\ Len(Views(st, ws, ms)) = n /\ Overlay(st, ws) \in V
    <3> HIDE DEF V
    <3> QED
      BY <1>3, <2>0 DEF Views
  <2>2. /\ a \in Seq(V) /\ Len(a) = n + 1
        /\ \A i \in 1 .. n : a[i] = Views(st, ws, ms)[i]
        /\ a[n + 1] = Overlay(st, ws)
    <3> HIDE DEF V
    <3> QED
      BY <2>1, AppendProperties
  <2>3. ASSUME NEW i \in 1 .. n + 1
        PROVE  a[i] = Overlay(st, SubSeq(ws, 1, ms2[i]))
    <3>1. CASE i \in 1 .. n
      BY <1>3, <2>2, <3>1 DEF Views
    <3>2. CASE i = n + 1
      BY <1>2, <1>3, <2>2, <3>2
    <3>3. i \in 1 .. n \/ i = n + 1
      BY <1>3
    <3> QED
      BY <3>1, <3>2, <3>3
  <2> HIDE DEF V
  <2>4. a = [i \in 1 .. n + 1 |-> a[i]]
    BY <1>3, <2>2, LenProperties
  <2>5. a = b
    BY <1>3, <2>3, <2>4 DEF Views
  <2>6. ASSUME NEW s, Shows(s, va, ve, rs, ws, ms, st)
        PROVE  Shows(Atomic!Replay1(s, op), va, ve, rs, ws, ms2, st)
    <3> DEFINE t == Atomic!Replay1(s, op)
    <3>1. t = [s EXCEPT !.saved = Append(@, s.view)]
      BY <1>1 DEF Atomic!Replay1
    <3>2. s = [ok |-> s.ok, view |-> Overlay(st, ws), saved |-> Views(st, ws, ms)]
      BY <2>6 DEF Shows
    <3> HIDE DEF t
    <3>3. t = [ok |-> s.ok, view |-> s.view, saved |-> Append(s.saved, s.view)]
      BY <3>1, <3>2
    <3>4. s.view = Overlay(st, ws) /\ s.saved = Views(st, ws, ms)
      BY <3>2
    <3>5. t = [ok |-> s.ok, view |-> Overlay(st, ws), saved |-> a]
      BY <3>3, <3>4
    <3>6. t.ok = s.ok
      BY <3>5
    <3> QED
      BY <2>5, <2>6, <3>5, <3>6 DEF Shows, t
  <2> QED
    BY <1>1, <1>6, <2>6, TracksMore DEF LogOK
<1> QED
  BY <1>4, <1>5, <1>6 DEF LogOK, ms2, op

LEMMA ViewsFront ==
  ASSUME NEW st, NEW ws, NEW ms \in Seq(Nat), ms # <<>>
  PROVE  /\ Front(Views(st, ws, ms)) = Views(st, ws, Front(ms))
         /\ Last(Views(st, ws, ms)) = Overlay(st, SubSeq(ws, 1, Last(ms)))
<1> DEFINE n == Len(ms)
           V == {Overlay(st, SubSeq(ws, 1, ms[k])) : k \in 1 .. n}
           vs == Views(st, ws, ms)
           a == Front(vs)
           b == Views(st, ws, Front(ms))
<1>1. /\ n \in Nat /\ n > 0
      /\ Len(Front(ms)) = n - 1
      /\ \A i \in 1 .. n - 1 : Front(ms)[i] = ms[i]
      /\ Last(ms) = ms[n]
  BY FrontLast
<1>2. \A k \in 1 .. n : Overlay(st, SubSeq(ws, 1, ms[k])) \in V
  OBVIOUS
<1> HIDE DEF V
<1>3. vs \in Seq(V) /\ Len(vs) = n
  BY <1>1, <1>2 DEF Views
<1>4. \A k \in 1 .. n : vs[k] = Overlay(st, SubSeq(ws, 1, ms[k]))
  BY DEF Views
<1> HIDE DEF vs
<1>5. vs # <<>>
  BY <1>1, <1>3
<1>6. /\ a \in Seq(V) /\ Len(a) = n - 1
      /\ \A i \in 1 .. n - 1 : a[i] = vs[i]
      /\ Last(vs) = vs[n]
  BY <1>3, <1>5, FrontLast
<1> HIDE DEF a, n
<1>7. \A i \in 1 .. n - 1 : i \in 1 .. n
  BY <1>1
<1>8. ASSUME NEW i \in 1 .. n - 1
      PROVE  a[i] = Overlay(st, SubSeq(ws, 1, Front(ms)[i]))
  BY <1>1, <1>4, <1>6, <1>7
<1>9. a = [i \in 1 .. n - 1 |-> a[i]]
  BY <1>6, LenProperties
<1>10. a = b
  BY <1>1, <1>8, <1>9 DEF Views
<1>11. Last(vs) = Overlay(st, SubSeq(ws, 1, Last(ms)))
  <2>1. n \in 1 .. n
    BY <1>1
  <2> QED
    BY <1>1, <1>4, <1>6, <2>1
<1> QED
  BY <1>10, <1>11 DEF a, vs

LEMMA LogKeep ==
  ASSUME NEW va, NEW ve, NEW rs, NEW ws \in LogWrites, NEW ms \in Seq(Nat), ms # <<>>,
         NEW ops \in Seq(Ops), LogOK(va, ve, rs, ws, ms, ops)
  PROVE  LogOK(va, ve, rs, ws, Front(ms), Append(ops, [op |-> "keep"]))
<1> DEFINE op == [op |-> "keep"]
           ms2 == Front(ms)
           n == Len(ms)
<1>1. op \in Ops /\ op.op = "keep"
  BY DEF Ops
<1>2. /\ n \in Nat /\ n > 0
      /\ Len(ms2) = n - 1
      /\ \A i \in 1 .. n - 1 : ms2[i] = ms[i]
  BY FrontLast
<1>3. ReadsTell(va, ve, rs, Append(ops, op))
  BY <1>1, ReadsTellMore DEF LogOK
<1> HIDE DEF op, ms2
<1>4. MarksInLog(ws, ms2)
  <2>1. \A i \in 1 .. n - 1 : i \in 1 .. n
    BY <1>2
  <2> QED
    BY SMTT(30), <1>2, <2>1 DEF LogOK, MarksInLog
<1>5. ASSUME NEW st \in [TVars -> Values]
      PROVE  Tracks(va, ve, rs, ws, ms2, Append(ops, op), st)
  <2>1. Front(Views(st, ws, ms)) = Views(st, ws, ms2)
    BY ViewsFront DEF ms2
  <2>2. ASSUME NEW s, Shows(s, va, ve, rs, ws, ms, st)
        PROVE  Shows(Atomic!Replay1(s, op), va, ve, rs, ws, ms2, st)
    <3> DEFINE t == Atomic!Replay1(s, op)
    <3>1. t = [s EXCEPT !.saved = Front(@)]
      BY <1>1 DEF Atomic!Replay1, Atomic!Front, Front
    <3>2. s = [ok |-> s.ok, view |-> Overlay(st, ws), saved |-> Views(st, ws, ms)]
      BY <2>2 DEF Shows
    <3> HIDE DEF t
    <3>3. t = [ok |-> s.ok, view |-> s.view, saved |-> Front(s.saved)]
      BY <3>1, <3>2
    <3>4. s.view = Overlay(st, ws) /\ s.saved = Views(st, ws, ms)
      BY <3>2
    <3>5. t = [ok |-> s.ok, view |-> Overlay(st, ws), saved |-> Views(st, ws, ms2)]
      BY <2>1, <3>3, <3>4
    <3>6. t.ok = s.ok
      BY <3>5
    <3> QED
      BY <2>2, <3>5, <3>6 DEF Shows, t
  <2> QED
    BY <1>1, <1>5, <2>2, TracksMore DEF LogOK
<1> QED
  BY <1>3, <1>4, <1>5 DEF LogOK, op, ms2

LEMMA LogUndo ==
  ASSUME NEW va, NEW ve, NEW rs, NEW ws \in LogWrites, NEW ms \in Seq(Nat), ms # <<>>,
         NEW ops \in Seq(Ops), LogOK(va, ve, rs, ws, ms, ops)
  PROVE  LogOK(va, ve, rs, SubSeq(ws, 1, Last(ms)), Front(ms), Append(ops, [op |-> "undo"]))
<1> DEFINE op == [op |-> "undo"]
           ms2 == Front(ms)
           n == Len(ms)
           m == Last(ms)
           ws2 == SubSeq(ws, 1, m)
<1>1. op \in Ops /\ op.op = "undo"
  BY DEF Ops
<1>2. /\ n \in Nat /\ n > 0
      /\ Len(ms2) = n - 1
      /\ \A i \in 1 .. n - 1 : ms2[i] = ms[i]
      /\ m = ms[n] /\ m \in Nat
  BY FrontLast
<1>3. ReadsTell(va, ve, rs, Append(ops, op))
  BY <1>1, ReadsTellMore DEF LogOK
<1>4. n \in 1 .. n /\ \A i \in 1 .. n - 1 : i \in 1 .. n /\ i <= n
  BY <1>2
<1> HIDE DEF op, ms2, m
<1>5. m <= Len(ws) /\ Len(ws) \in Nat /\ ws \in Seq([tv : TVars, val : Values])
  BY <1>2, <1>4 DEF LogOK, MarksInLog, LogWrites
<1>6. m \in 0 .. Len(ws)
  BY <1>2, <1>5
<1>7. Len(ws2) = m
  BY <1>5, <1>6, PrefixFacts
<1>8. \A i \in 1 .. n - 1 : ms2[i] \in 0 .. m
  <2>1. \A i \in 1 .. n - 1 : ms[i] <= ms[n] /\ ms[i] \in Nat
    BY <1>4 DEF LogOK, MarksInLog
  <2> QED
    BY <1>2, <2>1
<1> HIDE DEF ws2
<1>9. MarksInLog(ws2, ms2)
  <2>1. \A i \in 1 .. n - 1 : ms2[i] <= m
    BY <1>2, <1>8
  <2>2. \A k, l \in 1 .. n - 1 : k <= l => ms2[k] <= ms2[l]
    BY <1>2, <1>4 DEF LogOK, MarksInLog
  <2> QED
    BY <1>2, <1>7, <2>1, <2>2 DEF MarksInLog
<1>10. ASSUME NEW st \in [TVars -> Values]
       PROVE  Tracks(va, ve, rs, ws2, ms2, Append(ops, op), st)
  <2>1. /\ Front(Views(st, ws, ms)) = Views(st, ws, ms2)
        /\ Last(Views(st, ws, ms)) = Overlay(st, ws2)
    BY ViewsFront DEF ms2, ws2, m
  <2>2. ASSUME NEW i \in 1 .. n - 1
        PROVE  SubSeq(ws2, 1, ms2[i]) = SubSeq(ws, 1, ms2[i])
    BY <1>5, <1>6, <1>8, PrefixOfPrefix DEF ws2
  <2>3. Views(st, ws2, ms2) = Views(st, ws, ms2)
    BY <1>2, <2>2 DEF Views
  <2>4. ASSUME NEW s, Shows(s, va, ve, rs, ws, ms, st)
        PROVE  Shows(Atomic!Replay1(s, op), va, ve, rs, ws2, ms2, st)
    <3> DEFINE t == Atomic!Replay1(s, op)
    <3>1. t = [s EXCEPT !.view = Last(s.saved), !.saved = Front(@)]
      BY <1>1 DEF Atomic!Replay1, Atomic!Front, Atomic!Last, Front, Last
    <3>2. s = [ok |-> s.ok, view |-> Overlay(st, ws), saved |-> Views(st, ws, ms)]
      BY <2>4 DEF Shows
    <3> HIDE DEF t
    <3>3. t = [ok |-> s.ok, view |-> Last(s.saved), saved |-> Front(s.saved)]
      BY <3>1, <3>2
    <3>4. s.saved = Views(st, ws, ms)
      BY <3>2
    <3>5. t = [ok |-> s.ok, view |-> Overlay(st, ws2), saved |-> Views(st, ws2, ms2)]
      BY <2>1, <2>3, <3>3, <3>4
    <3>6. t.ok = s.ok
      BY <3>5
    <3> QED
      BY <2>4, <3>5, <3>6 DEF Shows, t
  <2> QED
    BY <1>1, <1>10, <2>4, TracksMore DEF LogOK
<1> QED
  BY <1>3, <1>9, <1>10 DEF LogOK, op, ms2, ws2, m

\* Another transaction commits: versions only rise, and where one does not the
\* value is the same.
LEMMA LogOfOther ==
  ASSUME NEW va, NEW ve \in [TVars -> Nat], NEW va2, NEW ve2 \in [TVars -> Nat],
         NEW rs \in LogReads, NEW ws, NEW ms, NEW ops,
         \A tv \in TVars : /\ ve[tv] <= ve2[tv]
                           /\ ve[tv] = ve2[tv] => va[tv] = va2[tv],
         LogOK(va, ve, rs, ws, ms, ops)
  PROVE  LogOK(va2, ve2, rs, ws, ms, ops)
<1>1. \A i \in 1 .. Len(rs) : rs[i].tv \in TVars /\ rs[i].version \in Nat
  <2>1. \A i \in 1 .. Len(rs) : rs[i] \in [tv : TVars, version : Nat]
    BY ElementOfSeq DEF LogReads
  <2> QED
    BY <2>1
<1>2. ASSUME NEW i \in 1 .. Len(rs)
      PROVE  /\ rs[i].version <= ve2[rs[i].tv]
             /\ ve2[rs[i].tv] = rs[i].version =>
                  ve[rs[i].tv] = rs[i].version /\ va[rs[i].tv] = va2[rs[i].tv]
  <2> DEFINE x == rs[i].tv
             n == rs[i].version
  <2>1. x \in TVars /\ n \in Nat
    BY <1>1
  <2>2. n <= ve[x]
    BY DEF LogOK, ReadsTell
  <2>3. ve[x] <= ve2[x] /\ (ve[x] = ve2[x] => va[x] = va2[x]) /\ ve[x] \in Nat /\ ve2[x] \in Nat
    BY <2>1
  <2> HIDE DEF x, n
  <2>4. n <= ve2[x] /\ (ve2[x] = n => ve[x] = n /\ va[x] = va2[x])
    BY <2>1, <2>2, <2>3
  <2> QED
    BY <2>4 DEF x, n
<1>3. ReadsTell(va2, ve2, rs, ops)
  <2>1. ASSUME NEW i \in 1 .. Len(rs), ve2[rs[i].tv] = rs[i].version
        PROVE  \E j \in 1 .. Len(ops) :
                 ops[j] = [op |-> "read", tv |-> rs[i].tv, val |-> va2[rs[i].tv]]
    <3>1. ve[rs[i].tv] = rs[i].version /\ va[rs[i].tv] = va2[rs[i].tv]
      BY <1>2, <2>1
    <3>2. \E j \in 1 .. Len(ops) :
            ops[j] = [op |-> "read", tv |-> rs[i].tv, val |-> va[rs[i].tv]]
      BY <3>1 DEF LogOK, ReadsTell
    <3> QED
      BY <3>1, <3>2
  <2> QED
    BY <1>2, <2>1, Zenon DEF ReadsTell
<1>4. \A st : Standing(va2, ve2, rs, st) => Standing(va, ve, rs, st)
  BY <1>2 DEF Standing
<1>5. \A s, st : Shows(s, va, ve, rs, ws, ms, st) => Shows(s, va2, ve2, rs, ws, ms, st)
  BY <1>4 DEF Shows
<1>6. \A st \in [TVars -> Values] : Tracks(va2, ve2, rs, ws, ms, ops, st)
  BY <1>5 DEF LogOK, Tracks
<1> QED
  BY <1>3, <1>6 DEF LogOK

-----------------------------------------------------------------------------
(***************************************************************************)
(* The types, whether or not a transaction may await.                      *)
(***************************************************************************)
Labels == {"queued", "begin", "body", "wait", "done", "fault"}

Types ==
  /\ val \in [TVars -> Values]
  /\ version \in [TVars -> Nat]
  /\ reads \in [Threads -> LogReads]
  /\ writes \in [Threads -> LogWrites]
  /\ stack \in [Threads -> Seq(Txs)]
  /\ pc \in [Txs -> Labels]
  /\ marks \in [Txs -> Seq(Nat)]
  /\ watch \in [Txs -> LogReads]
  /\ run \in [Txs -> Seq(Ops)]

LEMMA EmptyLogs == /\ <<>> \in LogReads /\ <<>> \in LogWrites
                   /\ <<>> \in Seq(Txs) /\ <<>> \in Seq(Nat) /\ <<>> \in Seq(Ops)
BY DEF LogReads, LogWrites

LEMMA TypesInit == Init => Types
BY EmptyLogs DEF Init, Types, Values, Labels

LEMMA RecordType ==
  ASSUME NEW tx \in Txs, NEW op \in Ops, Record(tx, op), run \in [Txs -> Seq(Ops)]
  PROVE  run' \in [Txs -> Seq(Ops)]
<1>1. Append(run[tx], op) \in Seq(Ops)
  BY AppendProperties
<1> QED
  BY <1>1 DEF Record

LEMMA ReadTypes ==
  ASSUME Types, NEW th \in Threads, NEW tx \in Txs, NEW tv \in TVars, THxSTM_read(th, tx, tv)
  PROVE  Types'
<1> USE DEF Types
<1>1. CASE /\ Written(writes[th], tv)
           /\ Record(tx, [op |-> "read", tv |-> tv, val |-> LastWrite(writes[th], tv)])
           /\ UNCHANGED reads
  <2>1. LastWrite(writes[th], tv) \in Values
    BY <1>1, LastWriteType
  <2>2. run' \in [Txs -> Seq(Ops)]
    BY <1>1, <2>1, OpTypes, RecordType
  <2> QED
    BY <1>1, <2>2 DEF THxSTM_read
<1>2. CASE /\ Record(tx, [op |-> "read", tv |-> tv, val |-> val[tv]])
           /\ reads' = [reads EXCEPT ![th] = Append(@, [tv |-> tv, version |-> version[tv]])]
  <2>1. val[tv] \in Values /\ [tv |-> tv, version |-> version[tv]] \in [tv : TVars, version : Nat]
    OBVIOUS
  <2>2. run' \in [Txs -> Seq(Ops)]
    BY <1>2, <2>1, OpTypes, RecordType
  <2>3. Append(reads[th], [tv |-> tv, version |-> version[tv]]) \in LogReads
    BY <2>1, AppendProperties DEF LogReads
  <2> QED
    BY <1>2, <2>2, <2>3 DEF THxSTM_read
<1> QED
  BY <1>1, <1>2 DEF THxSTM_read, Written

LEMMA WriteTypes ==
  ASSUME Types, NEW th \in Threads, NEW tx \in Txs, NEW tv \in TVars, THxSTM_write(th, tx, tv)
  PROVE  Types'
<1> USE DEF Types
<1> DEFINE v == <<tx, Len(run[tx])>>
<1>1. v \in Values
  BY LenProperties DEF Values
<1> HIDE DEF v
<1>2. [tv |-> tv, val |-> v] \in [tv : TVars, val : Values]
  BY <1>1
<1>3. Append(writes[th], [tv |-> tv, val |-> v]) \in LogWrites
  BY <1>2, AppendProperties DEF LogWrites
<1>4. /\ writes' = [writes EXCEPT ![th] = Append(@, [tv |-> tv, val |-> v])]
      /\ Record(tx, [op |-> "write", tv |-> tv, val |-> v])
      /\ UNCHANGED <<val, version, reads, stack, pc, marks, watch>>
  BY DEF THxSTM_write, v
<1>5. run' \in [Txs -> Seq(Ops)]
  BY <1>1, <1>4, OpTypes, RecordType
<1> QED
  BY <1>3, <1>4, <1>5

LEMMA MarkTypes ==
  ASSUME Types, NEW th \in Threads, NEW tx \in Txs,
         THxSTM_save(th, tx) \/ FirstReturns(th, tx) \/ THxSTM_rollback(th, tx)
  PROVE  Types'
<1> USE DEF Types
<1>1. CASE THxSTM_save(th, tx)
  <2>1. Len(writes[th]) \in Nat
    BY LenProperties DEF LogWrites
  <2>2. Append(marks[tx], Len(writes[th])) \in Seq(Nat)
    BY <2>1, AppendProperties
  <2>3. run' \in [Txs -> Seq(Ops)]
    BY <1>1, RecordType DEF THxSTM_save, Ops
  <2> QED
    BY <1>1, <2>2, <2>3 DEF THxSTM_save, log
<1>2. CASE FirstReturns(th, tx)
  <2>1. Front(marks[tx]) \in Seq(Nat)
    BY <1>2, FrontLast DEF FirstReturns
  <2>2. run' \in [Txs -> Seq(Ops)]
    BY <1>2, RecordType DEF FirstReturns, Ops
  <2> QED
    BY <1>2, <2>1, <2>2 DEF FirstReturns, log
<1>3. CASE THxSTM_rollback(th, tx)
  <2> DEFINE mark == Last(marks[tx])
  <2>1. Front(marks[tx]) \in Seq(Nat) /\ mark \in Nat
    BY <1>3, FrontLast DEF THxSTM_rollback
  <2> HIDE DEF mark
  <2>2. /\ marks' = [marks EXCEPT ![tx] = Front(@)]
        /\ UNCHANGED <<val, version, reads, stack, watch>>
    BY <1>3 DEF THxSTM_rollback
  <2>3. CASE Goto(tx, "fault") /\ UNCHANGED <<writes, run>>
    BY <2>1, <2>2, <2>3 DEF Goto, Labels
  <2>4. CASE /\ mark <= Len(writes[th])
             /\ writes' = [writes EXCEPT ![th] = SubSeq(@, 1, mark)]
             /\ Record(tx, [op |-> "undo"])
             /\ UNCHANGED pc
    <3>1. writes[th] \in Seq([tv : TVars, val : Values]) /\ Len(writes[th]) \in Nat
      BY LenProperties DEF LogWrites
    <3>2. SubSeq(writes[th], 1, mark) \in LogWrites
      <4>1. mark \in 0 .. Len(writes[th])
        BY <2>1, <2>4, <3>1
      <4> QED
        BY <3>1, <4>1, PrefixFacts DEF LogWrites
    <3>3. run' \in [Txs -> Seq(Ops)]
      BY <2>4, RecordType DEF Ops
    <3> QED
      BY <2>1, <2>2, <2>4, <3>2, <3>3
  <2>5. Len(writes[th]) \in Nat
    BY LenProperties DEF LogWrites
  <2>6. IF mark > Len(writes[th])
          THEN Goto(tx, "fault") /\ UNCHANGED <<writes, run>>
          ELSE /\ writes' = [writes EXCEPT ![th] = SubSeq(@, 1, mark)]
               /\ Record(tx, [op |-> "undo"])
               /\ UNCHANGED pc
    BY <1>3 DEF THxSTM_rollback, mark
  <2>7. mark > Len(writes[th]) \/ mark <= Len(writes[th])
    BY <2>1, <2>5
  <2> QED
    BY <2>3, <2>4, <2>6, <2>7
<1> QED
  BY <1>1, <1>2, <1>3

\* A commit raises the version of what it writes, and changes nothing else.
LEMMA CommitStore ==
  ASSUME Types, NEW th \in Threads, NEW tx \in Txs, THxSTM_commit(th, tx),
         stm_reads_unchanged(reads[th])
  PROVE  /\ val' = Overlay(val, writes[th])
         /\ val' \in [TVars -> Values]
         /\ version' \in [TVars -> Nat]
         /\ \A tv \in TVars : /\ version[tv] <= version'[tv]
                              /\ version[tv] = version'[tv] => val[tv] = val'[tv]
<1> DEFINE ws == writes[th]
<1>1. ws \in LogWrites
  BY DEF Types
<1>2. /\ val' = [tv \in TVars |-> IF WritesTo(ws, tv) > 0 THEN LastWrite(ws, tv) ELSE val[tv]]
      /\ version' = [tv \in TVars |-> version[tv] + WritesTo(ws, tv)]
  BY DEF THxSTM_commit
<1> HIDE DEF ws
<1>3. \A tv \in TVars : /\ WritesTo(ws, tv) \in Nat
                        /\ WritesTo(ws, tv) > 0 <=> Written(ws, tv)
  BY <1>1, WritesToType
<1>4. val' = Overlay(val, ws)
  BY <1>2, <1>3 DEF Overlay
<1>5. \A tv \in TVars : Written(ws, tv) => LastWrite(ws, tv) \in Values
  BY <1>1, LastWriteType
<1>6. val' \in [TVars -> Values]
  BY <1>4, <1>5 DEF Overlay, Types
<1>7. version' \in [TVars -> Nat]
  BY <1>2, <1>3 DEF Types
<1>8. ASSUME NEW tv \in TVars
      PROVE  /\ version[tv] <= version'[tv]
             /\ version[tv] = version'[tv] => val[tv] = val'[tv]
  <2>1. version[tv] \in Nat /\ version'[tv] = version[tv] + WritesTo(ws, tv)
    BY <1>2 DEF Types
  <2>2. WritesTo(ws, tv) = 0 => val'[tv] = val[tv]
    BY <1>2, <1>3
  <2> QED
    BY <1>3, <2>1, <2>2
<1> QED
  BY <1>4, <1>6, <1>7, <1>8 DEF ws

LEMMA CommitTypes ==
  ASSUME Types, NEW th \in Threads, NEW tx \in Txs, THxSTM_commit(th, tx)
  PROVE  Types'
<1> USE DEF Types
<1>1. /\ reads' = [reads EXCEPT ![th] = <<>>]
      /\ writes' = [writes EXCEPT ![th] = <<>>]
      /\ run' = [run EXCEPT ![tx] = <<>>]
      /\ UNCHANGED <<marks, watch>>
  BY DEF THxSTM_commit
<1>2. reads' \in [Threads -> LogReads] /\ writes' \in [Threads -> LogWrites] /\ run' \in [Txs -> Seq(Ops)]
  BY <1>1, EmptyLogs
<1>3. CASE stm_reads_unchanged(reads[th])
  <2>1. val' \in [TVars -> Values] /\ version' \in [TVars -> Nat]
    BY <1>3, CommitStore
  <2>2. pc' = [pc EXCEPT ![tx] = "done"] /\ stack' = [stack EXCEPT ![th] = Front(@)]
    BY <1>3 DEF THxSTM_commit, Goto
  <2>3. Front(stack[th]) \in Seq(Txs)
    BY FrontLast DEF THxSTM_commit, Runs
  <2> QED
    BY <1>1, <1>2, <2>1, <2>2, <2>3 DEF Labels
<1>4. CASE ~stm_reads_unchanged(reads[th])
  <2>1. pc' = [pc EXCEPT ![tx] = "begin"] /\ UNCHANGED <<val, version, stack>>
    BY <1>4 DEF THxSTM_commit, Goto
  <2> QED
    BY <1>1, <1>2, <2>1 DEF Labels
<1> QED
  BY <1>3, <1>4

LEMMA TypesStep == Types /\ [Next]_vars => Types'
<1> SUFFICES ASSUME Types, [Next]_vars
             PROVE  Types'
  OBVIOUS
<1>1. CASE UNCHANGED vars
  BY <1>1 DEF Types, vars
<1>2. ASSUME NEW th \in Threads, NEW tx \in Txs, TxStep(th, tx)
      PROVE  Types'
  <2>1. CASE StartTask(th, tx)
    <3>1. Append(stack[th], tx) \in Seq(Txs)
      BY AppendProperties DEF Types
    <3> QED
      BY <2>1, <3>1 DEF StartTask, Types, Goto, Labels, log
  <2>2. CASE THxSTM_begin(th, tx)
    BY <2>2, EmptyLogs DEF THxSTM_begin, Types, Goto, Labels
  <2>3. CASE Retry(th, tx)
    BY <2>3, EmptyLogs DEF Retry, Types, Goto, Labels
  <2>4. CASE WaitOver(th, tx)
    BY <2>4, EmptyLogs DEF WaitOver, Types, Goto, Labels, log
  <2> QED
    BY <1>2, <2>1, <2>2, <2>3, <2>4, ReadTypes, WriteTypes, MarkTypes, CommitTypes DEF TxStep
<1> QED
  BY <1>1, <1>2 DEF Next

LEMMA TypesHold == Spec => []Types
BY TypesInit, TypesStep, PTL DEF Spec

\* The types of the logs, of the stacks and of the marks.
THEOREM StmTypeCorrect == Spec => []TypeOK
<1>1. Types => TypeOK
  BY DEF Types, TypeOK, Labels
<1> QED
  BY <1>1, TypesHold, PTL

-----------------------------------------------------------------------------
(***************************************************************************)
(* Transactions that do not await.  A transaction is in one place, all but *)
(* the last of a thread wait, so that the thread's log is the log of the   *)
(* transaction that runs, and that log tells its run.                      *)
(***************************************************************************)
Waiting ==
  \A th \in Threads : \A i \in 1 .. Len(stack[th]) :
    /\ pc[stack[th][i]] \in {"begin", "body", "wait"}
    /\ i < Len(stack[th]) => pc[stack[th][i]] = "wait"

Once ==
  \A th1, th2 \in Threads :
    \A i1 \in 1 .. Len(stack[th1]), i2 \in 1 .. Len(stack[th2]) :
      stack[th1][i1] = stack[th2][i2] => th1 = th2 /\ i1 = i2

Quiet == \A tx \in Txs : pc[tx] # "body" => run[tx] = <<>> /\ marks[tx] = <<>>

Logs ==
  \A th \in Threads, tx \in Txs : Runs(th, tx, "body") =>
    LogOK(val, version, reads[th], writes[th], marks[tx], run[tx])

AInv == Types /\ Waiting /\ Once /\ Quiet /\ Logs /\ NoMarkFault

LEMMA TopFacts ==
  ASSUME Types, NEW th \in Threads, stack[th] # <<>>
  PROVE  /\ Len(stack[th]) \in 1 .. Len(stack[th])
         /\ Len(stack[th]) \in Nat
         /\ Top(th) = stack[th][Len(stack[th])]
         /\ Top(th) \in Txs
<1>1. stack[th] \in Seq(Txs)
  BY DEF Types
<1>2. /\ Len(stack[th]) \in Nat /\ Len(stack[th]) > 0
      /\ Last(stack[th]) = stack[th][Len(stack[th])] /\ Last(stack[th]) \in Txs
  BY <1>1, FrontLast
<1>3. Len(stack[th]) \in 1 .. Len(stack[th])
  BY <1>2
<1> QED
  BY <1>2, <1>3 DEF Top

\* A running transaction runs on one thread.
LEMMA RunsOnce ==
  ASSUME Types, Once, NEW th1 \in Threads, NEW th2 \in Threads,
         stack[th1] # <<>>, stack[th2] # <<>>, Top(th1) = Top(th2)
  PROVE  th1 = th2
BY TopFacts DEF Once

\* A step of the body changes one thread's log and one transaction's run.
LEMMA BodyKeeps ==
  ASSUME AInv, Types', NEW th \in Threads, NEW tx \in Txs, Runs(th, tx, "body"),
         UNCHANGED <<val, version, stack, pc>>,
         \A o \in Threads \ {th} : reads'[o] = reads[o] /\ writes'[o] = writes[o],
         \A o \in Txs \ {tx} : marks'[o] = marks[o] /\ run'[o] = run[o],
         LogOK(val, version, reads'[th], writes'[th], marks'[tx], run'[tx])
  PROVE  AInv'
<1>1. Waiting' /\ Once' /\ NoMarkFault'
  BY DEF AInv, Waiting, Once, NoMarkFault
<1>2. Quiet'
  <2>1. pc[tx] = "body"
    BY DEF Runs
  <2> QED
    BY <2>1 DEF AInv, Quiet
<1>3. ASSUME NEW o \in Threads, NEW ox \in Txs, Runs(o, ox, "body")'
      PROVE  LogOK(val', version', reads'[o], writes'[o], marks'[ox], run'[ox])
  <2>1. Runs(o, ox, "body")
    BY <1>3 DEF Runs, Top
  <2>2. CASE o = th
    <3>1. ox = tx
      BY <2>1, <2>2 DEF Runs
    <3> QED
      BY <2>2, <3>1
  <2>3. CASE o # th
    <3>1. ox # tx
      BY <2>1, <2>3, RunsOnce DEF Runs, AInv
    <3>2. LogOK(val, version, reads[o], writes[o], marks[ox], run[ox])
      BY <2>1 DEF AInv, Logs
    <3>3. reads'[o] = reads[o] /\ writes'[o] = writes[o] /\ marks'[ox] = marks[ox] /\ run'[ox] = run[ox]
      BY <2>3, <3>1
    <3> QED
      BY <3>2, <3>3
  <2> QED
    BY <2>2, <2>3
<1>4. Logs'
  BY <1>3 DEF Logs
<1> QED
  BY <1>1, <1>2, <1>4 DEF AInv

LEMMA BodySteps ==
  ASSUME AInv, Types', NEW th \in Threads, NEW tx \in Txs,
         \/ \E tv \in TVars : THxSTM_read(th, tx, tv)
         \/ \E tv \in TVars : THxSTM_write(th, tx, tv)
         \/ THxSTM_save(th, tx)
         \/ FirstReturns(th, tx)
         \/ THxSTM_rollback(th, tx)
  PROVE  AInv' /\ UNCHANGED <<val, pc>> /\ \A o \in Txs \ {tx} : run'[o] = run[o]
<1> DEFINE rs == reads[th]
           ws == writes[th]
           ms == marks[tx]
           ops == run[tx]
<1>1. /\ rs \in LogReads /\ ws \in LogWrites /\ ms \in Seq(Nat) /\ ops \in Seq(Ops)
      /\ val \in [TVars -> Values] /\ version \in [TVars -> Nat]
      /\ reads \in [Threads -> LogReads] /\ writes \in [Threads -> LogWrites]
      /\ marks \in [Txs -> Seq(Nat)] /\ run \in [Txs -> Seq(Ops)]
  BY DEF AInv, Types
<1>2. Runs(th, tx, "body")
  BY DEF THxSTM_read, THxSTM_write, THxSTM_save, FirstReturns, THxSTM_rollback, Body
<1>3. LogOK(val, version, rs, ws, ms, ops)
  BY <1>2 DEF AInv, Logs
<1>4. ASSUME NEW tv \in TVars, THxSTM_read(th, tx, tv)
      PROVE  AInv' /\ UNCHANGED <<val, pc>> /\ \A o \in Txs \ {tx} : run'[o] = run[o]
  <2>1. UNCHANGED <<val, version, writes, stack, pc, marks, watch>>
    BY <1>4 DEF THxSTM_read
  <2>2. CASE /\ Written(ws, tv)
             /\ Record(tx, [op |-> "read", tv |-> tv, val |-> LastWrite(ws, tv)])
             /\ UNCHANGED reads
    <3>1. run' = [run EXCEPT ![tx] = Append(@, [op |-> "read", tv |-> tv, val |-> LastWrite(ws, tv)])]
      BY <2>2 DEF Record
    <3>2. LogOK(val, version, rs, ws, ms,
                Append(ops, [op |-> "read", tv |-> tv, val |-> LastWrite(ws, tv)]))
      BY <1>1, <1>3, <2>2, LogReadOwn
    <3>3. run'[tx] = Append(ops, [op |-> "read", tv |-> tv, val |-> LastWrite(ws, tv)])
      BY <1>1, <3>1
    <3>4. \A o \in Txs \ {tx} : marks'[o] = marks[o] /\ run'[o] = run[o]
      BY <1>1, <2>1, <3>1
    <3>5. LogOK(val, version, reads'[th], writes'[th], marks'[tx], run'[tx])
      BY <2>1, <2>2, <3>2, <3>3
    <3> QED
      BY <1>2, <2>1, <2>2, <3>4, <3>5, BodyKeeps
  <2>3. CASE /\ ~Written(ws, tv)
             /\ Record(tx, [op |-> "read", tv |-> tv, val |-> val[tv]])
             /\ reads' = [reads EXCEPT ![th] = Append(@, [tv |-> tv, version |-> version[tv]])]
    <3>1. run' = [run EXCEPT ![tx] = Append(@, [op |-> "read", tv |-> tv, val |-> val[tv]])]
      BY <2>3 DEF Record
    <3>2. LogOK(val, version, Append(rs, [tv |-> tv, version |-> version[tv]]), ws, ms,
                Append(ops, [op |-> "read", tv |-> tv, val |-> val[tv]]))
      BY <1>1, <1>3, <2>3, LogReadStore
    <3>3. /\ run'[tx] = Append(ops, [op |-> "read", tv |-> tv, val |-> val[tv]])
          /\ reads'[th] = Append(rs, [tv |-> tv, version |-> version[tv]])
      BY <1>1, <2>3, <3>1
    <3>4. /\ \A o \in Txs \ {tx} : marks'[o] = marks[o] /\ run'[o] = run[o]
          /\ \A o \in Threads \ {th} : reads'[o] = reads[o] /\ writes'[o] = writes[o]
      BY <1>1, <2>1, <2>3, <3>1
    <3>5. LogOK(val, version, reads'[th], writes'[th], marks'[tx], run'[tx])
      BY <2>1, <3>2, <3>3
    <3> QED
      BY <1>2, <2>1, <3>4, <3>5, BodyKeeps
  <2> QED
    BY <1>4, <2>2, <2>3 DEF THxSTM_read, Written
<1>5. ASSUME NEW tv \in TVars, THxSTM_write(th, tx, tv)
      PROVE  AInv' /\ UNCHANGED <<val, pc>> /\ \A o \in Txs \ {tx} : run'[o] = run[o]
  <2> DEFINE v == <<tx, Len(run[tx])>>
             w == [tv |-> tv, val |-> v]
             op == [op |-> "write", tv |-> tv, val |-> v]
  <2>1. v \in Values
    BY <1>1, LenProperties DEF Values
  <2>2. /\ writes' = [writes EXCEPT ![th] = Append(@, w)]
        /\ run' = [run EXCEPT ![tx] = Append(@, op)]
        /\ UNCHANGED <<val, version, reads, stack, pc, marks, watch>>
    BY <1>5 DEF THxSTM_write, Record
  <2> HIDE DEF v
  <2>3. LogOK(val, version, rs, Append(ws, w), ms, Append(ops, op))
    BY <1>1, <1>3, <2>1, LogWrite
  <2> HIDE DEF w, op
  <2>4. /\ run'[tx] = Append(ops, op) /\ writes'[th] = Append(ws, w)
        /\ \A o \in Txs \ {tx} : marks'[o] = marks[o] /\ run'[o] = run[o]
        /\ \A o \in Threads \ {th} : reads'[o] = reads[o] /\ writes'[o] = writes[o]
    BY <1>1, <2>2
  <2>5. LogOK(val, version, reads'[th], writes'[th], marks'[tx], run'[tx])
    BY <2>2, <2>3, <2>4
  <2> QED
    BY <1>2, <2>2, <2>4, <2>5, BodyKeeps
<1>6. CASE THxSTM_save(th, tx)
  <2>1. /\ marks' = [marks EXCEPT ![tx] = Append(@, Len(ws))]
        /\ run' = [run EXCEPT ![tx] = Append(@, [op |-> "save"])]
        /\ UNCHANGED <<val, version, reads, writes, stack, pc, watch>>
    BY <1>6 DEF THxSTM_save, Record, log
  <2>2. LogOK(val, version, rs, ws, Append(ms, Len(ws)), Append(ops, [op |-> "save"]))
    BY <1>1, <1>3, LogSave
  <2>3. /\ run'[tx] = Append(ops, [op |-> "save"]) /\ marks'[tx] = Append(ms, Len(ws))
        /\ \A o \in Txs \ {tx} : marks'[o] = marks[o] /\ run'[o] = run[o]
    BY <1>1, <2>1
  <2>4. LogOK(val, version, reads'[th], writes'[th], marks'[tx], run'[tx])
    BY <2>1, <2>2, <2>3
  <2> QED
    BY <1>2, <2>1, <2>3, <2>4, BodyKeeps
<1>7. CASE FirstReturns(th, tx)
  <2>1. /\ marks' = [marks EXCEPT ![tx] = Front(@)]
        /\ run' = [run EXCEPT ![tx] = Append(@, [op |-> "keep"])]
        /\ UNCHANGED <<val, version, reads, writes, stack, pc, watch>>
        /\ ms # <<>>
    BY <1>7 DEF FirstReturns, Record, log
  <2>2. LogOK(val, version, rs, ws, Front(ms), Append(ops, [op |-> "keep"]))
    BY <1>1, <1>3, <2>1, LogKeep
  <2>3. /\ run'[tx] = Append(ops, [op |-> "keep"]) /\ marks'[tx] = Front(ms)
        /\ \A o \in Txs \ {tx} : marks'[o] = marks[o] /\ run'[o] = run[o]
    BY <1>1, <2>1
  <2>4. LogOK(val, version, reads'[th], writes'[th], marks'[tx], run'[tx])
    BY <2>1, <2>2, <2>3
  <2> QED
    BY <1>2, <2>1, <2>3, <2>4, BodyKeeps
<1>8. CASE THxSTM_rollback(th, tx)
  <2>1. ms # <<>>
    BY <1>8 DEF THxSTM_rollback
  <2>2. Last(ms) <= Len(ws) /\ Last(ms) \in Nat /\ Len(ws) \in Nat
    <3>1. Len(ms) \in Nat /\ Len(ms) > 0 /\ Last(ms) = ms[Len(ms)] /\ Last(ms) \in Nat
      BY <1>1, <2>1, FrontLast
    <3>2. Len(ms) \in 1 .. Len(ms)
      BY <3>1
    <3> QED
      BY <1>1, <1>3, <3>1, <3>2, LenProperties DEF LogOK, MarksInLog, LogWrites
  <2>3. ~(Last(ms) > Len(ws))
    BY <2>2
  <2>4. /\ writes' = [writes EXCEPT ![th] = SubSeq(@, 1, Last(ms))]
        /\ run' = [run EXCEPT ![tx] = Append(@, [op |-> "undo"])]
        /\ marks' = [marks EXCEPT ![tx] = Front(@)]
        /\ UNCHANGED <<val, version, reads, stack, watch, pc>>
    BY <1>8, <2>3 DEF THxSTM_rollback, Record
  <2>5. LogOK(val, version, rs, SubSeq(ws, 1, Last(ms)), Front(ms), Append(ops, [op |-> "undo"]))
    BY <1>1, <1>3, <2>1, LogUndo
  <2>6. /\ run'[tx] = Append(ops, [op |-> "undo"]) /\ marks'[tx] = Front(ms)
        /\ writes'[th] = SubSeq(ws, 1, Last(ms))
        /\ \A o \in Txs \ {tx} : marks'[o] = marks[o] /\ run'[o] = run[o]
        /\ \A o \in Threads \ {th} : reads'[o] = reads[o] /\ writes'[o] = writes[o]
    BY <1>1, <2>4
  <2>7. LogOK(val, version, reads'[th], writes'[th], marks'[tx], run'[tx])
    BY <2>4, <2>5, <2>6
  <2> QED
    BY <1>2, <2>4, <2>6, <2>7, BodyKeeps
<1> QED
  BY <1>4, <1>5, <1>6, <1>7, <1>8

\* Nothing but the places and labels of one transaction changes.
LEMMA LogsKept ==
  ASSUME AInv, NEW th \in Threads, NEW tx \in Txs,
         UNCHANGED <<val, version>>,
         \A o \in Threads \ {th} : /\ reads'[o] = reads[o] /\ writes'[o] = writes[o]
                                   /\ stack'[o] = stack[o],
         \A o \in Txs \ {tx} : marks'[o] = marks[o] /\ run'[o] = run[o] /\ pc'[o] = pc[o],
         stack'[th] # <<>> => Last(stack'[th]) = tx,
         \/ stack[th] # <<>> /\ Top(th) = tx
         \/ pc[tx] = "queued",
         pc'[tx] = "body" =>
           LogOK(val, version, reads'[th], writes'[th], marks'[tx], run'[tx])
  PROVE  Logs'
<1> SUFFICES ASSUME NEW o \in Threads, NEW ox \in Txs, Runs(o, ox, "body")'
             PROVE  LogOK(val', version', reads'[o], writes'[o], marks'[ox], run'[ox])
  BY DEF Logs
<1>1. stack'[o] # <<>> /\ Last(stack'[o]) = ox /\ pc'[ox] = "body"
  BY DEF Runs, Top
<1>2. CASE o = th
  BY <1>1, <1>2
<1>3. CASE o # th
  <2>1. stack'[o] = stack[o]
    BY <1>3
  <2>2. ox # tx
    <3>1. stack[o] # <<>> /\ Top(o) = ox
      BY <1>1, <2>1 DEF Top
    <3>2. CASE stack[th] # <<>> /\ Top(th) = tx
      BY <1>3, <3>1, <3>2, RunsOnce DEF AInv
    <3>3. CASE pc[tx] = "queued"
      <4>1. pc[ox] # "queued"
        BY <3>1, TopFacts DEF AInv, Waiting
      <4> QED
        BY <3>3, <4>1
    <3> QED
      BY <3>2, <3>3
  <2>3. Runs(o, ox, "body")
    BY <1>1, <2>1, <2>2 DEF Runs, Top
  <2>4. LogOK(val, version, reads[o], writes[o], marks[ox], run[ox])
    BY <2>3 DEF AInv, Logs
  <2> QED
    BY <1>3, <2>2, <2>4
<1> QED
  BY <1>2, <1>3

LEMMA StartKeeps ==
  ASSUME AInv, Types', AwaitInTx = FALSE, NEW th \in Threads, NEW tx \in Txs, StartTask(th, tx)
  PROVE  AInv'
<1> DEFINE n == Len(stack[th])
<1>1. /\ pc[tx] = "queued" /\ pc' = [pc EXCEPT ![tx] = "begin"]
      /\ stack' = [stack EXCEPT ![th] = Append(@, tx)]
      /\ UNCHANGED <<val, version, reads, writes, marks, watch, run>>
      /\ stack[th] # <<>> => pc[Top(th)] = "wait"
  BY DEF StartTask, Goto, log, Helping
<1>2. /\ stack \in [Threads -> Seq(Txs)] /\ pc \in [Txs -> Labels]
      /\ n \in Nat
  BY LenProperties DEF AInv, Types
<1>3. /\ stack'[th] = Append(stack[th], tx)
      /\ Len(stack'[th]) = n + 1
      /\ \A i \in 1 .. n : stack'[th][i] = stack[th][i]
      /\ stack'[th][n + 1] = tx
      /\ stack'[th] # <<>>
      /\ \A o \in Threads \ {th} : stack'[o] = stack[o]
  <2>1. stack'[th] = Append(stack[th], tx) /\ \A o \in Threads \ {th} : stack'[o] = stack[o]
    BY <1>1, <1>2
  <2>2. stack[th] \in Seq(Txs)
    BY <1>2
  <2> QED
    BY <2>1, <2>2, AppendProperties
<1>4. pc'[tx] = "begin" /\ \A o \in Txs \ {tx} : pc'[o] = pc[o]
  BY <1>1, <1>2
<1> HIDE DEF n
<1>5. \A i \in 1 .. n + 1 : i \in 1 .. n \/ i = n + 1
  BY <1>2
<1>6. ASSUME NEW o \in Threads, NEW i \in 1 .. Len(stack[o])
      PROVE  stack[o][i] # tx /\ stack[o][i] \in Txs
  <2>1. pc[stack[o][i]] # "queued"
    BY DEF AInv, Waiting
  <2>2. stack[o] \in Seq(Txs)
    BY <1>2
  <2> QED
    BY <1>1, <2>1, <2>2, ElementOfSeq
<1>7. Waiting'
  <2> SUFFICES ASSUME NEW o \in Threads, NEW i \in 1 .. Len(stack'[o])
               PROVE  /\ pc'[stack'[o][i]] \in {"begin", "body", "wait"}
                      /\ i < Len(stack'[o]) => pc'[stack'[o][i]] = "wait"
    BY DEF Waiting
  <2>1. CASE o # th
    BY <1>3, <1>4, <1>6, <2>1 DEF AInv, Waiting
  <2>2. CASE o = th /\ i = n + 1
    BY <1>2, <1>3, <1>4, <2>2
  <2>3. CASE o = th /\ i \in 1 .. n
    <3>1. stack'[o][i] = stack[th][i] /\ pc'[stack[th][i]] = pc[stack[th][i]]
      BY <1>3, <1>4, <1>6, <2>3 DEF n
    <3>2. pc[stack[th][i]] = "wait"
      <4>1. stack[th] # <<>> /\ stack[th][n] = Top(th)
        BY <1>2, <2>3 DEF n, Top, Last
      <4>2. CASE i = n
        BY <1>1, <4>1, <4>2
      <4>3. CASE i < n
        BY <2>3, <4>3 DEF AInv, Waiting, n
      <4> QED
        BY <1>2, <2>3, <4>2, <4>3
    <3> QED
      BY <3>1, <3>2
  <2> QED
    BY <1>3, <1>5, <2>1, <2>2, <2>3
<1>8. Once'
  <2> SUFFICES ASSUME NEW o \in Threads, NEW p \in Threads,
                      NEW i \in 1 .. Len(stack'[o]), NEW j \in 1 .. Len(stack'[p]),
                      stack'[o][i] = stack'[p][j]
               PROVE  o = p /\ i = j
    BY DEF Once
  <2>1. ASSUME NEW q \in Threads, NEW k \in 1 .. Len(stack'[q])
        PROVE  \/ k \in 1 .. Len(stack[q]) /\ stack'[q][k] = stack[q][k] /\ stack'[q][k] # tx
               \/ q = th /\ k = n + 1 /\ stack'[q][k] = tx
    <3>1. CASE q = th
      BY <1>3, <1>5, <1>6, <3>1 DEF n
    <3>2. CASE q # th
      BY <1>3, <1>6, <3>2
    <3> QED
      BY <3>1, <3>2
  <2>2. CASE stack'[o][i] = tx
    BY <2>1, <2>2
  <2>3. CASE stack'[o][i] # tx
    <3>1. i \in 1 .. Len(stack[o]) /\ j \in 1 .. Len(stack[p]) /\ stack[o][i] = stack[p][j]
      BY <2>1, <2>3
    <3> QED
      BY <3>1 DEF AInv, Once
  <2> QED
    BY <2>2, <2>3
<1>9. Quiet'
  BY <1>1, <1>4 DEF AInv, Quiet
<1>10. NoMarkFault'
  BY <1>4 DEF AInv, NoMarkFault
<1>11. Logs'
  <2>1. Last(stack'[th]) = tx
    BY <1>3 DEF Last
  <2> QED
    BY <1>1, <1>3, <1>4, <2>1, LogsKept
<1> QED
  BY <1>7, <1>8, <1>9, <1>10, <1>11 DEF AInv

\* The transaction a thread runs moves on to another label.
LEMMA MoveKeeps ==
  ASSUME AInv, Types', NEW th \in Threads, NEW tx \in Txs, stack[th] # <<>>, Top(th) = tx,
         UNCHANGED <<val, version, stack, marks>>,
         NEW label \in {"begin", "body", "wait"}, pc' = [pc EXCEPT ![tx] = label],
         \A o \in Threads \ {th} : reads'[o] = reads[o] /\ writes'[o] = writes[o],
         run' = [run EXCEPT ![tx] = <<>>], marks[tx] = <<>>,
         label = "body" => reads'[th] = <<>> /\ writes'[th] = <<>>
  PROVE  AInv'
<1>1. stack \in [Threads -> Seq(Txs)] /\ pc \in [Txs -> Labels] /\ run \in [Txs -> Seq(Ops)]
  BY DEF AInv, Types
<1>2. /\ pc'[tx] = label /\ run'[tx] = <<>>
      /\ \A o \in Txs \ {tx} : pc'[o] = pc[o] /\ run'[o] = run[o]
  BY <1>1
<1>3. Waiting'
  <2> SUFFICES ASSUME NEW o \in Threads, NEW i \in 1 .. Len(stack[o])
               PROVE  /\ pc'[stack[o][i]] \in {"begin", "body", "wait"}
                      /\ i < Len(stack[o]) => pc'[stack[o][i]] = "wait"
    BY DEF Waiting
  <2>1. stack[o][i] \in Txs /\ Len(stack[o]) \in Nat
    BY <1>1, ElementOfSeq, LenProperties
  <2>2. CASE stack[o][i] = tx
    <3>1. o = th /\ i = Len(stack[th])
      BY <2>2, TopFacts DEF AInv, Once
    <3> QED
      BY <1>2, <2>1, <2>2, <3>1
  <2>3. CASE stack[o][i] # tx
    BY <1>2, <2>1, <2>3 DEF AInv, Waiting
  <2> QED
    BY <2>2, <2>3
<1>4. Once'
  BY DEF AInv, Once
<1>5. Quiet'
  BY <1>2 DEF AInv, Quiet
<1>6. NoMarkFault'
  BY <1>2 DEF AInv, NoMarkFault
<1>7. Logs'
  <2>1. ASSUME label = "body"
        PROVE  LogOK(val, version, reads'[th], writes'[th], marks'[tx], run'[tx])
    BY <1>2, <2>1, LogStart
  <2> QED
    BY <1>2, <2>1, LogsKept DEF Top
<1> QED
  BY <1>3, <1>4, <1>5, <1>6, <1>7 DEF AInv

LEMMA CommitKeeps ==
  ASSUME AInv, Types', NEW th \in Threads, NEW tx \in Txs, THxSTM_commit(th, tx),
         stm_reads_unchanged(reads[th])
  PROVE  AInv'
<1> DEFINE n == Len(stack[th])
<1>1. /\ stack[th] # <<>> /\ Top(th) = tx /\ marks[tx] = <<>>
      /\ pc' = [pc EXCEPT ![tx] = "done"]
      /\ stack' = [stack EXCEPT ![th] = Front(@)]
      /\ reads' = [reads EXCEPT ![th] = <<>>]
      /\ writes' = [writes EXCEPT ![th] = <<>>]
      /\ run' = [run EXCEPT ![tx] = <<>>]
      /\ UNCHANGED <<marks, watch>>
  BY DEF THxSTM_commit, Runs, Goto
<1>2. /\ stack \in [Threads -> Seq(Txs)] /\ pc \in [Txs -> Labels] /\ run \in [Txs -> Seq(Ops)]
      /\ reads \in [Threads -> LogReads] /\ writes \in [Threads -> LogWrites]
      /\ version \in [TVars -> Nat] /\ version' \in [TVars -> Nat] /\ Types
  BY DEF AInv, Types
<1>3. /\ pc'[tx] = "done" /\ run'[tx] = <<>>
      /\ \A o \in Txs \ {tx} : pc'[o] = pc[o] /\ run'[o] = run[o]
      /\ \A o \in Threads \ {th} : /\ reads'[o] = reads[o] /\ writes'[o] = writes[o]
                                   /\ stack'[o] = stack[o]
      /\ stack'[th] = Front(stack[th])
  BY <1>1, <1>2
<1>4. /\ n \in Nat /\ n > 0 /\ Top(th) = stack[th][n]
      /\ Len(stack'[th]) = n - 1
      /\ \A i \in 1 .. n - 1 : stack'[th][i] = stack[th][i]
  BY <1>1, <1>2, <1>3, FrontLast DEF Top
<1> HIDE DEF n
<1>5. ASSUME NEW o \in Threads, NEW i \in 1 .. Len(stack'[o])
      PROVE  /\ i \in 1 .. Len(stack[o]) /\ stack'[o][i] = stack[o][i]
             /\ stack[o][i] \in Txs \ {tx}
             /\ o = th => i < n
  <2>1. i \in 1 .. Len(stack[o]) /\ stack'[o][i] = stack[o][i] /\ (o = th => i < n)
    <3>1. CASE o = th
      BY <1>4, <3>1 DEF n
    <3>2. CASE o # th
      BY <1>3, <3>2
    <3> QED
      BY <3>1, <3>2
  <2>2. stack[o][i] \in Txs
    BY <1>2, <2>1, ElementOfSeq
  <2>3. stack[o][i] # tx
    <3>1. n \in 1 .. Len(stack[th]) /\ stack[th][n] = tx
      BY <1>1, <1>4 DEF n
    <3>2. ~(o = th /\ i = n)
      BY <1>4, <2>1
    <3> QED
      BY <2>1, <3>1, <3>2 DEF AInv, Once
  <2> QED
    BY <2>1, <2>2, <2>3
<1>6. Waiting'
  <2> SUFFICES ASSUME NEW o \in Threads, NEW i \in 1 .. Len(stack'[o])
               PROVE  /\ pc'[stack'[o][i]] \in {"begin", "body", "wait"}
                      /\ i < Len(stack'[o]) => pc'[stack'[o][i]] = "wait"
    BY DEF Waiting
  <2>1. i \in 1 .. Len(stack[o]) /\ stack'[o][i] = stack[o][i] /\ pc'[stack[o][i]] = pc[stack[o][i]]
    BY <1>3, <1>5
  <2>2. i < Len(stack'[o]) => i < Len(stack[o])
    <3>1. CASE o = th
      BY <1>5, <3>1 DEF n
    <3>2. CASE o # th
      BY <1>3, <3>2
    <3> QED
      BY <3>1, <3>2
  <2> QED
    BY <2>1, <2>2 DEF AInv, Waiting
<1>7. Once'
  BY <1>5 DEF AInv, Once
<1>8. Quiet'
  BY <1>1, <1>3 DEF AInv, Quiet
<1>9. NoMarkFault'
  BY <1>3 DEF AInv, NoMarkFault
<1>10. Logs'
  <2> SUFFICES ASSUME NEW o \in Threads, NEW ox \in Txs, Runs(o, ox, "body")'
               PROVE  LogOK(val', version', reads'[o], writes'[o], marks'[ox], run'[ox])
    BY DEF Logs
  <2>1. stack'[o] # <<>> /\ Last(stack'[o]) = ox /\ pc'[ox] = "body"
    BY DEF Runs, Top
  <2>2. CASE o = th
    <3>1. n - 1 \in 1 .. Len(stack'[th]) /\ ox = stack'[th][n - 1]
      <4>1. stack'[th] \in Seq(Txs)
        BY DEF Types
      <4>2. Len(stack'[th]) > 0 /\ ox = stack'[th][Len(stack'[th])]
        BY <2>1, <2>2, <4>1, FrontLast
      <4> QED
        BY <1>4, <4>2
    <3>2. n - 1 \in 1 .. Len(stack[th]) /\ n - 1 < Len(stack[th]) /\ ox = stack[th][n - 1] /\ ox # tx
      BY <1>4, <1>5, <3>1 DEF n
    <3>3. pc[ox] = "wait"
      BY <3>2 DEF AInv, Waiting
    <3> QED
      BY <1>3, <2>1, <3>2, <3>3
  <2>3. CASE o # th
    <3>1. stack'[o] = stack[o]
      BY <1>3, <2>3
    <3>2. ox # tx
      BY <1>1, <1>2, <2>1, <2>3, <3>1, RunsOnce DEF AInv, Top
    <3>3. LogOK(val, version, reads[o], writes[o], marks[ox], run[ox])
      <4>1. Runs(o, ox, "body")
        BY <1>3, <2>1, <3>1, <3>2 DEF Runs, Top
      <4> QED
        BY <4>1 DEF AInv, Logs
    <3>4. \A tv \in TVars : /\ version[tv] <= version'[tv]
                            /\ version[tv] = version'[tv] => val[tv] = val'[tv]
      BY <1>2, CommitStore
    <3>5. LogOK(val', version', reads[o], writes[o], marks[ox], run[ox])
      <4>1. reads[o] \in LogReads
        BY <1>2
      <4>2. version \in [TVars -> Nat] /\ version' \in [TVars -> Nat]
        BY <1>2
      <4> QED
        BY <3>3, <3>4, <4>1, <4>2, LogOfOther
    <3> QED
      BY <1>1, <1>3, <2>3, <3>2, <3>5
  <2> QED
    BY <2>2, <2>3
<1> QED
  BY <1>6, <1>7, <1>8, <1>9, <1>10 DEF AInv

LEMMA AInit == Init => AInv
<1> SUFFICES ASSUME Init
             PROVE  AInv
  OBVIOUS
<1>1. Types
  BY TypesInit
<1>2. \A th \in Threads : stack[th] = <<>> /\ Len(stack[th]) = 0
  BY DEF Init
<1>3. Waiting /\ Once /\ Logs
  BY <1>2 DEF Waiting, Once, Logs, Runs
<1>4. Quiet /\ NoMarkFault
  BY DEF Init, Quiet, NoMarkFault
<1> QED
  BY <1>1, <1>3, <1>4 DEF AInv

LEMMA AStep ==
  ASSUME AwaitInTx = FALSE, AInv, [Next]_vars
  PROVE  AInv'
<1>0. Types'
  BY TypesStep DEF AInv
<1>1. CASE UNCHANGED vars
  <2>1. Waiting' /\ Once' /\ Quiet' /\ NoMarkFault'
    BY <1>1 DEF vars, AInv, Waiting, Once, Quiet, NoMarkFault
  <2>2. Logs'
    BY <1>1 DEF vars, AInv, Logs, Runs, Top
  <2> QED
    BY <1>0, <2>1, <2>2 DEF AInv
<1>2. ASSUME NEW th \in Threads, NEW tx \in Txs, TxStep(th, tx)
      PROVE  AInv'
  <2>0. /\ reads \in [Threads -> LogReads] /\ writes \in [Threads -> LogWrites]
        /\ run \in [Txs -> Seq(Ops)]
    BY DEF AInv, Types
  <2>1. CASE StartTask(th, tx)
    BY <1>0, <2>1, StartKeeps
  <2>2. CASE THxSTM_begin(th, tx)
    <3>1. run[tx] = <<>> /\ marks[tx] = <<>>
      BY <2>2 DEF THxSTM_begin, Runs, AInv, Quiet
    <3>2. run' = [run EXCEPT ![tx] = <<>>]
      BY <2>0, <2>2, <3>1 DEF THxSTM_begin
    <3>3. /\ stack[th] # <<>> /\ Top(th) = tx
          /\ pc' = [pc EXCEPT ![tx] = "body"] /\ UNCHANGED <<val, version, stack, marks>>
          /\ reads'[th] = <<>> /\ writes'[th] = <<>>
          /\ \A o \in Threads \ {th} : reads'[o] = reads[o] /\ writes'[o] = writes[o]
      BY <2>0, <2>2 DEF THxSTM_begin, Runs, Goto
    <3> QED
      BY <1>0, <3>1, <3>2, <3>3, MoveKeeps
  <2>3. CASE THxSTM_commit(th, tx)
    <3>1. CASE stm_reads_unchanged(reads[th])
      BY <1>0, <2>3, <3>1, CommitKeeps
    <3>2. CASE ~stm_reads_unchanged(reads[th])
      <4>1. /\ stack[th] # <<>> /\ Top(th) = tx /\ marks[tx] = <<>>
            /\ pc' = [pc EXCEPT ![tx] = "begin"] /\ UNCHANGED <<val, version, stack, marks>>
            /\ run' = [run EXCEPT ![tx] = <<>>]
            /\ \A o \in Threads \ {th} : reads'[o] = reads[o] /\ writes'[o] = writes[o]
        BY <2>0, <2>3, <3>2 DEF THxSTM_commit, Runs, Goto
      <4> QED
        BY <1>0, <4>1, MoveKeeps
    <3> QED
      BY <3>1, <3>2
  <2>4. CASE Retry(th, tx)
    <3>1. /\ stack[th] # <<>> /\ Top(th) = tx /\ marks[tx] = <<>>
          /\ pc' = [pc EXCEPT ![tx] = "wait"] /\ UNCHANGED <<val, version, stack, marks>>
          /\ run' = [run EXCEPT ![tx] = <<>>]
          /\ \A o \in Threads \ {th} : reads'[o] = reads[o] /\ writes'[o] = writes[o]
      BY <2>0, <2>4 DEF Retry, Runs, Goto
    <3> QED
      BY <1>0, <3>1, MoveKeeps
  <2>5. CASE WaitOver(th, tx)
    <3>1. run[tx] = <<>> /\ marks[tx] = <<>>
      BY <2>5 DEF WaitOver, Runs, AInv, Quiet
    <3>2. run' = [run EXCEPT ![tx] = <<>>]
      BY <2>0, <2>5, <3>1 DEF WaitOver
    <3>3. /\ stack[th] # <<>> /\ Top(th) = tx
          /\ pc' = [pc EXCEPT ![tx] = "begin"] /\ UNCHANGED <<val, version, stack, marks>>
          /\ \A o \in Threads \ {th} : reads'[o] = reads[o] /\ writes'[o] = writes[o]
      BY <2>5 DEF WaitOver, Runs, Goto, log
    <3> QED
      BY <1>0, <3>1, <3>2, <3>3, MoveKeeps
  <2> QED
    BY <1>0, <1>2, <2>1, <2>2, <2>3, <2>4, <2>5, BodySteps DEF TxStep
<1> QED
  BY <1>1, <1>2 DEF Next

LEMMA AHolds ==
  ASSUME AwaitInTx = FALSE
  PROVE  Spec => []AInv
<1>1. AInv /\ [Next]_vars => AInv'
  BY AStep
<1> QED
  BY <1>1, AInit, PTL DEF Spec

\* A mark that `or_else` took is a mark of the log when THxSTM_rollback uses it:
\* its "expected a transaction mark" is out of the reach of any program that does
\* not await in a transaction.
THEOREM MarksStayInTheLog ==
  ASSUME AwaitInTx = FALSE
  PROVE  Spec => []NoMarkFault
<1>1. AInv => NoMarkFault
  BY DEF AInv
<1> QED
  BY <1>1, AHolds, PTL

\* A logged read whose version still stands read the value that still stands: what
\* stm_reads_unchanged compares is enough.
THEOREM VersionsIdentifyValues ==
  ASSUME AwaitInTx = FALSE
  PROVE  Spec => []VersionsTell
<1>1. AInv => VersionsTell
  <2> SUFFICES ASSUME AInv, NEW th \in Threads, stack[th] # <<>>, pc[Top(th)] = "body"
               PROVE  \A i \in 1 .. Len(reads[th]) :
                        version[reads[th][i].tv] = reads[th][i].version =>
                          \E j \in 1 .. Len(run[Top(th)]) :
                            run[Top(th)][j] = [op |-> "read", tv |-> reads[th][i].tv,
                                               val |-> val[reads[th][i].tv]]
    BY DEF VersionsTell
  <2>1. Top(th) \in Txs
    BY TopFacts DEF AInv
  <2>2. LogOK(val, version, reads[th], writes[th], marks[Top(th)], run[Top(th)])
    BY <2>1 DEF AInv, Logs, Runs
  <2> QED
    BY <2>2 DEF LogOK, ReadsTell
<1> QED
  BY <1>1, AHolds, PTL

-----------------------------------------------------------------------------
(***************************************************************************)
(* `atomically` implements the one-step transaction.                       *)
(***************************************************************************)
LEMMA CommitIsAtomic ==
  ASSUME AInv, NEW th \in Threads, NEW tx \in Txs, THxSTM_commit(th, tx),
         stm_reads_unchanged(reads[th])
  PROVE  Atomic!Atomically(tx)
<1> DEFINE ops == run[tx]
           rp == Atomic!Replays(val, ops)
           s == rp[Len(ops)]
<1>1. Runs(th, tx, "body") /\ pc[tx] = "body" /\ pc \in [Txs -> Labels] /\ run \in [Txs -> Seq(Ops)]
  BY DEF THxSTM_commit, Runs, AInv, Types
<1>2. pc' = [pc EXCEPT ![tx] = "done"] /\ run' = [run EXCEPT ![tx] = <<>>]
  BY DEF THxSTM_commit, Goto
<1>3. Tracks(val, version, reads[th], writes[th], marks[tx], ops, val)
  <2>1. val \in [TVars -> Values]
    BY DEF AInv, Types
  <2> QED
    BY <1>1, <2>1 DEF AInv, Logs, LogOK
<1>4. IsReplay(rp, val, ops)
  BY <1>3, ReplaysIsReplay DEF Tracks
<1> HIDE DEF rp
<1>5. Shows(s, val, version, reads[th], writes[th], marks[tx], val)
  BY <1>3, <1>4 DEF Tracks
<1>6. Standing(val, version, reads[th], val)
  BY DEF stm_reads_unchanged, Standing
<1>7. s.ok /\ s.view = Overlay(val, writes[th])
  BY <1>5, <1>6 DEF Shows
<1>8. Atomic!Replay(val, run[tx]) = s
  BY DEF Atomic!Replay, rp
<1>9. val' = s.view
  BY <1>7, CommitStore DEF AInv
<1>10. {x \in Txs : pc'[x] = "done"} = {x \in Txs : pc[x] = "done"} \cup {tx}
  BY <1>1, <1>2
<1>11. tx \notin {x \in Txs : pc[x] = "done"}
  BY <1>1
<1>12. \A other \in Txs \ {tx} : run'[other] = run[other]
  BY <1>1, <1>2
<1> QED
  BY <1>7, <1>8, <1>9, <1>10, <1>11, <1>12 DEF Atomic!Atomically

LEMMA StepIsAtomic ==
  ASSUME AwaitInTx = FALSE, AInv, [Next]_vars
  PROVE  [Atomic!Next]_Atomic!avars
<1>1. CASE UNCHANGED vars
  BY <1>1 DEF vars, Atomic!avars
<1>2. ASSUME NEW th \in Threads, NEW tx \in Txs, TxStep(th, tx)
      PROVE  Atomic!Next
  <2>0. pc \in [Txs -> Labels] /\ run \in [Txs -> Seq(Ops)] /\ Types'
    BY TypesStep, <1>2 DEF AInv, Types, Next
  <2>1. CASE THxSTM_commit(th, tx) /\ stm_reads_unchanged(reads[th])
    BY <2>1, CommitIsAtomic DEF Atomic!Next
  <2>2. ASSUME NEW label \in Labels \ {"done"}, pc' = [pc EXCEPT ![tx] = label],
               pc[tx] # "done", UNCHANGED val,
               run' = run \/ run' = [run EXCEPT ![tx] = <<>>]
        PROVE  Atomic!Work(tx)
    <3>1. {x \in Txs : pc'[x] = "done"} = {x \in Txs : pc[x] = "done"}
      BY <2>0, <2>2
    <3>2. \A other \in Txs \ {tx} : run'[other] = run[other]
      BY <2>0, <2>2
    <3> QED
      BY <2>2, <3>1, <3>2 DEF Atomic!Work
  <2>3. CASE \/ StartTask(th, tx) \/ THxSTM_begin(th, tx) \/ Retry(th, tx) \/ WaitOver(th, tx)
             \/ THxSTM_commit(th, tx) /\ ~stm_reads_unchanged(reads[th])
    <3>1. Atomic!Work(tx)
      BY <2>2, <2>3
         DEF StartTask, THxSTM_begin, Retry, WaitOver, THxSTM_commit, Runs, Goto, Labels
    <3> QED
      BY <3>1 DEF Atomic!Next
  <2>4. CASE \/ \E tv \in TVars : THxSTM_read(th, tx, tv)
             \/ \E tv \in TVars : THxSTM_write(th, tx, tv)
             \/ THxSTM_save(th, tx)
             \/ FirstReturns(th, tx)
             \/ THxSTM_rollback(th, tx)
    <3>1. UNCHANGED <<val, pc>> /\ \A o \in Txs \ {tx} : run'[o] = run[o]
      BY <2>0, <2>4, BodySteps
    <3>2. Atomic!Work(tx)
      BY <3>1 DEF Atomic!Work
    <3> QED
      BY <3>2 DEF Atomic!Next
  <2> QED
    BY <1>2, <2>1, <2>3, <2>4 DEF TxStep
<1> QED
  BY <1>1, <1>2 DEF Next

\* library/STM.thx's promise: a transaction that commits read one state of the
\* variables and wrote it at once, whatever committed between its reads, on
\* whatever thread and over however many runs, nested alternatives included.
THEOREM AtomicallyIsAtomic ==
  ASSUME AwaitInTx = FALSE
  PROVE  Spec => RunsAsOneStep
<1>1. Init => Atomic!Init
  BY DEF Init, Atomic!Init
<1>2. AInv /\ [Next]_vars => [Atomic!Next]_Atomic!avars
  BY StepIsAtomic
<1> QED
  BY <1>1, <1>2, AHolds, PTL DEF Spec, RunsAsOneStep, Atomic!Spec

=============================================================================
