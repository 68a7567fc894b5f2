---------------------------- MODULE AsyncProofs ----------------------------
(***************************************************************************)
(* Proofs about a task group: its channels, its tasks and the messages     *)
(* they are resumed with, for any number of tasks, channels and messages.  *)
(***************************************************************************)
EXTENDS Async, TLAPS, SequenceTheorems, FiniteSetTheorems, WellFoundedInduction

-----------------------------------------------------------------------------
(***************************************************************************)
(* The two-list queue is a queue.                                          *)
(***************************************************************************)
LEMMA ReverseType ==
  ASSUME NEW S, NEW s \in Seq(S)
  PROVE  /\ Reverse(s) \in Seq(S)
         /\ Len(Reverse(s)) = Len(s)
         /\ \A i \in 1 .. Len(s) : Reverse(s)[i] = s[(Len(s) - i) + 1]
BY DEF Reverse

LEMMA ConsFacts ==
  ASSUME NEW S, NEW s \in Seq(S), NEW x \in S
  PROVE  /\ <<x>> \in Seq(S)
         /\ <<x>> \o s \in Seq(S)
         /\ Len(<<x>> \o s) = Len(s) + 1
         /\ (<<x>> \o s)[1] = x
         /\ \A i \in 2 .. Len(s) + 1 : (<<x>> \o s)[i] = s[i - 1]
<1>1. <<x>> \in Seq(S) /\ Len(<<x>>) = 1 /\ <<x>>[1] = x /\ Len(s) \in Nat
  OBVIOUS
<1>2. /\ <<x>> \o s \in Seq(S)
      /\ Len(<<x>> \o s) = 1 + Len(s)
      /\ \A i \in 1 .. 1 + Len(s) :
           (<<x>> \o s)[i] = IF i <= 1 THEN <<x>>[i] ELSE s[i - 1]
  BY <1>1, ConcatProperties
<1>3. (<<x>> \o s)[1] = x
  BY <1>1, <1>2
<1>4. ASSUME NEW i \in 2 .. Len(s) + 1
      PROVE  (<<x>> \o s)[i] = s[i - 1]
  BY <1>1, <1>2
<1> QED
  BY <1>1, <1>2, <1>3, <1>4

LEMMA ReverseCons ==
  ASSUME NEW S, NEW s \in Seq(S), NEW x \in S
  PROVE  Reverse(<<x>> \o s) = Append(Reverse(s), x)
<1> DEFINE n == Len(s)
           c == <<x>> \o s
           l == Reverse(c)
           r == Append(Reverse(s), x)
<1>0. n \in Nat
  OBVIOUS
<1>1. /\ c \in Seq(S) /\ Len(c) = n + 1 /\ c[1] = x
      /\ \A i \in 2 .. n + 1 : c[i] = s[i - 1]
  BY ConsFacts
<1> HIDE DEF c
<1>2. /\ l \in Seq(S) /\ Len(l) = n + 1
      /\ \A i \in 1 .. n + 1 : l[i] = c[((n + 1) - i) + 1]
  BY <1>1, ReverseType
<1>3. /\ Reverse(s) \in Seq(S) /\ Len(Reverse(s)) = n
      /\ \A i \in 1 .. n : Reverse(s)[i] = s[(n - i) + 1]
  BY ReverseType
<1>4. /\ r \in Seq(S) /\ Len(r) = n + 1 /\ r[n + 1] = x
      /\ \A i \in 1 .. n : r[i] = Reverse(s)[i]
  BY <1>3, AppendProperties
<1> HIDE DEF l, r, n
<1>5. ASSUME NEW i \in 1 .. n
      PROVE  l[i] = r[i]
  <2>1. ((n + 1) - i) + 1 \in 2 .. n + 1 /\ (((n + 1) - i) + 1) - 1 = (n - i) + 1
    BY <1>0
  <2>2. l[i] = c[((n + 1) - i) + 1]
    BY <1>0, <1>2
  <2>3. c[((n + 1) - i) + 1] = s[(n - i) + 1]
    BY <1>1, <2>1
  <2> QED
    BY <1>3, <1>4, <2>2, <2>3
<1>6. l[n + 1] = r[n + 1]
  <2>1. n + 1 \in 1 .. n + 1 /\ ((n + 1) - (n + 1)) + 1 = 1
    BY <1>0
  <2>2. l[n + 1] = c[1]
    BY <1>2, <2>1
  <2> QED
    BY <1>1, <1>4, <2>2
<1>7. \A i \in 1 .. Len(l) : l[i] = r[i]
  <2>1. \A i \in 1 .. Len(l) : i \in 1 .. n \/ i = n + 1
    BY <1>0, <1>2
  <2> QED
    BY <1>5, <1>6, <2>1
<1>8. l = r
  BY <1>2, <1>4, <1>7, SeqEqual
<1> QED
  BY <1>8 DEF c, l, r

LEMMA ContentsType ==
  ASSUME NEW S, NEW q \in Queues(S)
  PROVE  /\ Contents(q) \in Seq(S)
         /\ q_has(q) <=> Contents(q) # <<>>
<1>1. q.front \in Seq(S) /\ q.back \in Seq(S)
  BY DEF Queues
<1>2. Reverse(q.back) \in Seq(S) /\ Len(Reverse(q.back)) = Len(q.back)
  BY <1>1, ReverseType
<1>3. Reverse(q.back) = <<>> <=> q.back = <<>>
  BY <1>1, <1>2, EmptySeq
<1>4. Contents(q) \in Seq(S)
  BY <1>1, <1>2 DEF Contents
<1>5. Contents(q) = <<>> <=> q.front = <<>> /\ Reverse(q.back) = <<>>
  BY <1>1, <1>2, ConcatEqualIffEmpty DEF Contents
<1> QED
  BY <1>3, <1>4, <1>5 DEF q_has

LEMMA QueuePush ==
  ASSUME NEW S, NEW q \in Queues(S), NEW x \in S
  PROVE  /\ q_push(q, x) \in Queues(S)
         /\ Contents(q_push(q, x)) = Append(Contents(q), x)
<1>1. q.front \in Seq(S) /\ q.back \in Seq(S)
  BY DEF Queues
<1>2. Reverse(q.back) \in Seq(S) /\ <<x>> \in Seq(S) /\ <<x>> \o q.back \in Seq(S)
  BY <1>1, ReverseType, ConsFacts
<1> DEFINE b == <<x>> \o q.back
<1>3. q_push(q, x) = [front |-> q.front, back |-> b]
  <2>1. q_push(q, x) = [q EXCEPT !.back = b]
    BY DEF q_push
  <2> HIDE DEF b
  <2> QED
    BY <2>1 DEF Queues
<1> DEFINE r == Reverse(q.back)
           f == q.front
           e == <<x>>
<1>4. Contents(q_push(q, x)) = f \o Append(r, x)
  <2>1. Reverse(<<x>> \o q.back) = Append(r, x)
    BY <1>1, ReverseCons
  <2>2. Contents(q_push(q, x)) = f \o Reverse(b)
    <3> HIDE DEF b
    <3> QED
      BY <1>3 DEF Contents
  <2> QED
    BY <2>1, <2>2
<1>5. Append(r, x) = r \o e
  BY <1>2, AppendIsConcat
<1>6. Append(f \o r, x) = (f \o r) \o e
  BY <1>1, <1>2, ConcatProperties, AppendIsConcat
<1>7. (f \o r) \o e = f \o (r \o e)
  <2> HIDE DEF f, r, e
  <2>1. f \in Seq(S) /\ r \in Seq(S) /\ e \in Seq(S)
    BY <1>1, <1>2 DEF f, r, e
  <2> QED
    BY <2>1, ConcatAssociative
<1>8. q_push(q, x) \in Queues(S)
  BY <1>1, <1>2, <1>3 DEF Queues
<1>9. Contents(q) = f \o r
  BY DEF Contents
<1> HIDE DEF f, r, e
<1> QED
  BY <1>4, <1>5, <1>6, <1>7, <1>8, <1>9

LEMMA HeadAndTail ==
  ASSUME NEW S, NEW s \in Seq(S), s # <<>>
  PROVE  Head(s) \in S /\ Tail(s) \in Seq(S) /\ s = <<Head(s)>> \o Tail(s)
<1> DEFINE h == Head(s)
           t == Tail(s)
           c == <<h>> \o t
<1>1. /\ h \in S /\ t \in Seq(S) /\ Len(t) = Len(s) - 1 /\ Len(s) \in Nat \ {0}
      /\ \A i \in 1 .. Len(t) : t[i] = s[i + 1]
  BY HeadTailProperties, EmptySeq
<1>2. h = s[1]
  OBVIOUS
<1> HIDE DEF h, t
<1>3. /\ c \in Seq(S) /\ Len(c) = Len(t) + 1 /\ c[1] = h
      /\ \A i \in 2 .. Len(t) + 1 : c[i] = t[i - 1]
  BY <1>1, ConsFacts
<1> HIDE DEF c
<1>4. ASSUME NEW i \in 2 .. Len(s)
      PROVE  s[i] = c[i]
  <2>1. i - 1 \in 1 .. Len(t) /\ (i - 1) + 1 = i /\ i \in 2 .. Len(t) + 1
    BY <1>1
  <2> QED
    BY <1>1, <1>3, <2>1
<1>5. \A i \in 1 .. Len(s) : s[i] = c[i]
  BY <1>1, <1>2, <1>3, <1>4
<1>6. Len(c) = Len(s)
  BY <1>1, <1>3
<1>7. s = c
  BY <1>3, <1>5, <1>6, SeqEqual
<1> QED
  BY <1>1, <1>7 DEF c, h, t

LEMMA QueuePop ==
  ASSUME NEW S, NEW q \in Queues(S), q_has(q)
  PROVE  /\ q_pop(q).x \in S
         /\ q_pop(q).rest \in Queues(S)
         /\ Contents(q) = <<q_pop(q).x>> \o Contents(q_pop(q).rest)
<1>0. q.front \in Seq(S) /\ q.back \in Seq(S) /\ Reverse(q.back) \in Seq(S)
  BY ReverseType DEF Queues
<1>1. CASE q.front # <<>>
  <2>1. q_pop(q).x = Head(q.front) /\ q_pop(q).rest = [q EXCEPT !.front = Tail(@)]
    BY <1>1 DEF q_pop
  <2>2. Head(q.front) \in S /\ Tail(q.front) \in Seq(S)
        /\ q.front = <<Head(q.front)>> \o Tail(q.front)
    BY <1>0, <1>1, HeadAndTail
  <2>3. q_pop(q).rest \in Queues(S) /\ q_pop(q).rest.front = Tail(q.front)
        /\ q_pop(q).rest.back = q.back
    BY <2>1, <2>2 DEF Queues
  <2>4. (<<Head(q.front)>> \o Tail(q.front)) \o Reverse(q.back)
          = <<Head(q.front)>> \o (Tail(q.front) \o Reverse(q.back))
    <3> DEFINE h == <<Head(q.front)>>
               t == Tail(q.front)
               r == Reverse(q.back)
    <3>1. h \in Seq(S) /\ t \in Seq(S) /\ r \in Seq(S)
      BY <1>0, <2>2
    <3> HIDE DEF h, t, r
    <3>2. (h \o t) \o r = h \o (t \o r)
      BY <3>1, ConcatAssociative
    <3> QED
      BY <3>2 DEF h, t, r
  <2> QED
    BY <2>1, <2>2, <2>3, <2>4 DEF Contents
<1>2. CASE q.front = <<>>
  <2> DEFINE r == Reverse(q.back)
  <2>1. r \in Seq(S) /\ r # <<>>
    BY <1>0, <1>2, ReverseType DEF q_has
  <2>2. q_pop(q).x = Head(r) /\ q_pop(q).rest = [front |-> Tail(r), back |-> <<>>]
    BY <1>2 DEF q_pop
  <2>3. Head(r) \in S /\ Tail(r) \in Seq(S) /\ r = <<Head(r)>> \o Tail(r)
    BY <2>1, HeadAndTail
  <2>4. q_pop(q).rest \in Queues(S)
    BY <2>2, <2>3 DEF Queues
  <2>5. Reverse(<<>>) = <<>>
    BY DEF Reverse
  <2>6. Contents(q_pop(q).rest) = Tail(r)
    BY <2>2, <2>3, <2>5 DEF Contents
  <2>7. Contents(q) = r
    BY <1>2, <2>1 DEF Contents
  <2> QED
    BY <2>2, <2>3, <2>4, <2>6, <2>7
<1> QED
  BY <1>1, <1>2

\* The first components of P's members are in M.
Firsts(P, M) == \A p \in P : p[1] \in M

\* The values of parked senders follow the queue they are parked in.
LEMMA ValuesType ==
  ASSUME NEW M, NEW P, Firsts(P, M), NEW z \in Seq(P)
  PROVE  /\ Values(z) \in Seq(M) /\ Len(Values(z)) = Len(z)
         /\ \A i \in 1 .. Len(z) : Values(z)[i] = z[i][1]
<1>1. /\ DOMAIN z = 1 .. Len(z) /\ Len(z) \in Nat
      /\ \A i \in 1 .. Len(z) : z[i][1] \in M
  BY DEF Firsts
<1>2. Values(z) \in [1 .. Len(z) -> M]
  BY <1>1 DEF Values
<1>3. Values(z) \in Seq(M)
  BY <1>1, <1>2, IsASeq
<1>4. DOMAIN Values(z) = 1 .. Len(z)
  BY <1>2
<1>5. Len(Values(z)) = Len(z)
  BY <1>1, <1>3, <1>4, LenProperties
<1> QED
  BY <1>1, <1>3, <1>5 DEF Values

LEMMA ValuesAppend ==
  ASSUME NEW M, NEW P, Firsts(P, M), NEW s \in Seq(P), NEW p \in P
  PROVE  Values(Append(s, p)) = Append(Values(s), p[1])
<1> DEFINE n == Len(s)
           a == Append(s, p)
           v == Values(s)
           l == Values(a)
           r == Append(v, p[1])
<1>0. n \in Nat /\ p[1] \in M
  BY DEF Firsts
<1>1. a \in Seq(P) /\ Len(a) = n + 1 /\ a[n + 1] = p /\ \A i \in 1 .. n : a[i] = s[i]
  BY AppendProperties
<1> HIDE DEF a
<1>2. /\ v \in Seq(M) /\ Len(v) = n /\ \A i \in 1 .. n : v[i] = s[i][1]
      /\ l \in Seq(M) /\ Len(l) = n + 1 /\ \A i \in 1 .. n + 1 : l[i] = a[i][1]
  BY <1>1, ValuesType
<1> HIDE DEF v, l, n
<1>3. r \in Seq(M) /\ Len(r) = n + 1 /\ r[n + 1] = p[1] /\ \A i \in 1 .. n : r[i] = v[i]
  BY <1>0, <1>2, AppendProperties
<1> HIDE DEF r
<1>4. \A i \in 1 .. n + 1 : i \in 1 .. n \/ i = n + 1
  BY <1>0
<1>5. \A i \in 1 .. n : l[i] = r[i]
  BY SMTT(30), <1>0, <1>1, <1>2, <1>3
<1>6. l[n + 1] = r[n + 1]
  BY <1>0, <1>1, <1>2, <1>3
<1>7. \A i \in 1 .. Len(l) : l[i] = r[i]
  BY <1>2, <1>4, <1>5, <1>6
<1>8. l = r
  BY <1>2, <1>3, <1>7, SeqEqual
<1> QED
  BY <1>8 DEF a, v, l, r

LEMMA ValuesCons ==
  ASSUME NEW M, NEW P, Firsts(P, M), NEW s \in Seq(P), NEW p \in P
  PROVE  Values(<<p>> \o s) = <<p[1]>> \o Values(s)
<1>v. ASSUME NEW z \in Seq(P)
      PROVE  /\ Values(z) \in Seq(M) /\ Len(Values(z)) = Len(z)
             /\ \A i \in 1 .. Len(z) : Values(z)[i] = z[i][1]
  BY ValuesType
<1> DEFINE n == Len(s)
           a == <<p>> \o s
           v == Values(s)
           l == Values(a)
<1>0. n \in Nat /\ p[1] \in M
  BY DEF Firsts
<1>1. a \in Seq(P) /\ Len(a) = n + 1 /\ a[1] = p /\ \A i \in 2 .. n + 1 : a[i] = s[i - 1]
  BY ConsFacts
<1> HIDE DEF a
<1>2. /\ v \in Seq(M) /\ Len(v) = n /\ \A i \in 1 .. n : v[i] = s[i][1]
      /\ l \in Seq(M) /\ Len(l) = n + 1 /\ \A i \in 1 .. n + 1 : l[i] = a[i][1]
  BY <1>v, <1>1
<1> DEFINE x == p[1]
           r == <<x>> \o v
<1>3. a[1][1] = x /\ x \in M
  BY <1>0, <1>1
<1> HIDE DEF v, l, n, x
<1>4. r \in Seq(M) /\ Len(r) = n + 1 /\ r[1] = x /\ \A i \in 2 .. n + 1 : r[i] = v[i - 1]
  BY <1>0, <1>2, <1>3, ConsFacts
<1> HIDE DEF r
<1>5. \A i \in 1 .. n + 1 : i = 1 \/ (i \in 2 .. n + 1 /\ i - 1 \in 1 .. n)
  BY <1>0
<1>6. l[1] = r[1]
  BY <1>0, <1>2, <1>3, <1>4
<1>7. ASSUME NEW i \in 2 .. n + 1
      PROVE  l[i] = r[i]
  <2>1. i \in 1 .. n + 1 /\ i - 1 \in 1 .. n
    BY <1>0
  <2>2. l[i] = a[i][1] /\ a[i] = s[i - 1]
    BY <1>1, <1>2, <2>1
  <2>3. r[i] = v[i - 1] /\ v[i - 1] = s[i - 1][1]
    BY <1>2, <1>4, <2>1
  <2> QED
    BY <2>2, <2>3
<1>8. \A i \in 1 .. Len(l) : l[i] = r[i]
  BY <1>2, <1>5, <1>6, <1>7
<1>9. l = r
  BY <1>2, <1>4, <1>8, SeqEqual
<1> QED
  BY <1>9 DEF a, v, l, r, x

-----------------------------------------------------------------------------
(***************************************************************************)
(* One operation on one channel.                                           *)
(***************************************************************************)
LEMMA AppendLeft ==
  ASSUME NEW S, NEW s \in Seq(S), NEW t \in Seq(S), NEW x \in S
  PROVE  Append(s, x) \o t = s \o (<<x>> \o t)
<1> DEFINE e == <<x>>
<1>1. e \in Seq(S)
  OBVIOUS
<1>2. Append(s, x) = s \o e
  BY AppendIsConcat
<1> HIDE DEF e
<1>3. (s \o e) \o t = s \o (e \o t)
  BY <1>1, ConcatAssociative
<1> QED
  BY <1>2, <1>3 DEF e

LEMMA AppendRight ==
  ASSUME NEW S, NEW s \in Seq(S), NEW t \in Seq(S), NEW x \in S
  PROVE  s \o Append(t, x) = Append(s \o t, x)
<1> DEFINE e == <<x>>
<1>1. e \in Seq(S) /\ s \o t \in Seq(S)
  OBVIOUS
<1>2. Append(t, x) = t \o e /\ Append(s \o t, x) = (s \o t) \o e
  BY <1>1, AppendIsConcat
<1> HIDE DEF e
<1>3. (s \o t) \o e = s \o (t \o e)
  BY SMTT(30), <1>1, ConcatAssociative
<1> QED
  BY <1>2, <1>3

\* Concatenation, kept closed where only its algebra matters.
Cat(s, t) == s \o t

LEMMA CatFacts ==
  ASSUME NEW S, NEW s \in Seq(S), NEW t \in Seq(S), NEW u \in Seq(S)
  PROVE  Cat(s, t) \in Seq(S) /\ Cat(Cat(s, t), u) = Cat(s, Cat(t, u))
<1>1. s \o t \in Seq(S)
  BY ConcatProperties
<1>2. (s \o t) \o u = s \o (t \o u)
  BY ConcatAssociative
<1> QED
  BY <1>1, <1>2 DEF Cat

LEMMA SlotRefilled ==
  ASSUME NEW S, NEW out \in Seq(S), NEW bs \in Seq(S), NEW vs \in Seq(S),
         NEW e \in Seq(S), NEW d \in Seq(S)
  PROVE  Cat(out, Cat(Cat(e, bs), Cat(d, vs))) = Cat(Cat(out, e), Cat(Cat(bs, d), vs))
<1>1. Cat(d, vs) \in Seq(S) /\ Cat(bs, Cat(d, vs)) \in Seq(S)
  BY CatFacts
<1>2. Cat(Cat(bs, d), vs) = Cat(bs, Cat(d, vs))
  BY CatFacts
<1>3. Cat(Cat(e, bs), Cat(d, vs)) = Cat(e, Cat(bs, Cat(d, vs)))
  BY <1>1, CatFacts
<1>4. Cat(Cat(out, e), Cat(bs, Cat(d, vs))) = Cat(out, Cat(e, Cat(bs, Cat(d, vs))))
  BY <1>1, CatFacts
<1> QED
  BY <1>2, <1>3, <1>4

Offers == Messages \X Tasks

LEMMA OffersCarry == Firsts(Offers, Messages)
BY DEF Offers, Messages, Firsts

\* What a channel's queues hold.
LEMMA Held ==
  ASSUME NEW ch \in Channels
  PROVE  /\ ch.buf \in Queues(Messages)
         /\ ch.senders \in Queues(Offers)
         /\ ch.receivers \in Queues(Tasks)
         /\ ch.cap \in Nat /\ ch.size \in Int
         /\ Contents(ch.buf) \in Seq(Messages)
         /\ Contents(ch.senders) \in Seq(Offers)
         /\ Values(Contents(ch.senders)) \in Seq(Messages)
         /\ q_has(ch.buf) <=> Contents(ch.buf) # <<>>
         /\ q_has(ch.senders) <=> Contents(ch.senders) # <<>>
<1>1. /\ ch.buf \in Queues(Messages)
      /\ ch.senders \in Queues(Offers)
      /\ ch.receivers \in Queues(Tasks)
      /\ ch.cap \in Nat /\ ch.size \in Int
  BY DEF Channels, Offers
<1>2. Contents(ch.senders) \in Seq(Offers)
  BY <1>1, ContentsType
<1> QED
  BY <1>1, <1>2, ContentsType, ValuesType, OffersCarry

\* send_to finds a parked receiver.
LEMMA Handed ==
  ASSUME NEW ch \in Channels, NEW in \in Seq(Messages), NEW out \in Seq(Messages),
         Fifo(ch, in, out), Cause(ch), q_has(ch.receivers), NEW v \in Messages,
         NEW ch2, ch2 = [ch EXCEPT !.receivers = q_pop(ch.receivers).rest]
  PROVE  /\ ch2 \in Channels
         /\ Fifo(ch2, Append(in, v), Append(out, v))
         /\ Cause(ch2)
<1> DEFINE q == q_pop(ch.receivers).rest
<1>1. q \in Queues(Tasks)
  BY Held, QueuePop
<1> HIDE DEF q
<1>2. ch2 = [ch EXCEPT !.receivers = q]
  BY DEF q
<1>3. /\ ch2 \in Channels /\ ch2.buf = ch.buf /\ ch2.senders = ch.senders
      /\ ch2.size = ch.size /\ ch2.cap = ch.cap
  BY <1>1, <1>2 DEF Channels
<1>4. ~q_has(ch.buf) /\ ~q_has(ch.senders)
  BY DEF Cause
<1>5. Pending(ch) = <<>> /\ Pending(ch2) = <<>>
  <2>1. Contents(ch.buf) = <<>> /\ Contents(ch.senders) = <<>>
    BY <1>4, Held
  <2>2. Values(<<>>) = <<>>
    BY DEF Values
  <2>3. <<>> \o <<>> = <<>>
    OBVIOUS
  <2> QED
    BY <1>3, <2>1, <2>2, <2>3 DEF Pending
<1>6. in = out
  BY <1>5, ConcatEmptySeq DEF Fifo
<1>7. Fifo(ch2, Append(in, v), Append(out, v))
  <2>1. Append(out, v) \in Seq(Messages)
    BY AppendProperties
  <2>2. Append(out, v) \o <<>> = Append(out, v)
    BY <2>1, ConcatEmptySeq
  <2> QED
    BY <1>5, <1>6, <2>2 DEF Fifo
<1>8. Cause(ch2)
  BY <1>3, <1>4 DEF Cause
<1> QED
  BY <1>3, <1>7, <1>8

\* send_to finds room in the buffer.
WithBuffered(ch, v) == [ch EXCEPT !.buf = q_push(ch.buf, v), !.size = ch.size + 1]

LEMMA Buffered ==
  ASSUME NEW ch \in Channels, NEW in \in Seq(Messages), NEW out \in Seq(Messages),
         Fifo(ch, in, out), Cause(ch), NEW v \in Messages,
         ~q_has(ch.receivers), ch.size < ch.cap,
         NEW ch2, ch2 = WithBuffered(ch, v)
  PROVE  /\ ch2 \in Channels
         /\ Fifo(ch2, Append(in, v), out)
         /\ Cause(ch2)
<1> DEFINE q == q_push(ch.buf, v)
           b == Contents(ch.buf)
           n == ch.size + 1
<1>1. q \in Queues(Messages) /\ Contents(q) = Append(b, v) /\ b \in Seq(Messages)
  BY Held, QueuePush
<1>2. ch2 = [ch EXCEPT !.buf = q, !.size = n] /\ n \in Int
  BY Held DEF WithBuffered
<1> HIDE DEF q, n
<1>3. /\ ch2 \in Channels /\ ch2.buf = q /\ ch2.senders = ch.senders
      /\ ch2.receivers = ch.receivers /\ ch2.size = n /\ ch2.cap = ch.cap
  BY <1>1, <1>2 DEF Channels
<1>4. ~q_has(ch.senders) /\ ch.size = Len(b) /\ ch.size + 1 <= ch.cap
  <2>1. ch.size \in Int /\ ch.cap \in Nat
    BY Held
  <2> QED
    BY <2>1 DEF Cause
<1>5. Pending(ch) = b /\ Pending(ch2) = Append(b, v)
  <2>1. Contents(ch.senders) = <<>>
    BY <1>4, Held
  <2>2. Values(<<>>) = <<>>
    BY DEF Values
  <2>3. b \o <<>> = b /\ Append(b, v) \o <<>> = Append(b, v)
    BY <1>1, ConcatEmptySeq, AppendProperties
  <2> QED
    BY <1>1, <1>3, <2>1, <2>2, <2>3 DEF Pending
<1> HIDE DEF b
<1>6. Fifo(ch2, Append(in, v), out)
  <2>1. in = out \o b
    BY <1>5 DEF Fifo
  <2>2. out \o Append(b, v) = Append(out \o b, v)
    BY <1>1, AppendRight
  <2> QED
    BY <1>5, <2>1, <2>2 DEF Fifo
<1>7. Len(Append(b, v)) = Len(b) + 1
  BY <1>1, AppendProperties
<1>8. Cause(ch2)
  BY <1>1, <1>3, <1>4, <1>7 DEF Cause, n
<1> QED
  BY <1>3, <1>6, <1>8

\* send_to parks the sender.
LEMMA Offered ==
  ASSUME NEW ch \in Channels, NEW in \in Seq(Messages), NEW out \in Seq(Messages),
         Fifo(ch, in, out), Cause(ch), NEW v \in Messages, NEW t \in Tasks,
         ~q_has(ch.receivers), ch.size >= ch.cap,
         NEW ch2, ch2 = [ch EXCEPT !.senders = q_push(ch.senders, <<v, t>>)]
  PROVE  /\ ch2 \in Channels
         /\ Fifo(ch2, Append(in, v), out)
         /\ Cause(ch2)
<1> DEFINE p == <<v, t>>
           q == q_push(ch.senders, p)
           b == Contents(ch.buf)
           o == Contents(ch.senders)
<1>1. p \in Offers /\ p[1] = v
  BY DEF Offers
<1>2. ch2 = [ch EXCEPT !.senders = q]
  OBVIOUS
<1> HIDE DEF p
<1>3. q \in Queues(Offers) /\ Contents(q) = Append(o, p)
  BY <1>1, Held, QueuePush
<1> HIDE DEF q
<1>4. /\ ch2 \in Channels /\ ch2.buf = ch.buf /\ ch2.senders = q
      /\ ch2.receivers = ch.receivers /\ ch2.size = ch.size /\ ch2.cap = ch.cap
  BY <1>2, <1>3 DEF Channels, Offers
<1>5. b \in Seq(Messages) /\ o \in Seq(Offers) /\ Values(o) \in Seq(Messages)
  BY Held
<1>6. Values(Append(o, p)) = Append(Values(o), v)
  BY <1>1, <1>5, OffersCarry, ValuesAppend
<1>7. Pending(ch) = b \o Values(o) /\ Pending(ch2) = b \o Append(Values(o), v)
  BY <1>3, <1>4, <1>6 DEF Pending
<1> HIDE DEF b, o
<1>8. Fifo(ch2, Append(in, v), out)
  <2>1. b \o Append(Values(o), v) = Append(b \o Values(o), v)
    BY <1>5, AppendRight
  <2>2. b \o Values(o) \in Seq(Messages)
    BY <1>5, ConcatProperties
  <2>3. out \o Append(b \o Values(o), v) = Append(out \o (b \o Values(o)), v)
    BY <2>2, AppendRight
  <2> QED
    BY <1>7, <2>1, <2>3 DEF Fifo
<1>9. Cause(ch2)
  <2>1. ch.size \in Int /\ ch.cap \in Nat
    BY Held
  <2> QED
    BY <1>4, <2>1 DEF Cause
<1> QED
  BY <1>4, <1>8, <1>9

\* recv_from takes a buffered value, and a parked sender's moves into its slot.
Refill(ch, b, p) == [ch EXCEPT !.buf = q_push(b.rest, p.x[1]), !.senders = p.rest]

LEMMA Refilled ==
  ASSUME NEW ch \in Channels, NEW in \in Seq(Messages), NEW out \in Seq(Messages),
         Fifo(ch, in, out), Cause(ch), q_has(ch.buf), q_has(ch.senders),
         NEW b, b = q_pop(ch.buf), NEW p, p = q_pop(ch.senders),
         NEW ch2, ch2 = Refill(ch, b, p)
  PROVE  /\ ch2 \in Channels /\ b.x \in Messages
         /\ Fifo(ch2, in, Append(out, b.x))
         /\ Cause(ch2)
<1> DEFINE x == b.x
           bs == Contents(b.rest)
           v == p.x[1]
           os == Contents(p.rest)
           vs == Values(os)
           q == q_push(b.rest, v)
           o == p.rest
<1>1. x \in Messages /\ b.rest \in Queues(Messages) /\ Contents(ch.buf) = <<x>> \o bs
  BY Held, QueuePop
<1>2. p.x \in Offers /\ o \in Queues(Offers) /\ Contents(ch.senders) = <<p.x>> \o os
  BY Held, QueuePop
<1>3. v \in Messages
  BY <1>2, OffersCarry DEF Firsts
<1>4. bs \in Seq(Messages) /\ os \in Seq(Offers) /\ vs \in Seq(Messages)
  BY <1>1, <1>2, ContentsType, ValuesType, OffersCarry
<1>5. Values(Contents(ch.senders)) = <<v>> \o vs
  <2> DEFINE y == p.x
  <2>1. y \in Offers /\ os \in Seq(Offers) /\ Contents(ch.senders) = <<y>> \o os
    BY <1>2, <1>4
  <2> HIDE DEF y, os
  <2>2. Values(<<y>> \o os) = <<y[1]>> \o Values(os)
    BY <2>1, OffersCarry, ValuesCons
  <2> QED
    BY <2>1, <2>2 DEF y, os
<1> HIDE DEF v
<1>6. q \in Queues(Messages) /\ Contents(q) = Append(bs, v)
  BY <1>1, <1>3, QueuePush
<1>7. ch2 = [ch EXCEPT !.buf = q, !.senders = o]
  BY DEF v, Refill
<1> HIDE DEF q, o
<1>8. /\ ch2 \in Channels /\ ch2.buf = q /\ ch2.senders = o
      /\ ch2.receivers = ch.receivers /\ ch2.size = ch.size /\ ch2.cap = ch.cap
  BY <1>2, <1>6, <1>7 DEF Channels, Offers
<1>9. /\ Pending(ch) = (<<x>> \o bs) \o (<<v>> \o vs)
      /\ Pending(ch2) = Append(bs, v) \o vs
  BY <1>1, <1>5, <1>6, <1>8 DEF Pending, o
<1> HIDE DEF x, bs, vs
<1>10. Fifo(ch2, in, Append(out, x))
  <2> DEFINE e == <<x>>
             d == <<v>>
  <2>1. /\ e \in Seq(Messages) /\ d \in Seq(Messages)
        /\ Append(out, x) = out \o e /\ Append(bs, v) = bs \o d
    BY <1>1, <1>3, <1>4, AppendIsConcat
  <2>2. Pending(ch) = Cat(Cat(e, bs), Cat(d, vs)) /\ Pending(ch2) = Cat(Cat(bs, d), vs)
    BY <1>9, <2>1 DEF Cat
  <2>3. Append(out, x) = Cat(out, e)
    BY <2>1 DEF Cat
  <2> HIDE DEF e, d
  <2>4. Cat(out, Cat(Cat(e, bs), Cat(d, vs))) = Cat(Cat(out, e), Cat(Cat(bs, d), vs))
    BY <1>4, <2>1, SlotRefilled
  <2>5. in = Cat(out, Pending(ch))
    BY DEF Fifo, Cat
  <2>6. in = Cat(Append(out, x), Pending(ch2))
    BY <2>2, <2>3, <2>4, <2>5
  <2> QED
    BY <2>6 DEF Fifo, Cat
<1>11. Cause(ch2)
  <2>1. Len(<<x>> \o bs) = Len(bs) + 1 /\ Len(Append(bs, v)) = Len(bs) + 1
    BY <1>1, <1>3, <1>4, ConsFacts, AppendProperties
  <2> QED
    BY <1>1, <1>6, <1>8, <2>1 DEF Cause
<1> QED
  BY <1>1, <1>8, <1>10, <1>11 DEF x

\* recv_from takes a buffered value and nobody is parked.
LEMMA Unbuffered ==
  ASSUME NEW ch \in Channels, NEW in \in Seq(Messages), NEW out \in Seq(Messages),
         Fifo(ch, in, out), Cause(ch), q_has(ch.buf), ~q_has(ch.senders),
         NEW b, b = q_pop(ch.buf),
         NEW ch2, ch2 = [ch EXCEPT !.buf = b.rest, !.size = ch.size - 1]
  PROVE  /\ ch2 \in Channels /\ b.x \in Messages
         /\ Fifo(ch2, in, Append(out, b.x))
         /\ Cause(ch2)
<1> DEFINE x == b.x
           q == b.rest
           bs == Contents(b.rest)
           n == ch.size - 1
<1>1. x \in Messages /\ q \in Queues(Messages) /\ Contents(ch.buf) = <<x>> \o bs
  BY Held, QueuePop
<1>2. bs \in Seq(Messages)
  BY <1>1, ContentsType
<1>3. ch2 = [ch EXCEPT !.buf = q, !.size = n] /\ n \in Int
  BY Held
<1>4. Contents(q) = bs
  OBVIOUS
<1> HIDE DEF q, n
<1>5. /\ ch2 \in Channels /\ ch2.buf = q /\ ch2.senders = ch.senders
      /\ ch2.receivers = ch.receivers /\ ch2.size = n /\ ch2.cap = ch.cap
  BY <1>1, <1>3 DEF Channels
<1> HIDE DEF x, bs
<1>6. Pending(ch) = <<x>> \o bs /\ Pending(ch2) = bs
  <2>1. Contents(ch.senders) = <<>>
    BY Held
  <2>2. Values(<<>>) = <<>>
    BY DEF Values
  <2>3. <<x>> \o bs \in Seq(Messages)
    BY <1>1, <1>2, ConsFacts
  <2>4. (<<x>> \o bs) \o <<>> = <<x>> \o bs /\ bs \o <<>> = bs
    BY <1>2, <2>3, ConcatEmptySeq
  <2> QED
    BY <1>1, <1>4, <1>5, <2>1, <2>2, <2>4 DEF Pending
<1>7. Fifo(ch2, in, Append(out, x))
  <2>1. Append(out, x) \o bs = out \o (<<x>> \o bs)
    BY <1>1, <1>2, AppendLeft
  <2> QED
    BY <1>6, <2>1 DEF Fifo
<1>8. Cause(ch2)
  <2>1. Len(<<x>> \o bs) = Len(bs) + 1 /\ Len(bs) \in Nat
    BY <1>1, <1>2, ConsFacts
  <2>2. ch.size = Len(bs) + 1 /\ ch.size <= ch.cap /\ ch.cap \in Nat
    BY <1>1, <2>1, Held DEF Cause
  <2>3. n = Len(bs) /\ n <= ch.cap
    BY <2>1, <2>2 DEF n
  <2>4. ~q_has(ch.receivers)
    BY DEF Cause
  <2> QED
    BY <1>4, <1>5, <2>3, <2>4 DEF Cause
<1> QED
  BY <1>1, <1>5, <1>7, <1>8 DEF x

\* recv_from meets a parked sender with nothing buffered.
LEMMA Met ==
  ASSUME NEW ch \in Channels, NEW in \in Seq(Messages), NEW out \in Seq(Messages),
         Fifo(ch, in, out), Cause(ch), ~q_has(ch.buf), q_has(ch.senders),
         NEW p, p = q_pop(ch.senders),
         NEW ch2, ch2 = [ch EXCEPT !.senders = p.rest]
  PROVE  /\ ch2 \in Channels /\ p.x[1] \in Messages
         /\ Fifo(ch2, in, Append(out, p.x[1]))
         /\ Cause(ch2)
<1> DEFINE v == p.x[1]
           o == p.rest
           os == Contents(p.rest)
           vs == Values(os)
<1>1. p.x \in Offers /\ o \in Queues(Offers) /\ Contents(ch.senders) = <<p.x>> \o os
  BY Held, QueuePop
<1>2. v \in Messages
  BY <1>1, OffersCarry DEF Firsts
<1>3. os \in Seq(Offers) /\ vs \in Seq(Messages)
  BY <1>1, ContentsType, ValuesType, OffersCarry
<1>4. Values(Contents(ch.senders)) = <<v>> \o vs
  <2> DEFINE y == p.x
  <2>1. y \in Offers /\ os \in Seq(Offers) /\ Contents(ch.senders) = <<y>> \o os
    BY <1>1, <1>3
  <2> HIDE DEF y, os
  <2>2. Values(<<y>> \o os) = <<y[1]>> \o Values(os)
    BY <2>1, OffersCarry, ValuesCons
  <2> QED
    BY <2>1, <2>2 DEF y, os
<1> HIDE DEF v, o
<1>5. ch2 = [ch EXCEPT !.senders = o]
  BY DEF o
<1>6. /\ ch2 \in Channels /\ ch2.buf = ch.buf /\ ch2.senders = o
      /\ ch2.receivers = ch.receivers /\ ch2.size = ch.size /\ ch2.cap = ch.cap
  BY <1>1, <1>5 DEF Channels, Offers
<1>7. Pending(ch) = <<v>> \o vs /\ Pending(ch2) = vs
  <2>1. Contents(ch.buf) = <<>>
    BY Held
  <2>2. Contents(ch2.buf) = <<>> /\ Values(Contents(ch2.senders)) = vs
    BY <1>6, <2>1 DEF o
  <2> HIDE DEF vs
  <2>3. <<v>> \o vs \in Seq(Messages)
    BY <1>2, <1>3, ConsFacts
  <2>4. <<>> \o (<<v>> \o vs) = <<v>> \o vs /\ <<>> \o vs = vs
    BY <1>3, <2>3, ConcatEmptySeq
  <2> QED
    BY <1>4, <2>1, <2>2, <2>4 DEF Pending
<1> HIDE DEF vs
<1>8. Fifo(ch2, in, Append(out, v))
  <2>1. Append(out, v) \o vs = out \o (<<v>> \o vs)
    BY <1>2, <1>3, AppendLeft
  <2> QED
    BY <1>7, <2>1 DEF Fifo
<1>9. Cause(ch2)
  BY <1>6 DEF Cause
<1> QED
  BY <1>2, <1>6, <1>8, <1>9 DEF v

\* recv_from parks the receiver.
LEMMA Parked ==
  ASSUME NEW ch \in Channels, NEW in, NEW out,
         Fifo(ch, in, out), Cause(ch), ~q_has(ch.buf), ~q_has(ch.senders),
         NEW t \in Tasks,
         NEW ch2, ch2 = [ch EXCEPT !.receivers = q_push(ch.receivers, t)]
  PROVE  /\ ch2 \in Channels
         /\ Fifo(ch2, in, out)
         /\ Cause(ch2)
<1> DEFINE q == q_push(ch.receivers, t)
<1>1. q \in Queues(Tasks)
  BY Held, QueuePush
<1> HIDE DEF q
<1>2. ch2 = [ch EXCEPT !.receivers = q]
  BY DEF q
<1>3. /\ ch2 \in Channels /\ ch2.buf = ch.buf /\ ch2.senders = ch.senders
      /\ ch2.receivers = q /\ ch2.size = ch.size /\ ch2.cap = ch.cap
  BY <1>1, <1>2 DEF Channels
<1> QED
  BY <1>3 DEF Fifo, Pending, Cause

-----------------------------------------------------------------------------
(***************************************************************************)
(* The channels of the group.                                              *)
(***************************************************************************)
ChanTypes ==
  /\ chans \in Seq(Channels)
  /\ sends \in Nat
  /\ sent \in Seq(Seq(Messages)) /\ Len(sent) = Len(chans)
  /\ taken \in Seq(Seq(Messages)) /\ Len(taken) = Len(chans)

ChanInv == ChanTypes /\ ChannelFifo /\ ParkedForCause

\* What the invariant says of one channel.
LEMMA OneChannel ==
  ASSUME ChanInv, NEW c \in DOMAIN chans
  PROVE  /\ c \in 1 .. Len(chans) /\ chans[c] \in Channels
         /\ sent[c] \in Seq(Messages) /\ taken[c] \in Seq(Messages)
         /\ Fifo(chans[c], sent[c], taken[c]) /\ Cause(chans[c])
<1>1. c \in 1 .. Len(chans)
  BY LenProperties DEF ChanInv, ChanTypes
<1>2. /\ chans[c] \in Channels
      /\ sent[c] \in Seq(Messages) /\ taken[c] \in Seq(Messages)
  BY <1>1, ElementOfSeq DEF ChanInv, ChanTypes
<1> QED
  BY <1>1, <1>2 DEF ChanInv, ChannelFifo, ParkedForCause

\* An operation on one channel leaves the others alone.
LEMMA Operated ==
  ASSUME ChanInv, NEW c \in DOMAIN chans, NEW ch \in Channels,
         NEW in \in Seq(Messages), NEW out \in Seq(Messages),
         Fifo(ch, in, out), Cause(ch),
         chans' = [chans EXCEPT ![c] = ch], sends' \in Nat,
         sent' = [sent EXCEPT ![c] = in], taken' = [taken EXCEPT ![c] = out]
  PROVE  ChanInv'
<1>1. /\ c \in 1 .. Len(chans) /\ c \in 1 .. Len(sent) /\ c \in 1 .. Len(taken)
      /\ chans \in Seq(Channels)
      /\ sent \in Seq(Seq(Messages)) /\ Len(sent) = Len(chans)
      /\ taken \in Seq(Seq(Messages)) /\ Len(taken) = Len(chans)
  BY OneChannel DEF ChanInv, ChanTypes
<1>2. /\ chans' \in Seq(Channels) /\ Len(chans') = Len(chans)
      /\ \A d \in 1 .. Len(chans) : chans'[d] = IF d = c THEN ch ELSE chans[d]
  BY <1>1, ExceptSeq
<1>3. /\ sent' \in Seq(Seq(Messages)) /\ Len(sent') = Len(sent)
      /\ \A d \in 1 .. Len(sent) : sent'[d] = IF d = c THEN in ELSE sent[d]
  BY <1>1, ExceptSeq
<1>4. /\ taken' \in Seq(Seq(Messages)) /\ Len(taken') = Len(taken)
      /\ \A d \in 1 .. Len(taken) : taken'[d] = IF d = c THEN out ELSE taken[d]
  BY <1>1, ExceptSeq
<1>5. DOMAIN chans' = 1 .. Len(chans) /\ DOMAIN chans = 1 .. Len(chans)
  BY <1>1, <1>2, LenProperties
<1>6. ASSUME NEW d \in DOMAIN chans'
      PROVE  Fifo(chans'[d], sent'[d], taken'[d]) /\ Cause(chans'[d])
  <2>1. CASE d = c
    BY <1>1, <1>2, <1>3, <1>4, <1>5, <2>1
  <2>2. CASE d # c
    <3>1. chans'[d] = chans[d] /\ sent'[d] = sent[d] /\ taken'[d] = taken[d]
      BY <1>1, <1>2, <1>3, <1>4, <1>5, <2>2
    <3>2. Fifo(chans[d], sent[d], taken[d]) /\ Cause(chans[d])
      BY <1>5, OneChannel
    <3> QED
      BY <3>1, <3>2
  <2> QED
    BY <2>1, <2>2
<1>7. ChannelFifo'
  BY <1>6 DEF ChannelFifo, Fifo, Pending, Values, Contents
<1>8. ParkedForCause'
  BY <1>6 DEF ParkedForCause, Cause, q_has, Contents
<1> QED
  BY <1>1, <1>2, <1>3, <1>4, <1>7, <1>8 DEF ChanInv, ChanTypes

\* A step that touches no channel.
LEMMA Untouched ==
  ASSUME ChanInv, UNCHANGED <<chans, sends, sent, taken>>
  PROVE  ChanInv'
BY DEF ChanInv, ChanTypes, ChannelFifo, ParkedForCause, Fifo, Pending, Cause,
       Values, Contents, q_has

LEMMA SendKeeps ==
  ASSUME ChanInv, NEW t \in Tasks, NEW c \in DOMAIN chans, send_to(t, c)
  PROVE  ChanInv'
<1> DEFINE v == <<t, sends>>
           ch == chans[c]
           in == sent[c]
           out == taken[c]
<1>1. v \in Messages /\ sends' \in Nat
  BY DEF ChanInv, ChanTypes, Messages, send_to
<1>2. sent' = [sent EXCEPT ![c] = Append(in, v)]
  BY DEF send_to
<1> HIDE DEF v
<1>3. ch \in Channels /\ in \in Seq(Messages) /\ out \in Seq(Messages)
      /\ Fifo(ch, in, out) /\ Cause(ch)
  BY OneChannel
<1>4. Append(in, v) \in Seq(Messages) /\ Append(out, v) \in Seq(Messages)
  BY <1>1, <1>3, AppendProperties
<1>5. CASE SendToReceiver(t, c, v)
  <2> DEFINE ch2 == [ch EXCEPT !.receivers = q_pop(ch.receivers).rest]
  <2>1. /\ q_has(ch.receivers) /\ chans' = [chans EXCEPT ![c] = ch2]
        /\ taken' = [taken EXCEPT ![c] = Append(out, v)]
    BY <1>5 DEF SendToReceiver
  <2>2. ch2 \in Channels /\ Fifo(ch2, Append(in, v), Append(out, v)) /\ Cause(ch2)
    BY <1>1, <1>3, <2>1, Handed
  <2> HIDE DEF ch2
  <2> QED
    BY <1>1, <1>2, <1>4, <2>1, <2>2, Operated
<1>6. CASE SendToBuffer(t, c, v)
  <2> DEFINE ch2 == [ch EXCEPT !.buf = q_push(ch.buf, v), !.size = ch.size + 1]
  <2>1. /\ ~q_has(ch.receivers) /\ ch.size < ch.cap
        /\ chans' = [chans EXCEPT ![c] = ch2] /\ taken' = taken
    BY <1>6 DEF SendToBuffer
  <2>a. ch2 = WithBuffered(ch, v)
    BY DEF WithBuffered
  <2>2. ch2 \in Channels /\ Fifo(ch2, Append(in, v), out) /\ Cause(ch2)
    <3> HIDE DEF ch2, ch, in, out
    <3> QED
      BY <1>1, <1>3, <2>1, <2>a, Buffered
  <2>3. taken' = [taken EXCEPT ![c] = out]
    BY <2>1 DEF ChanInv, ChanTypes
  <2> HIDE DEF ch2
  <2> QED
    BY <1>1, <1>2, <1>3, <1>4, <2>1, <2>2, <2>3, Operated
<1>7. CASE SendParks(t, c, v)
  <2> DEFINE ch2 == [ch EXCEPT !.senders = q_push(ch.senders, <<v, t>>)]
  <2>1. /\ ~q_has(ch.receivers) /\ ch.size >= ch.cap
        /\ chans' = [chans EXCEPT ![c] = ch2] /\ taken' = taken
    BY <1>7 DEF SendParks
  <2>2. ch2 \in Channels /\ Fifo(ch2, Append(in, v), out) /\ Cause(ch2)
    BY <1>1, <1>3, <2>1, Offered
  <2>3. taken' = [taken EXCEPT ![c] = out]
    BY <2>1 DEF ChanInv, ChanTypes
  <2> HIDE DEF ch2
  <2> QED
    BY <1>1, <1>2, <1>3, <1>4, <2>1, <2>2, <2>3, Operated
<1> QED
  BY <1>5, <1>6, <1>7 DEF send_to, v

LEMMA RecvKeeps ==
  ASSUME ChanInv, NEW t \in Tasks, NEW c \in DOMAIN chans, recv_from(t, c)
  PROVE  ChanInv'
<1> DEFINE ch == chans[c]
           in == sent[c]
           out == taken[c]
<1>1. sends' \in Nat /\ sent' = [sent EXCEPT ![c] = in]
  BY DEF ChanInv, ChanTypes, recv_from
<1>2. ch \in Channels /\ in \in Seq(Messages) /\ out \in Seq(Messages)
      /\ Fifo(ch, in, out) /\ Cause(ch)
  BY OneChannel
<1>3. CASE RecvAndRefill(t, c)
  <2> DEFINE b == q_pop(ch.buf)
             p == q_pop(ch.senders)
             ch2 == [ch EXCEPT !.buf = q_push(b.rest, p.x[1]), !.senders = p.rest]
  <2>1. /\ q_has(ch.buf) /\ q_has(ch.senders) /\ chans' = [chans EXCEPT ![c] = ch2]
        /\ taken' = [taken EXCEPT ![c] = Append(out, b.x)]
    BY <1>3 DEF RecvAndRefill, Takes
  <2>2. /\ ch2 \in Channels /\ b.x \in Messages
        /\ Fifo(ch2, in, Append(out, b.x)) /\ Cause(ch2)
    <3>1. /\ b = q_pop(ch.buf) /\ p = q_pop(ch.senders)
          /\ ch2 = Refill(ch, b, p)
      BY DEF Refill
    <3> HIDE DEF ch2, b, p, ch, in, out
    <3> QED
      BY <1>2, <2>1, <3>1, Refilled
  <2> HIDE DEF ch2, b
  <2>3. Append(out, b.x) \in Seq(Messages)
    BY <1>2, <2>2, AppendProperties
  <2> QED
    BY <1>1, <1>2, <2>1, <2>2, <2>3, Operated
<1>4. CASE RecvBuffered(t, c)
  <2> DEFINE b == q_pop(ch.buf)
             ch2 == [ch EXCEPT !.buf = b.rest, !.size = ch.size - 1]
  <2>1. /\ q_has(ch.buf) /\ ~q_has(ch.senders) /\ chans' = [chans EXCEPT ![c] = ch2]
        /\ taken' = [taken EXCEPT ![c] = Append(out, b.x)]
    BY <1>4 DEF RecvBuffered, Takes
  <2>2. /\ ch2 \in Channels /\ b.x \in Messages
        /\ Fifo(ch2, in, Append(out, b.x)) /\ Cause(ch2)
    <3>1. b = q_pop(ch.buf) /\ ch2 = [ch EXCEPT !.buf = b.rest, !.size = ch.size - 1]
      OBVIOUS
    <3> HIDE DEF ch2, b, ch, in, out
    <3> QED
      BY <1>2, <2>1, <3>1, Unbuffered
  <2> HIDE DEF ch2, b
  <2>3. Append(out, b.x) \in Seq(Messages)
    BY <1>2, <2>2, AppendProperties
  <2> QED
    BY <1>1, <1>2, <2>1, <2>2, <2>3, Operated
<1>5. CASE RecvRendezvous(t, c)
  <2> DEFINE p == q_pop(ch.senders)
             ch2 == [ch EXCEPT !.senders = p.rest]
             v == p.x[1]
  <2>1. /\ ~q_has(ch.buf) /\ q_has(ch.senders) /\ chans' = [chans EXCEPT ![c] = ch2]
        /\ taken' = [taken EXCEPT ![c] = Append(out, v)]
    BY <1>5 DEF RecvRendezvous, Takes
  <2>2. ch2 \in Channels /\ v \in Messages /\ Fifo(ch2, in, Append(out, v)) /\ Cause(ch2)
    BY <1>2, <2>1, Met
  <2> HIDE DEF ch2, v
  <2>3. Append(out, v) \in Seq(Messages)
    BY <1>2, <2>2, AppendProperties
  <2> QED
    BY <1>1, <1>2, <2>1, <2>2, <2>3, Operated
<1>6. CASE RecvParks(t, c)
  <2> DEFINE ch2 == [ch EXCEPT !.receivers = q_push(ch.receivers, t)]
  <2>1. /\ ~q_has(ch.buf) /\ ~q_has(ch.senders) /\ chans' = [chans EXCEPT ![c] = ch2]
        /\ taken' = taken
    BY <1>6 DEF RecvParks
  <2>2. ch2 \in Channels /\ Fifo(ch2, in, out) /\ Cause(ch2)
    BY <1>2, <2>1, Parked
  <2>3. taken' = [taken EXCEPT ![c] = out]
    BY <2>1 DEF ChanInv, ChanTypes
  <2> HIDE DEF ch2
  <2> QED
    BY <1>1, <1>2, <2>1, <2>2, <2>3, Operated
<1> QED
  BY <1>3, <1>4, <1>5, <1>6 DEF recv_from

\* A new channel is empty, and nothing was sent on it.
LEMMA MadeKeeps ==
  ASSUME ChanInv, NEW t \in Tasks, NEW cap \in Caps, Made(t, cap)
  PROVE  ChanInv'
<1> DEFINE ch == Channel(cap)
           n == Len(chans)
<1>1. /\ ch \in Channels /\ Contents(ch.buf) = <<>> /\ Pending(ch) = <<>>
      /\ Fifo(ch, <<>>, <<>>) /\ Cause(ch)
  <2>1. ch \in Channels /\ ch.size = 0 /\ ch.cap >= 0
        /\ ch.buf = q_empty /\ ch.senders = q_empty /\ ch.receivers = q_empty
    <3>1. cap \in Int
      BY AsyncAssumption
    <3>2. (IF cap < 0 THEN 0 ELSE cap) \in Nat
      BY <3>1
    <3>3. q_empty \in Queues(Messages) /\ q_empty \in Queues(Messages \X Tasks)
          /\ q_empty \in Queues(Tasks)
      BY DEF q_empty, Queues
    <3> QED
      BY <3>2, <3>3 DEF Channel, Channels
  <2>2. Reverse(<<>>) = <<>> /\ Values(<<>>) = <<>> /\ <<>> \o <<>> = <<>>
    BY DEF Reverse, Values
  <2>3. Contents(q_empty) = <<>> /\ ~q_has(q_empty)
    BY <2>2 DEF Contents, q_empty, q_has
  <2>4. Pending(ch) = <<>>
    BY <2>1, <2>2, <2>3 DEF Pending
  <2>5. Fifo(ch, <<>>, <<>>)
    BY <2>2, <2>4 DEF Fifo
  <2>6. Cause(ch)
    BY <2>1, <2>3 DEF Cause
  <2> QED
    BY <2>1, <2>3, <2>4, <2>5, <2>6
<1> HIDE DEF ch
<1>2. /\ chans' = Append(chans, ch) /\ sent' = Append(sent, <<>>)
      /\ taken' = Append(taken, <<>>) /\ sends' = sends
  BY DEF Made, ch
<1>3. /\ chans \in Seq(Channels) /\ n \in Nat /\ sends \in Nat
      /\ sent \in Seq(Seq(Messages)) /\ Len(sent) = n
      /\ taken \in Seq(Seq(Messages)) /\ Len(taken) = n
      /\ <<>> \in Seq(Messages)
  BY DEF ChanInv, ChanTypes
<1>4. /\ chans' \in Seq(Channels) /\ Len(chans') = n + 1 /\ chans'[n + 1] = ch
      /\ \A d \in 1 .. n : chans'[d] = chans[d]
  BY <1>1, <1>2, <1>3, AppendProperties
<1>5. /\ sent' \in Seq(Seq(Messages)) /\ Len(sent') = n + 1 /\ sent'[n + 1] = <<>>
      /\ \A d \in 1 .. n : sent'[d] = sent[d]
  BY <1>2, <1>3, AppendProperties
<1>6. /\ taken' \in Seq(Seq(Messages)) /\ Len(taken') = n + 1 /\ taken'[n + 1] = <<>>
      /\ \A d \in 1 .. n : taken'[d] = taken[d]
  BY <1>2, <1>3, AppendProperties
<1>7. DOMAIN chans' = 1 .. n + 1 /\ DOMAIN chans = 1 .. n
  BY <1>3, <1>4, LenProperties
<1> HIDE DEF n
<1>8. ASSUME NEW d \in DOMAIN chans'
      PROVE  Fifo(chans'[d], sent'[d], taken'[d]) /\ Cause(chans'[d])
  <2>1. d = n + 1 \/ d \in 1 .. n
    BY <1>3, <1>7
  <2>2. CASE d = n + 1
    BY <1>1, <1>4, <1>5, <1>6, <2>2
  <2>3. CASE d \in 1 .. n
    <3>1. Fifo(chans[d], sent[d], taken[d]) /\ Cause(chans[d])
      BY <1>7, <2>3, OneChannel
    <3> QED
      BY <1>4, <1>5, <1>6, <2>3, <3>1
  <2> QED
    BY <2>1, <2>2, <2>3
<1>9. ChannelFifo'
  BY <1>8 DEF ChannelFifo, Fifo, Pending, Values, Contents
<1>10. ParkedForCause'
  BY <1>8 DEF ParkedForCause, Cause, q_has, Contents
<1> QED
  BY <1>2, <1>3, <1>4, <1>5, <1>6, <1>9, <1>10 DEF ChanInv, ChanTypes

LEMMA ChanInit == Init => ChanInv
<1> SUFFICES ASSUME Init PROVE ChanInv
  OBVIOUS
<1>1. chans = <<>> /\ sent = <<>> /\ taken = <<>> /\ sends = 0
  BY DEF Init
<1>2. ChanTypes
  BY <1>1 DEF ChanTypes
<1>3. DOMAIN chans = {}
  BY <1>1
<1> QED
  BY <1>2, <1>3 DEF ChanInv, ChannelFifo, ParkedForCause

LEMMA ChanStep == ChanInv /\ [Next]_vars => ChanInv'
<1> SUFFICES ASSUME ChanInv, [Next]_vars PROVE ChanInv'
  OBVIOUS
<1>1. CASE schedule
  <2>1. UNCHANGED <<chans, sends, sent, taken>>
    BY <1>1 DEF schedule, RunReady, GroupOver, Poll, hist
  <2> QED
    BY <2>1, Untouched
<1>2. ASSUME NEW t \in Tasks, serve(t)
      PROVE  ChanInv'
  <2>1. CASE Done(t) \/ Yielded(t) \/ (\E child \in Tasks : Spawned(t, child)) \/ Waits(t)
    <3>1. UNCHANGED <<chans, sends, sent, taken>>
      BY <2>1 DEF Done, Yielded, Spawned, Waits, hist
    <3> QED
      BY <3>1, Untouched
  <2>2. ASSUME NEW cap \in Caps, Made(t, cap)
        PROVE  ChanInv'
    BY <2>2, MadeKeeps
  <2>3. ASSUME NEW c \in DOMAIN chans, send_to(t, c)
        PROVE  ChanInv'
    BY <2>3, SendKeeps
  <2>4. ASSUME NEW c \in DOMAIN chans, recv_from(t, c)
        PROVE  ChanInv'
    BY <2>4, RecvKeeps
  <2> QED
    BY <1>2, <2>1, <2>2, <2>3, <2>4 DEF serve
<1>3. CASE UNCHANGED vars
  BY <1>3, Untouched DEF vars
<1> QED
  BY <1>1, <1>2, <1>3 DEF Next

\* Every channel of a group is first in, first out, whatever its capacity and
\* however its senders and receivers come and go.
THEOREM ChannelsAreFifo == Spec => []ChannelFifo
<1>1. ChanInv => ChannelFifo
  BY DEF ChanInv
<1> QED
  BY <1>1, ChanInit, ChanStep, PTL DEF Spec

\* No channel overflows, and no task is parked on a channel it could use.
THEOREM NobodyParkedInVain == Spec => []ParkedForCause
<1>1. ChanInv => ParkedForCause
  BY DEF ChanInv
<1> QED
  BY <1>1, ChanInit, ChanStep, PTL DEF Spec

-----------------------------------------------------------------------------
(***************************************************************************)
(* wake's loop.                                                            *)
(***************************************************************************)
LEMMA Least ==
  ASSUME NEW T \in SUBSET Nat, T # {}
  PROVE  \E x \in T : \A y \in T : x <= y
<1> DEFINE R == OpToRel(<, Nat)
<1>1. IsWellFoundedOn(R, Nat)
  BY NatLessThanWellFounded
<1>2. \A x, y \in Nat : <<y, x>> \in R <=> y < x
  BY DEF OpToRel
<1> HIDE DEF R
<1>3. PICK x \in T : \A y \in T : <<y, x>> \notin R
  BY <1>1, WFMin
<1>4. ASSUME NEW y \in T
      PROVE  x <= y
  <2>1. x \in Nat /\ y \in Nat /\ <<y, x>> \notin R
    BY <1>3
  <2> QED
    BY <1>2, <2>1
<1> QED
  BY <1>4

\* A number that has a property has a first one at or below it.
LEMMA FirstFailure ==
  ASSUME NEW n \in Nat, NEW T \in SUBSET (0 .. n), T # {}
  PROVE  \E x \in T : x = 0 \/ (x > 0 /\ x - 1 \in 0 .. n /\ x - 1 \notin T)
<1>1. T \in SUBSET Nat
  OBVIOUS
<1>2. PICK x \in T : \A y \in T : x <= y
  BY <1>1, Least
<1>3. x \in 0 .. n
  OBVIOUS
<1>4. CASE x = 0
  BY <1>4
<1>5. CASE x # 0
  <2>1. x > 0 /\ x - 1 \in 0 .. n /\ ~(x <= x - 1)
    BY <1>3, <1>5
  <2> QED
    BY <1>2, <2>1
<1> QED
  BY <1>4, <1>5

Unwalked == [ready |-> ready, rest |-> <<>>]
IsWalk(g, woken, n) ==
  g = [i \in 0 .. n |-> IF i = 0 THEN Unwalked ELSE Walk(woken, g[i - 1], i)]

LEMMA WalkExists ==
  ASSUME NEW woken, NEW n \in Nat
  PROVE  \E g : IsWalk(g, woken, n)
<1> DEFINE T == {m \in 0 .. n : ~\E g : IsWalk(g, woken, m)}
<1>1. SUFFICES ASSUME T # {} PROVE FALSE
  <2>1. n \in 0 .. n
    OBVIOUS
  <2> QED
    BY <1>1, <2>1
<1>2. PICK x \in T : x = 0 \/ (x > 0 /\ x - 1 \in 0 .. n /\ x - 1 \notin T)
  BY <1>1, FirstFailure
<1>3. x \in 0 .. n /\ ~\E g : IsWalk(g, woken, x)
  OBVIOUS
<1>4. CASE x = 0
  <2> DEFINE g == [i \in 0 .. 0 |-> Unwalked]
  <2>1. g = [i \in 0 .. 0 |-> IF i = 0 THEN Unwalked ELSE Walk(woken, g[i - 1], i)]
    OBVIOUS
  <2> HIDE DEF g
  <2>2. IsWalk(g, woken, x)
    BY <1>4, <2>1 DEF IsWalk
  <2> QED
    BY <1>3, <2>2
<1>5. CASE x > 0 /\ x - 1 \in 0 .. n /\ x - 1 \notin T
  <2>1. PICK g : IsWalk(g, woken, x - 1)
    BY <1>5
  <2> DEFINE h == [i \in 0 .. x |-> IF i = x THEN Walk(woken, g[x - 1], x) ELSE g[i]]
  <2>2. ASSUME NEW i \in 0 .. x
        PROVE  h[i] = IF i = 0 THEN Unwalked ELSE Walk(woken, h[i - 1], i)
    <3>0. x \in Nat /\ i \in Nat /\ i <= x
      BY <1>3
    <3>1. CASE i = x
      <4>1. h[i] = Walk(woken, g[x - 1], x) /\ i # 0
        BY <1>5, <3>1
      <4>2. x - 1 \in 0 .. x /\ x - 1 # x
        BY <1>5, <3>0
      <4>3. h[x - 1] = g[x - 1]
        BY <4>2
      <4> QED
        BY <3>1, <4>1, <4>3
    <3>2. CASE i = 0
      <4>1. 0 \in 0 .. x - 1 /\ i # x
        BY <1>5, <3>0, <3>2
      <4>2. g[0] = Unwalked
        BY <2>1, <4>1 DEF IsWalk
      <4>3. h[i] = g[0]
        BY <3>2, <4>1
      <4> QED
        BY <3>2, <4>2, <4>3
    <3>3. CASE i # x /\ i # 0
      <4>1. i \in 0 .. x - 1 /\ i - 1 \in 0 .. x /\ i - 1 # x
        BY <3>0, <3>3
      <4>2. g[i] = Walk(woken, g[i - 1], i)
        BY <2>1, <3>3, <4>1 DEF IsWalk
      <4>3. h[i] = g[i] /\ h[i - 1] = g[i - 1]
        BY <3>3, <4>1
      <4> QED
        BY <3>3, <4>2, <4>3
    <3> QED
      BY <3>1, <3>2, <3>3
  <2>3. h = [i \in 0 .. x |-> IF i = 0 THEN Unwalked ELSE Walk(woken, h[i - 1], i)]
    <3>1. \A i \in 0 .. x : h[i] = IF i = 0 THEN Unwalked ELSE Walk(woken, h[i - 1], i)
      BY <2>2
    <3>2. h = [i \in 0 .. x |-> h[i]]
      OBVIOUS
    <3> HIDE DEF h
    <3> QED
      BY <3>1, <3>2
  <2> HIDE DEF h
  <2>4. IsWalk(h, woken, x)
    BY <2>3 DEF IsWalk
  <2> QED
    BY <1>3, <2>4
<1> QED
  BY <1>2, <1>4, <1>5

\* The loop's state after each waiter.
LEMMA WalkedSteps ==
  ASSUME NEW woken, Len(waiting) \in Nat
  PROVE  \E g : /\ g[0] = Unwalked
                /\ \A i \in 1 .. Len(waiting) : g[i] = Walk(woken, g[i - 1], i)
                /\ Walked(woken) = g[Len(waiting)]
<1> DEFINE n == Len(waiting)
           go == CHOOSE g : IsWalk(g, woken, n)
<1>1. IsWalk(go, woken, n)
  BY WalkExists, Zenon
<1>2. Walked(woken) = go[n]
  BY Zenon DEF Walked, IsWalk, Unwalked
<1> HIDE DEF go
<1>3. \A i \in 0 .. n : go[i] = IF i = 0 THEN Unwalked ELSE Walk(woken, go[i - 1], i)
  BY <1>1 DEF IsWalk
<1>4. go[0] = Unwalked /\ \A i \in 1 .. n : go[i] = Walk(woken, go[i - 1], i)
  BY <1>3
<1> QED
  BY <1>2, <1>4

-----------------------------------------------------------------------------
(***************************************************************************)
(* What a sequence's elements are mapped to.                               *)
(***************************************************************************)
Mapped(f, s) == [i \in DOMAIN s |-> f[s[i]]]
IsMap(f, P, M) == f \in [P -> M]

LEMMA MappedType ==
  ASSUME NEW P, NEW M, NEW f, IsMap(f, P, M), NEW s \in Seq(P)
  PROVE  /\ Mapped(f, s) \in Seq(M) /\ Len(Mapped(f, s)) = Len(s)
         /\ DOMAIN Mapped(f, s) = 1 .. Len(s)
         /\ \A i \in 1 .. Len(s) : Mapped(f, s)[i] = f[s[i]]
<1> USE DEF IsMap
<1> DEFINE v == Mapped(f, s)
<1>1. DOMAIN s = 1 .. Len(s) /\ Len(s) \in Nat /\ \A i \in 1 .. Len(s) : s[i] \in P
  OBVIOUS
<1>2. v = [i \in 1 .. Len(s) |-> f[s[i]]]
  BY <1>1 DEF Mapped
<1> HIDE DEF v
<1>3. \A i \in 1 .. Len(s) : v[i] \in M
  BY <1>1, <1>2
<1>4. v \in [1 .. Len(s) -> M]
  BY <1>2, <1>3
<1>5. v \in Seq(M) /\ Len(v) = Len(s)
  BY <1>1, <1>4, SeqDef, LenProperties
<1> QED
  BY <1>1, <1>2, <1>5 DEF v

LEMMA MappedAppend ==
  ASSUME NEW P, NEW M, NEW f, IsMap(f, P, M), NEW s \in Seq(P), NEW p \in P
  PROVE  Mapped(f, Append(s, p)) = Append(Mapped(f, s), f[p])
<1> DEFINE n == Len(s)
           a == Append(s, p)
           l == Mapped(f, a)
           v == Mapped(f, s)
           r == Append(v, f[p])
<1>0. \A z \in Seq(P) :
        /\ Mapped(f, z) \in Seq(M) /\ Len(Mapped(f, z)) = Len(z)
        /\ \A i \in 1 .. Len(z) : Mapped(f, z)[i] = f[z[i]]
  BY MappedType
<1>1. n \in Nat /\ f[p] \in M
  BY DEF IsMap
<1>2. a \in Seq(P) /\ Len(a) = n + 1 /\ a[n + 1] = p /\ \A i \in 1 .. n : a[i] = s[i]
  BY AppendProperties
<1> HIDE DEF a
<1>3. l \in Seq(M) /\ Len(l) = n + 1 /\ \A i \in 1 .. n + 1 : l[i] = f[a[i]]
  BY <1>2, <1>0
<1>4. v \in Seq(M) /\ Len(v) = n /\ \A i \in 1 .. n : v[i] = f[s[i]]
  BY <1>0
<1> HIDE DEF l, v
<1>5. r \in Seq(M) /\ Len(r) = n + 1 /\ r[n + 1] = f[p] /\ \A i \in 1 .. n : r[i] = v[i]
  BY <1>1, <1>4, AppendProperties
<1> HIDE DEF n, r
<1>6. ASSUME NEW i \in 1 .. n + 1
      PROVE  l[i] = r[i]
  <2>1. i = n + 1 \/ i \in 1 .. n
    BY <1>1
  <2> QED
    BY <1>2, <1>3, <1>4, <1>5, <2>1
<1> QED
  BY <1>1, <1>3, <1>5, <1>6, SeqEqual DEF a, l, r, v

IsCons(a, p, s) == a = <<p>> \o s

LEMMA MappedCons ==
  ASSUME NEW P, NEW M, NEW f, IsMap(f, P, M), NEW s \in Seq(P), NEW p \in P,
         NEW a, IsCons(a, p, s)
  PROVE  IsCons(Mapped(f, a), f[p], Mapped(f, s))
<1> DEFINE n == Len(s)
           l == Mapped(f, a)
           v == Mapped(f, s)
           x == f[p]
           r == <<x>> \o v
<1>0. \A z \in Seq(P) :
        /\ Mapped(f, z) \in Seq(M) /\ Len(Mapped(f, z)) = Len(z)
        /\ \A i \in 1 .. Len(z) : Mapped(f, z)[i] = f[z[i]]
  BY MappedType
<1>1. n \in Nat /\ x \in M
  BY DEF IsMap
<1>2. a \in Seq(P) /\ Len(a) = n + 1 /\ a[1] = p /\ \A i \in 2 .. n + 1 : a[i] = s[i - 1]
  BY ConsFacts DEF IsCons
<1>3. l \in Seq(M) /\ Len(l) = n + 1 /\ \A i \in 1 .. n + 1 : l[i] = f[a[i]]
  BY <1>2, <1>0
<1>4. v \in Seq(M) /\ Len(v) = n /\ \A i \in 1 .. n : v[i] = f[s[i]]
  BY <1>0
<1>x. x = f[p]
  OBVIOUS
<1> HIDE DEF l, v, x
<1>5. r \in Seq(M) /\ Len(r) = n + 1 /\ r[1] = x /\ \A i \in 2 .. n + 1 : r[i] = v[i - 1]
  BY <1>1, <1>4, ConsFacts
<1> HIDE DEF n, r
<1>6. ASSUME NEW i \in 1 .. n + 1
      PROVE  l[i] = r[i]
  <2>1. CASE i = 1
    BY <1>1, <1>2, <1>3, <1>5, <1>x, <2>1
  <2>2. CASE i # 1
    <3>1. i \in 2 .. n + 1 /\ i - 1 \in 1 .. n
      BY <1>1, <2>2
    <3> QED
      BY <1>2, <1>3, <1>4, <1>5, <3>1
  <2> QED
    BY <2>1, <2>2
<1> QED
  BY <1>1, <1>3, <1>5, <1>6, SeqEqual DEF IsCons, l, r, v, x

-----------------------------------------------------------------------------
(***************************************************************************)
(* Lines: sequences that between them hold each element of A once, and     *)
(* nothing else but None.                                                  *)
(***************************************************************************)
Held1(L, A) ==
  \A s \in DOMAIN L : \A i \in DOMAIN L[s] : L[s][i] \in A \cup {None}
Somewhere(L, A) ==
  \A x \in A : \E s \in DOMAIN L : \E i \in DOMAIN L[s] : L[s][i] = x
Nowhere2(L) ==
  \A s, o \in DOMAIN L : \A i \in DOMAIN L[s] : \A j \in DOMAIN L[o] :
    L[s][i] # None /\ L[s][i] = L[o][j] => s = o /\ i = j
Placed(L, A) == None \notin A /\ Held1(L, A) /\ Somewhere(L, A) /\ Nowhere2(L)

\* The head of a line is taken.
IsPop(L, L2, s, X, x, r) ==
  /\ DOMAIN L2 = DOMAIN L /\ s \in DOMAIN L
  /\ x \in X /\ r \in Seq(X)
  /\ L[s] = <<x>> \o r /\ L2[s] = r
  /\ \A o \in DOMAIN L \ {s} : L2[o] = L[o]

LEMMA Popped ==
  ASSUME NEW X, NEW A, NEW L, NEW L2, NEW s, NEW x, NEW r,
         Placed(L, A), IsPop(L, L2, s, X, x, r)
  PROVE  Placed(L2, A \ {x}) /\ x \in A \cup {None}
<1> USE DEF IsPop
<1> DEFINE n == Len(r)
           l == L[s]
<1>1. n \in Nat /\ DOMAIN r = 1 .. n
  OBVIOUS
<1>2. /\ l \in Seq(X) /\ Len(l) = n + 1 /\ l[1] = x
      /\ \A i \in 2 .. n + 1 : l[i] = r[i - 1]
  BY ConsFacts
<1>3. DOMAIN l = 1 .. n + 1
  BY <1>1, <1>2, LenProperties
<1> HIDE DEF l, n
<1>4. \A i \in 1 .. n : i + 1 \in 2 .. n + 1 /\ i + 1 \in DOMAIN l /\ i + 1 # 1
                        /\ l[i + 1] = r[i]
  <2> SUFFICES ASSUME NEW i \in 1 .. n
               PROVE  i + 1 \in 2 .. n + 1 /\ i + 1 \in DOMAIN l /\ i + 1 # 1
                      /\ l[i + 1] = r[i]
    OBVIOUS
  <2>1. i + 1 \in 2 .. n + 1 /\ i + 1 \in 1 .. n + 1 /\ (i + 1) - 1 = i /\ i + 1 # 1
    BY <1>1
  <2> QED
    BY <1>2, <1>3, <2>1
<1>5. 1 \in DOMAIN l
  BY <1>1, <1>3
<1>6. x \in A \cup {None}
  BY <1>2, <1>5 DEF Placed, Held1, l
<1>7. Held1(L2, A \ {x})
  <2> SUFFICES ASSUME NEW o \in DOMAIN L, NEW i \in DOMAIN L2[o], L2[o][i] # None
               PROVE  L2[o][i] \in A /\ L2[o][i] # x
    BY DEF Held1
  <2>1. CASE o = s
    <3>1. L2[o][i] = l[i + 1] /\ i + 1 \in DOMAIN l /\ i + 1 # 1
      BY <1>1, <1>4, <2>1
    <3> QED
      BY <1>2, <1>5, <3>1 DEF Placed, Held1, Nowhere2, l
  <2>2. CASE o # s
    <3>1. L2[o] = L[o]
      BY <2>2
    <3> QED
      BY <1>2, <1>5, <2>2, <3>1 DEF Placed, Held1, Nowhere2, l
  <2> QED
    BY <2>1, <2>2
<1>8. Somewhere(L2, A \ {x})
  <2> SUFFICES ASSUME NEW y \in A, y # x
               PROVE  \E o \in DOMAIN L2 : \E i \in DOMAIN L2[o] : L2[o][i] = y
    BY DEF Somewhere
  <2>1. PICK o \in DOMAIN L : \E i \in DOMAIN L[o] : L[o][i] = y
    BY DEF Placed, Somewhere
  <2>2. PICK i \in DOMAIN L[o] : L[o][i] = y
    BY <2>1
  <2>3. CASE o = s
    <3>1. i \in 1 .. n + 1 /\ l[i] = y /\ i # 1
      BY <1>2, <1>3, <2>2, <2>3 DEF l
    <3>2. i \in 2 .. n + 1 /\ i - 1 \in 1 .. n
      BY <1>1, <3>1
    <3>3. r[i - 1] = y
      BY <1>2, <3>1, <3>2
    <3> QED
      BY <1>1, <3>2, <3>3
  <2>4. CASE o # s
    BY <2>2, <2>4
  <2> QED
    BY <2>3, <2>4
<1>9. Nowhere2(L2)
  <2> SUFFICES ASSUME NEW o \in DOMAIN L, NEW p \in DOMAIN L,
                      NEW i \in DOMAIN L2[o], NEW j \in DOMAIN L2[p],
                      L2[o][i] # None, L2[o][i] = L2[p][j]
               PROVE  o = p /\ i = j
    BY DEF Nowhere2
  <2> DEFINE a == IF o = s THEN i + 1 ELSE i
             b == IF p = s THEN j + 1 ELSE j
  <2>1. a \in DOMAIN L[o] /\ L[o][a] = L2[o][i] /\ (o = s => i \in 1 .. n)
    BY <1>1, <1>4 DEF l
  <2>2. b \in DOMAIN L[p] /\ L[p][b] = L2[p][j] /\ (p = s => j \in 1 .. n)
    BY <1>1, <1>4 DEF l
  <2>3. o = p /\ a = b
    BY <2>1, <2>2 DEF Placed, Nowhere2
  <2> QED
    BY <1>1, <2>1, <2>2, <2>3
<1> QED
  BY <1>6, <1>7, <1>8, <1>9 DEF Placed

\* A new element joins the end of a line.
IsPush(L, L2, s, X, x) ==
  /\ DOMAIN L2 = DOMAIN L /\ s \in DOMAIN L
  /\ x \in X /\ L[s] \in Seq(X)
  /\ L2[s] = Append(L[s], x)
  /\ \A o \in DOMAIN L \ {s} : L2[o] = L[o]

LEMMA Pushed ==
  ASSUME NEW X, NEW A, NEW L, NEW L2, NEW s, NEW x,
         Placed(L, A), x \notin A, IsPush(L, L2, s, X, x)
  PROVE  Placed(L2, A \cup ({x} \ {None}))
<1> USE DEF IsPush
<1> DEFINE l == L[s]
           n == Len(l)
           m == L2[s]
           B == A \cup ({x} \ {None})
<1>1. n \in Nat /\ DOMAIN l = 1 .. n
  OBVIOUS
<1>2. /\ m \in Seq(X) /\ Len(m) = n + 1 /\ m[n + 1] = x
      /\ \A i \in 1 .. n : m[i] = l[i]
  BY AppendProperties
<1>3. DOMAIN m = 1 .. n + 1
  BY <1>2, LenProperties
<1>b. B = A \cup ({x} \ {None})
  OBVIOUS
<1> HIDE DEF l, m, n, B
<1>4. \A o \in DOMAIN L : \A i \in DOMAIN L2[o] :
        \/ i \in DOMAIN L[o] /\ L2[o][i] = L[o][i] /\ (o = s => i # n + 1)
        \/ o = s /\ i = n + 1 /\ L2[o][i] = x
  <2> SUFFICES ASSUME NEW o \in DOMAIN L, NEW i \in DOMAIN L2[o]
               PROVE  \/ i \in DOMAIN L[o] /\ L2[o][i] = L[o][i] /\ (o = s => i # n + 1)
                      \/ o = s /\ i = n + 1 /\ L2[o][i] = x
    OBVIOUS
  <2>1. CASE o # s
    BY <2>1
  <2>2. CASE o = s
    <3>1. i \in 1 .. n + 1
      BY <1>3, <2>2 DEF m
    <3>2. i = n + 1 \/ (i \in 1 .. n /\ i # n + 1)
      BY <1>1, <3>1
    <3> QED
      BY <1>1, <1>2, <2>2, <3>2 DEF l, m
  <2> QED
    BY <2>1, <2>2
<1>5. \A o \in DOMAIN L : \A i \in DOMAIN L[o] : i \in DOMAIN L2[o] /\ L2[o][i] = L[o][i]
  <2> SUFFICES ASSUME NEW o \in DOMAIN L, NEW i \in DOMAIN L[o]
               PROVE  i \in DOMAIN L2[o] /\ L2[o][i] = L[o][i]
    OBVIOUS
  <2>1. CASE o # s
    BY <2>1
  <2>2. CASE o = s
    <3>1. i \in 1 .. n
      BY <1>1, <2>2 DEF l
    <3>2. i \in 1 .. n + 1
      BY <1>1, <3>1
    <3> QED
      BY <1>2, <1>3, <2>2, <3>1, <3>2 DEF l, m
  <2> QED
    BY <2>1, <2>2
<1>6. Held1(L2, B)
  BY <1>4, <1>b DEF Placed, Held1
<1>7. Somewhere(L2, B)
  <2>1. n + 1 \in DOMAIN L2[s] /\ L2[s][n + 1] = x
    BY <1>1, <1>2, <1>3 DEF m
  <2> SUFFICES ASSUME NEW y \in B
               PROVE  \E o \in DOMAIN L2 : \E i \in DOMAIN L2[o] : L2[o][i] = y
    BY DEF Somewhere
  <2>2. CASE y = x
    BY <2>1, <2>2
  <2>3. CASE y \in A
    <3>1. PICK o \in DOMAIN L : \E i \in DOMAIN L[o] : L[o][i] = y
      BY <2>3 DEF Placed, Somewhere
    <3> QED
      BY <1>5, <3>1
  <2> QED
    BY <1>b, <2>2, <2>3
<1>8. Nowhere2(L2)
  <2> SUFFICES ASSUME NEW o \in DOMAIN L, NEW p \in DOMAIN L,
                      NEW i \in DOMAIN L2[o], NEW j \in DOMAIN L2[p],
                      L2[o][i] # None, L2[o][i] = L2[p][j]
               PROVE  o = p /\ i = j
    BY DEF Nowhere2
  <2>1. CASE o = s /\ i = n + 1 /\ L2[o][i] = x
    <3>1. ~(j \in DOMAIN L[p] /\ L2[p][j] = L[p][j])
      BY <2>1 DEF Placed, Held1
    <3> QED
      BY <1>4, <2>1, <3>1
  <2>2. CASE p = s /\ j = n + 1 /\ L2[p][j] = x
    <3>1. ~(i \in DOMAIN L[o] /\ L2[o][i] = L[o][i])
      BY <2>2 DEF Placed, Held1
    <3> QED
      BY <1>4, <2>2, <3>1
  <2>3. CASE /\ i \in DOMAIN L[o] /\ L2[o][i] = L[o][i]
             /\ j \in DOMAIN L[p] /\ L2[p][j] = L[p][j]
    <3>1. /\ i \in DOMAIN L[o] /\ j \in DOMAIN L[p]
          /\ L[o][i] # None /\ L[o][i] = L[p][j]
      BY <2>3
    <3> QED
      BY <3>1 DEF Placed, Nowhere2
  <2> QED
    BY <1>4, <2>1, <2>2, <2>3
<1>9. None \notin B
  BY <1>b DEF Placed
<1> QED
  BY <1>6, <1>7, <1>8, <1>9 DEF Placed, B

\* The head of one line goes to the end of another.
IsMove(L, L2, s, d, X, x, r) ==
  /\ DOMAIN L2 = DOMAIN L /\ s \in DOMAIN L /\ d \in DOMAIN L /\ s # d
  /\ x \in X /\ r \in Seq(X)
  /\ L[s] = <<x>> \o r /\ L2[s] = r
  /\ L[d] \in Seq(X) /\ L2[d] = Append(L[d], x)
  /\ \A o \in DOMAIN L \ {s, d} : L2[o] = L[o]

LEMMA Moved ==
  ASSUME NEW X, NEW A, NEW L, NEW L2, NEW s, NEW d, NEW x, NEW r,
         Placed(L, A), IsMove(L, L2, s, d, X, x, r)
  PROVE  Placed(L2, A) /\ x \in A \cup {None}
<1> DEFINE M == [o \in DOMAIN L |-> IF o = s THEN r ELSE L[o]]
<1>1. /\ DOMAIN M = DOMAIN L /\ (s \in DOMAIN L => M[s] = r)
      /\ \A o \in DOMAIN L \ {s} : M[o] = L[o]
  OBVIOUS
<1> HIDE DEF M
<1>2. IsPop(L, M, s, X, x, r)
  BY <1>1 DEF IsPop, IsMove
<1>3. Placed(M, A \ {x}) /\ x \in A \cup {None}
  BY <1>2, Popped
<1>4. IsPush(M, L2, d, X, x)
  BY <1>1 DEF IsPush, IsMove
<1>5. Placed(L2, (A \ {x}) \cup ({x} \ {None}))
  <2>1. x \notin A \ {x}
    OBVIOUS
  <2> QED
    BY <1>3, <1>4, <2>1, Pushed
<1>6. (A \ {x}) \cup ({x} \ {None}) = A
  BY <1>3 DEF Placed
<1> QED
  BY <1>3, <1>5, <1>6

\* More lines, all empty.
LEMMA Added ==
  ASSUME NEW A, NEW L, NEW L2, Placed(L, A), DOMAIN L \subseteq DOMAIN L2,
         \A s \in DOMAIN L : L2[s] = L[s],
         \A s \in DOMAIN L2 \ DOMAIN L : L2[s] = <<>>
  PROVE  Placed(L2, A)
<1>1. \A s \in DOMAIN L2 : \A i \in DOMAIN L2[s] : s \in DOMAIN L /\ L2[s] = L[s]
  OBVIOUS
<1>2. Held1(L2, A)
  BY <1>1 DEF Placed, Held1
<1>3. Somewhere(L2, A)
  BY <1>1 DEF Placed, Somewhere
<1>4. Nowhere2(L2)
  BY <1>1 DEF Placed, Nowhere2
<1> QED
  BY <1>2, <1>3, <1>4 DEF Placed

\* Two lines change places.
LEMMA Swapped ==
  ASSUME NEW A, NEW L, NEW L2, Placed(L, A), DOMAIN L2 = DOMAIN L,
         NEW s \in DOMAIN L, NEW d \in DOMAIN L, s # d,
         L2[s] = L[d], L2[d] = L[s],
         \A o \in DOMAIN L \ {s, d} : L2[o] = L[o]
  PROVE  Placed(L2, A)
<1> DEFINE f(o) == IF o = s THEN d ELSE IF o = d THEN s ELSE o
<1>1. \A o \in DOMAIN L : f(o) \in DOMAIN L /\ L2[o] = L[f(o)] /\ L2[f(o)] = L[o]
  OBVIOUS
<1>2. \A o, p \in DOMAIN L : f(o) = f(p) => o = p
  OBVIOUS
<1> HIDE DEF f
<1>3. Held1(L2, A)
  BY <1>1 DEF Placed, Held1
<1>4. Somewhere(L2, A)
  BY <1>1 DEF Placed, Somewhere
<1>5. Nowhere2(L2)
  <2> SUFFICES ASSUME NEW o \in DOMAIN L, NEW p \in DOMAIN L,
                      NEW i \in DOMAIN L2[o], NEW j \in DOMAIN L2[p],
                      L2[o][i] # None, L2[o][i] = L2[p][j]
               PROVE  o = p /\ i = j
    BY DEF Nowhere2
  <2>1. f(o) = f(p) /\ i = j
    BY <1>1 DEF Placed, Nowhere2
  <2> QED
    BY <1>2, <2>1
<1> QED
  BY <1>3, <1>4, <1>5 DEF Placed

-----------------------------------------------------------------------------
(***************************************************************************)
(* The lines the tasks of a group stand in.  The fourth holds the waiters  *)
(* wake has yet to look at, and is empty between steps.                    *)
(***************************************************************************)
AtCur == <<"cur", 0>>
AtReady == <<"ready", 0>>
AtWaiting == <<"waiting", 0>>
AtLeft == <<"left", 0>>
AtSender(c) == <<"sender", c>>
AtReceiver(c) == <<"receiver", c>>
Sites(n) == {AtCur, AtReady, AtWaiting, AtLeft}
              \cup {AtSender(c) : c \in 1 .. n} \cup {AtReceiver(c) : c \in 1 .. n}

TaskOf == [e \in Entries |-> e.task]
SenderOf == [o \in Offers |-> o[2]]

TaskLines(cu, re, wa, le, ch) ==
  [s \in Sites(Len(ch)) |->
     IF s = AtCur THEN IF cu = None THEN <<>> ELSE <<cu>>
     ELSE IF s = AtReady THEN Mapped(TaskOf, Contents(re))
     ELSE IF s = AtWaiting THEN wa
     ELSE IF s = AtLeft THEN le
     ELSE IF s[1] = "sender" THEN Mapped(SenderOf, Contents(ch[s[2]].senders))
     ELSE Contents(ch[s[2]].receivers)]

Standing(cu, re, wa, le, ch) ==
  /\ cu \in Tasks \cup {None} /\ re \in Queues(Entries)
  /\ wa \in Seq(Tasks) /\ le \in Seq(Tasks) /\ ch \in Seq(Channels)

LEMMA SitesDiffer ==
  /\ AtCur # AtReady /\ AtCur # AtWaiting /\ AtCur # AtLeft
  /\ AtReady # AtWaiting /\ AtReady # AtLeft /\ AtWaiting # AtLeft
  /\ \A c : /\ AtSender(c) \notin {AtCur, AtReady, AtWaiting, AtLeft}
            /\ AtReceiver(c) \notin {AtCur, AtReady, AtWaiting, AtLeft}
            /\ AtSender(c)[1] = "sender" /\ AtReceiver(c)[1] # "sender"
            /\ AtSender(c)[2] = c /\ AtReceiver(c)[2] = c
  /\ \A c, d : /\ AtSender(c) # AtReceiver(d)
               /\ AtSender(c) = AtSender(d) => c = d
               /\ AtReceiver(c) = AtReceiver(d) => c = d
<1>1. "cur" # "ready" /\ "cur" # "waiting" /\ "cur" # "left" /\ "ready" # "waiting"
      /\ "ready" # "left" /\ "waiting" # "left" /\ "sender" # "receiver"
  OBVIOUS
<1>2. /\ "sender" # "cur" /\ "sender" # "ready" /\ "sender" # "waiting" /\ "sender" # "left"
      /\ "receiver" # "cur" /\ "receiver" # "ready" /\ "receiver" # "waiting"
      /\ "receiver" # "left"
  OBVIOUS
<1> QED
  BY <1>1, <1>2 DEF AtCur, AtReady, AtWaiting, AtLeft, AtSender, AtReceiver

LEMMA MapsAre == IsMap(TaskOf, Entries, Tasks) /\ IsMap(SenderOf, Offers, Tasks)
<1>1. \A e \in Entries : e.task \in Tasks
  BY DEF Entries
<1>2. \A o \in Offers : o[2] \in Tasks
  BY DEF Offers
<1> QED
  BY <1>1, <1>2 DEF IsMap, TaskOf, SenderOf

\* What each line is.
AreLines(L, cu, re, wa, le, ch) ==
  /\ DOMAIN L = Sites(Len(ch))
  /\ AtCur \in DOMAIN L /\ AtReady \in DOMAIN L /\ AtWaiting \in DOMAIN L
  /\ AtLeft \in DOMAIN L
  /\ L[AtCur] = IF cu = None THEN <<>> ELSE <<cu>>
  /\ L[AtReady] = Mapped(TaskOf, Contents(re))
  /\ L[AtWaiting] = wa
  /\ L[AtLeft] = le
  /\ \A c \in 1 .. Len(ch) :
       /\ AtSender(c) \in DOMAIN L /\ AtReceiver(c) \in DOMAIN L
       /\ L[AtSender(c)] = Mapped(SenderOf, Contents(ch[c].senders))
       /\ L[AtReceiver(c)] = Contents(ch[c].receivers)
  /\ \A s \in DOMAIN L : L[s] \in Seq(Tasks)
  /\ \A s \in DOMAIN L : \/ s \in {AtCur, AtReady, AtWaiting, AtLeft}
                         \/ \E c \in 1 .. Len(ch) : s = AtSender(c) \/ s = AtReceiver(c)

LEMMA TaskLine ==
  ASSUME NEW cu, NEW re, NEW wa, NEW le, NEW ch, Standing(cu, re, wa, le, ch)
  PROVE  AreLines(TaskLines(cu, re, wa, le, ch), cu, re, wa, le, ch)
<1> DEFINE L == TaskLines(cu, re, wa, le, ch)
<1>1. DOMAIN L = Sites(Len(ch))
  BY DEF TaskLines
<1>2. /\ AtCur \in DOMAIN L /\ AtReady \in DOMAIN L /\ AtWaiting \in DOMAIN L
      /\ AtLeft \in DOMAIN L
      /\ \A c \in 1 .. Len(ch) : AtSender(c) \in DOMAIN L /\ AtReceiver(c) \in DOMAIN L
  BY <1>1 DEF Sites
<1>3. /\ L[AtCur] = IF cu = None THEN <<>> ELSE <<cu>>
      /\ L[AtReady] = Mapped(TaskOf, Contents(re))
      /\ L[AtWaiting] = wa
      /\ L[AtLeft] = le
  <2>1. L[AtCur] = IF cu = None THEN <<>> ELSE <<cu>>
    BY <1>1, <1>2 DEF TaskLines
  <2>2. L[AtReady] = Mapped(TaskOf, Contents(re))
    BY <1>1, <1>2, SitesDiffer DEF TaskLines
  <2>3. L[AtWaiting] = wa
    BY <1>1, <1>2, SitesDiffer DEF TaskLines
  <2>4. L[AtLeft] = le
    BY <1>1, <1>2, SitesDiffer DEF TaskLines
  <2> QED
    BY <2>1, <2>2, <2>3, <2>4
<1>4. ASSUME NEW c \in 1 .. Len(ch)
      PROVE  /\ L[AtSender(c)] = Mapped(SenderOf, Contents(ch[c].senders))
             /\ L[AtReceiver(c)] = Contents(ch[c].receivers)
  BY <1>1, <1>2, SitesDiffer DEF TaskLines
<1>5. \A s \in DOMAIN L : \/ s \in {AtCur, AtReady, AtWaiting, AtLeft}
                          \/ \E c \in 1 .. Len(ch) : s = AtSender(c) \/ s = AtReceiver(c)
  BY <1>1 DEF Sites
<1>6. L[AtCur] \in Seq(Tasks)
  <2>1. CASE cu = None
    BY <1>3, <2>1
  <2>2. CASE cu # None
    BY <1>3, <2>2 DEF Standing
  <2> QED
    BY <2>1, <2>2
<1>7. L[AtReady] \in Seq(Tasks)
  <2>1. Contents(re) \in Seq(Entries)
    BY ContentsType DEF Standing
  <2> QED
    BY <1>3, <2>1, MapsAre, MappedType
<1>8. ASSUME NEW c \in 1 .. Len(ch)
      PROVE  L[AtSender(c)] \in Seq(Tasks) /\ L[AtReceiver(c)] \in Seq(Tasks)
  <2>1. ch[c] \in Channels
    BY ElementOfSeq DEF Standing
  <2>2. Contents(ch[c].senders) \in Seq(Offers) /\ Contents(ch[c].receivers) \in Seq(Tasks)
    BY <2>1, Held, ContentsType
  <2> QED
    BY <1>4, <2>2, MapsAre, MappedType
<1>9. L[AtWaiting] \in Seq(Tasks) /\ L[AtLeft] \in Seq(Tasks)
  BY <1>3 DEF Standing
<1>10. \A s \in DOMAIN L : L[s] \in Seq(Tasks)
  BY <1>5, <1>6, <1>7, <1>8, <1>9
<1> HIDE DEF L
<1>11. AreLines(L, cu, re, wa, le, ch)
  BY <1>1, <1>2, <1>3, <1>4, <1>5, <1>10 DEF AreLines
<1> QED
  BY <1>11 DEF L

\* A line is as it was if what it shows is.
LEMMA OtherLines ==
  ASSUME NEW L, NEW L2,
         NEW cu, NEW re, NEW wa, NEW le, NEW ch, AreLines(L, cu, re, wa, le, ch),
         NEW cu2, NEW re2, NEW wa2, NEW le2, NEW ch2, AreLines(L2, cu2, re2, wa2, le2, ch2),
         Len(ch2) = Len(ch)
  PROVE  /\ DOMAIN L2 = DOMAIN L
         /\ cu2 = cu => L2[AtCur] = L[AtCur]
         /\ re2 = re => L2[AtReady] = L[AtReady]
         /\ wa2 = wa => L2[AtWaiting] = L[AtWaiting]
         /\ le2 = le => L2[AtLeft] = L[AtLeft]
         /\ \A o \in DOMAIN L :
              \/ o = AtCur \/ o = AtReady \/ o = AtWaiting \/ o = AtLeft
              \/ \E c \in 1 .. Len(ch) :
                   \/ o = AtSender(c) /\ (ch2[c].senders = ch[c].senders => L2[o] = L[o])
                   \/ o = AtReceiver(c) /\ (ch2[c].receivers = ch[c].receivers => L2[o] = L[o])
<1>1. DOMAIN L2 = DOMAIN L
  BY DEF AreLines
<1>2. /\ cu2 = cu => L2[AtCur] = L[AtCur]
      /\ re2 = re => L2[AtReady] = L[AtReady]
      /\ wa2 = wa => L2[AtWaiting] = L[AtWaiting]
      /\ le2 = le => L2[AtLeft] = L[AtLeft]
  BY DEF AreLines
<1>3. ASSUME NEW o \in DOMAIN L, o # AtCur, o # AtReady, o # AtWaiting, o # AtLeft
      PROVE  \E c \in 1 .. Len(ch) :
               \/ o = AtSender(c) /\ (ch2[c].senders = ch[c].senders => L2[o] = L[o])
               \/ o = AtReceiver(c) /\ (ch2[c].receivers = ch[c].receivers => L2[o] = L[o])
  <2>1. PICK c \in 1 .. Len(ch) : o = AtSender(c) \/ o = AtReceiver(c)
    BY <1>3 DEF AreLines
  <2>2. CASE o = AtSender(c)
    <3>1. /\ L[o] = Mapped(SenderOf, Contents(ch[c].senders))
          /\ L2[o] = Mapped(SenderOf, Contents(ch2[c].senders))
      BY <2>2 DEF AreLines
    <3> QED
      BY <2>2, <3>1
  <2>3. CASE o = AtReceiver(c)
    <3>1. /\ L[o] = Contents(ch[c].receivers)
          /\ L2[o] = Contents(ch2[c].receivers)
      BY <2>3 DEF AreLines
    <3> QED
      BY <2>3, <3>1
  <2> QED
    BY <2>1, <2>2, <2>3
<1> QED
  BY <1>1, <1>2, <1>3

LEMMA ReadyPushed ==
  ASSUME NEW re \in Queues(Entries), NEW e \in Entries
  PROVE  /\ q_push(re, e) \in Queues(Entries)
         /\ Mapped(TaskOf, Contents(q_push(re, e)))
              = Append(Mapped(TaskOf, Contents(re)), e.task)
<1>1. q_push(re, e) \in Queues(Entries)
      /\ Contents(q_push(re, e)) = Append(Contents(re), e)
  BY QueuePush
<1>2. Contents(re) \in Seq(Entries) /\ TaskOf[e] = e.task
  BY ContentsType DEF TaskOf
<1> QED
  BY <1>1, <1>2, MapsAre, MappedAppend

LEMMA ReadyPopped ==
  ASSUME NEW re \in Queues(Entries), q_has(re), NEW p, p = q_pop(re)
  PROVE  /\ p.x \in Entries /\ p.x.task \in Tasks /\ p.rest \in Queues(Entries)
         /\ Mapped(TaskOf, Contents(re))
              = <<p.x.task>> \o Mapped(TaskOf, Contents(p.rest))
<1>1. p.x \in Entries /\ p.rest \in Queues(Entries)
      /\ Contents(re) = <<p.x>> \o Contents(p.rest)
  BY QueuePop
<1>2. Contents(p.rest) \in Seq(Entries) /\ TaskOf[p.x] = p.x.task /\ p.x.task \in Tasks
  BY <1>1, ContentsType DEF TaskOf, Entries
<1> DEFINE e == p.x
           z == Contents(p.rest)
           a == Contents(re)
<1>3. e \in Entries /\ z \in Seq(Entries) /\ IsCons(a, e, z)
  BY <1>1, <1>2 DEF IsCons
<1> HIDE DEF e, z, a
<1>4. IsCons(Mapped(TaskOf, a), TaskOf[e], Mapped(TaskOf, z))
  BY <1>3, MapsAre, MappedCons
<1> QED
  BY <1>1, <1>2, <1>4 DEF IsCons, e, z, a

\* The next ready task has its turn.
LEMMA TurnBegins ==
  ASSUME NEW A, NEW re, NEW wa, NEW le, NEW ch, Standing(None, re, wa, le, ch),
         Placed(TaskLines(None, re, wa, le, ch), A), q_has(re), NEW p, p = q_pop(re)
  PROVE  /\ Standing(p.x.task, p.rest, wa, le, ch)
         /\ Placed(TaskLines(p.x.task, p.rest, wa, le, ch), A)
<1> DEFINE t == p.x.task
           L == TaskLines(None, re, wa, le, ch)
           L2 == TaskLines(t, p.rest, wa, le, ch)
           r == Mapped(TaskOf, Contents(p.rest))
<1>1. /\ t \in Tasks /\ p.rest \in Queues(Entries)
      /\ Mapped(TaskOf, Contents(re)) = <<t>> \o r
  BY ReadyPopped DEF Standing
<1>2. Standing(t, p.rest, wa, le, ch)
  BY <1>1 DEF Standing
<1>3. t # None
  BY <1>1, AsyncAssumption
<1>a. AreLines(L, None, re, wa, le, ch)
  BY TaskLine
<1>b. AreLines(L2, t, p.rest, wa, le, ch)
  BY <1>2, TaskLine
<1>c. Placed(L, A)
  OBVIOUS
<1> HIDE DEF L, L2, r, t
<1>4. IsMove(L, L2, AtReady, AtCur, Tasks, t, r)
  <2>1. r \in Seq(Tasks)
    BY <1>b DEF AreLines, r
  <2>2. L[AtReady] = <<t>> \o r /\ L2[AtReady] = r
    BY <1>1, <1>a, <1>b DEF AreLines, r
  <2>3. L[AtCur] = <<>> /\ L2[AtCur] = <<t>>
    BY <1>3, <1>a, <1>b DEF AreLines
  <2>4. <<>> \in Seq(Tasks) /\ Append(<<>>, t) = <<t>>
    BY <1>1
  <2>5. DOMAIN L2 = DOMAIN L /\ \A o \in DOMAIN L \ {AtReady, AtCur} : L2[o] = L[o]
    BY <1>a, <1>b, OtherLines
  <2>6. AtReady \in DOMAIN L /\ AtCur \in DOMAIN L /\ AtReady # AtCur
    BY <1>a, SitesDiffer DEF AreLines
  <2> QED
    BY <1>1, <2>1, <2>2, <2>3, <2>4, <2>5, <2>6 DEF IsMove
<1>5. Placed(L2, A)
  BY <1>4, <1>c, Moved
<1> QED
  BY <1>2, <1>5 DEF t, L2

\* A turn ends: the task is in no line any more.
LEMMA TurnEnds ==
  ASSUME NEW A, NEW t \in Tasks, NEW re, NEW wa, NEW le, NEW ch,
         Standing(t, re, wa, le, ch), Placed(TaskLines(t, re, wa, le, ch), A)
  PROVE  /\ Standing(None, re, wa, le, ch)
         /\ Placed(TaskLines(None, re, wa, le, ch), A \ {t})
         /\ t \in A
<1> DEFINE L == TaskLines(t, re, wa, le, ch)
           L2 == TaskLines(None, re, wa, le, ch)
<1>1. Standing(None, re, wa, le, ch)
  BY DEF Standing
<1>2. t # None
  BY AsyncAssumption
<1>a. AreLines(L, t, re, wa, le, ch)
  BY TaskLine
<1>b. AreLines(L2, None, re, wa, le, ch)
  BY <1>1, TaskLine
<1>c. Placed(L, A)
  OBVIOUS
<1> HIDE DEF L, L2
<1>3. IsPop(L, L2, AtCur, Tasks, t, <<>>)
  <2>1. L[AtCur] = <<t>> /\ L2[AtCur] = <<>>
    BY <1>2, <1>a, <1>b DEF AreLines
  <2>2. <<>> \in Seq(Tasks) /\ <<t>> = <<t>> \o <<>>
    OBVIOUS
  <2>3. DOMAIN L2 = DOMAIN L /\ \A o \in DOMAIN L \ {AtCur} : L2[o] = L[o]
    BY <1>a, <1>b, OtherLines
  <2>4. AtCur \in DOMAIN L
    BY <1>a DEF AreLines
  <2> QED
    BY <2>1, <2>2, <2>3, <2>4 DEF IsPop
<1>4. Placed(L2, A \ {t}) /\ t \in A \cup {None}
  BY <1>3, <1>c, Popped
<1> QED
  BY <1>1, <1>2, <1>4 DEF L2

\* The tasks are not None.
LEMMA WithTask ==
  ASSUME NEW A, NEW t \in Tasks
  PROVE  A \cup ({t} \ {None}) = A \cup {t}
<1>1. t # None
  BY AsyncAssumption
<1> QED
  BY <1>1

\* A task joins the ready queue.
LEMMA JoinsReady ==
  ASSUME NEW A, NEW cu, NEW re, NEW wa, NEW le, NEW ch, Standing(cu, re, wa, le, ch),
         Placed(TaskLines(cu, re, wa, le, ch), A), NEW e \in Entries, e.task \notin A
  PROVE  /\ Standing(cu, q_push(re, e), wa, le, ch)
         /\ Placed(TaskLines(cu, q_push(re, e), wa, le, ch), A \cup {e.task})
<1> DEFINE t == e.task
           re2 == q_push(re, e)
           L == TaskLines(cu, re, wa, le, ch)
           L2 == TaskLines(cu, re2, wa, le, ch)
<1>1. /\ t \in Tasks /\ re2 \in Queues(Entries)
      /\ Mapped(TaskOf, Contents(re2)) = Append(Mapped(TaskOf, Contents(re)), t)
  BY ReadyPushed DEF Standing, Entries
<1> HIDE DEF t, re2
<1>2. Standing(cu, re2, wa, le, ch)
  BY <1>1 DEF Standing
<1>a. AreLines(L, cu, re, wa, le, ch)
  BY TaskLine
<1>b. AreLines(L2, cu, re2, wa, le, ch)
  BY <1>2, TaskLine
<1>c. Placed(L, A) /\ t \notin A
  BY DEF t
<1> HIDE DEF L, L2
<1>3. IsPush(L, L2, AtReady, Tasks, t)
  <2>1. /\ AtReady \in DOMAIN L /\ L[AtReady] \in Seq(Tasks)
        /\ L2[AtReady] = Append(L[AtReady], t)
    BY <1>1, <1>a, <1>b DEF AreLines
  <2>2. DOMAIN L2 = DOMAIN L /\ \A o \in DOMAIN L \ {AtReady} : L2[o] = L[o]
    BY <1>a, <1>b, OtherLines
  <2> QED
    BY <1>1, <2>1, <2>2 DEF IsPush
<1>4. Placed(L2, A \cup ({t} \ {None}))
  BY <1>c, <1>3, Pushed
<1> QED
  BY <1>1, <1>2, <1>4, WithTask DEF t, re2, L2

\* A task joins those that wait for a descriptor.
LEMMA JoinsWaiting ==
  ASSUME NEW A, NEW cu, NEW re, NEW wa, NEW le, NEW ch, Standing(cu, re, wa, le, ch),
         Placed(TaskLines(cu, re, wa, le, ch), A), NEW t \in Tasks, t \notin A,
         NEW wa2, wa2 = Append(wa, t)
  PROVE  /\ Standing(cu, re, wa2, le, ch)
         /\ Placed(TaskLines(cu, re, wa2, le, ch), A \cup {t})
<1> DEFINE L == TaskLines(cu, re, wa, le, ch)
           L2 == TaskLines(cu, re, wa2, le, ch)
<1>1. wa2 \in Seq(Tasks) /\ wa2 = Append(wa, t)
  BY DEF Standing
<1>2. Standing(cu, re, wa2, le, ch)
  BY <1>1 DEF Standing
<1>a. AreLines(L, cu, re, wa, le, ch)
  BY TaskLine
<1>b. AreLines(L2, cu, re, wa2, le, ch)
  BY <1>2, TaskLine
<1>c. Placed(L, A)
  OBVIOUS
<1> HIDE DEF L, L2
<1>3. IsPush(L, L2, AtWaiting, Tasks, t)
  <2>1. /\ AtWaiting \in DOMAIN L /\ L[AtWaiting] \in Seq(Tasks)
        /\ L2[AtWaiting] = Append(L[AtWaiting], t)
    BY <1>1, <1>a, <1>b DEF AreLines
  <2>2. DOMAIN L2 = DOMAIN L /\ \A o \in DOMAIN L \ {AtWaiting} : L2[o] = L[o]
    BY <1>a, <1>b, OtherLines
  <2> QED
    BY <2>1, <2>2 DEF IsPush
<1>4. Placed(L2, A \cup ({t} \ {None}))
  BY <1>c, <1>3, Pushed
<1> QED
  BY <1>2, <1>4, WithTask DEF L2

\* The next of the waiters wake has yet to look at.
LEMMA LeavesLeft ==
  ASSUME NEW A, NEW cu, NEW re, NEW wa, NEW le, NEW ch, Standing(cu, re, wa, le, ch),
         Placed(TaskLines(cu, re, wa, le, ch), A),
         NEW t \in Tasks, NEW r \in Seq(Tasks), IsCons(le, t, r)
  PROVE  /\ Standing(cu, re, wa, r, ch)
         /\ Placed(TaskLines(cu, re, wa, r, ch), A \ {t})
         /\ t \in A
<1> DEFINE L == TaskLines(cu, re, wa, le, ch)
           L2 == TaskLines(cu, re, wa, r, ch)
<1>2. Standing(cu, re, wa, r, ch)
  BY DEF Standing
<1>a. AreLines(L, cu, re, wa, le, ch)
  BY TaskLine
<1>b. AreLines(L2, cu, re, wa, r, ch)
  BY <1>2, TaskLine
<1>c. Placed(L, A)
  OBVIOUS
<1> HIDE DEF L, L2
<1>3. IsPop(L, L2, AtLeft, Tasks, t, r)
  <2>1. AtLeft \in DOMAIN L /\ L[AtLeft] = <<t>> \o r /\ L2[AtLeft] = r
    BY <1>a, <1>b DEF AreLines, IsCons
  <2>2. DOMAIN L2 = DOMAIN L /\ \A o \in DOMAIN L \ {AtLeft} : L2[o] = L[o]
    BY SMTT(30), <1>a, <1>b, OtherLines
  <2> QED
    BY <2>1, <2>2 DEF IsPop
<1>4. Placed(L2, A \ {t}) /\ t \in A \cup {None}
  BY <1>c, <1>3, Popped
<1>5. t # None
  BY AsyncAssumption
<1> QED
  BY <1>2, <1>4, <1>5 DEF L2

\* wake begins: all waiters are left to look at.
LEMMA AllLeft ==
  ASSUME NEW A, NEW cu, NEW re, NEW wa, NEW ch, Standing(cu, re, wa, <<>>, ch),
         Placed(TaskLines(cu, re, wa, <<>>, ch), A)
  PROVE  /\ Standing(cu, re, <<>>, wa, ch)
         /\ Placed(TaskLines(cu, re, <<>>, wa, ch), A)
<1> DEFINE L == TaskLines(cu, re, wa, <<>>, ch)
           L2 == TaskLines(cu, re, <<>>, wa, ch)
<1>2. Standing(cu, re, <<>>, wa, ch)
  BY DEF Standing
<1>a. AreLines(L, cu, re, wa, <<>>, ch)
  BY TaskLine
<1>b. AreLines(L2, cu, re, <<>>, wa, ch)
  BY <1>2, TaskLine
<1>c. Placed(L, A)
  OBVIOUS
<1> HIDE DEF L, L2
<1>3. /\ AtWaiting \in DOMAIN L /\ AtLeft \in DOMAIN L /\ AtWaiting # AtLeft
      /\ L2[AtWaiting] = L[AtLeft] /\ L2[AtLeft] = L[AtWaiting]
  BY <1>a, <1>b, SitesDiffer DEF AreLines
<1>4. DOMAIN L2 = DOMAIN L /\ \A o \in DOMAIN L \ {AtWaiting, AtLeft} : L2[o] = L[o]
  BY <1>a, <1>b, OtherLines
<1>5. Placed(L2, A)
  BY <1>c, <1>3, <1>4, Swapped
<1> QED
  BY <1>2, <1>5 DEF L2

\* One channel changes.
OneChanged(ch, ch2, c, k) ==
  /\ ch \in Seq(Channels) /\ c \in 1 .. Len(ch) /\ k \in Channels
  /\ ch2 = [ch EXCEPT ![c] = k]

LEMMA OneChangedFacts ==
  ASSUME NEW ch, NEW ch2, NEW c, NEW k, OneChanged(ch, ch2, c, k)
  PROVE  /\ ch2 \in Seq(Channels) /\ Len(ch2) = Len(ch) /\ ch2[c] = k
         /\ ch[c] \in Channels
         /\ \A d \in 1 .. Len(ch) : d # c => ch2[d] = ch[d]
<1>1. DOMAIN ch = 1 .. Len(ch) /\ \A d \in 1 .. Len(ch) : ch[d] \in Channels
  BY DEF OneChanged
<1>2. ch2 \in Seq(Channels) /\ Len(ch2) = Len(ch)
  BY ExceptSeq DEF OneChanged
<1>3. ch2[c] = k /\ \A d \in 1 .. Len(ch) : d # c => ch2[d] = ch[d]
  BY <1>1 DEF OneChanged
<1> QED
  BY <1>1, <1>2, <1>3 DEF OneChanged

\* A parked receiver leaves its channel.
LEMMA LeavesReceivers ==
  ASSUME NEW A, NEW cu, NEW re, NEW wa, NEW le, NEW ch, Standing(cu, re, wa, le, ch),
         Placed(TaskLines(cu, re, wa, le, ch), A),
         NEW ch2, NEW c, NEW k, OneChanged(ch, ch2, c, k),
         k.senders = ch[c].senders, q_has(ch[c].receivers),
         NEW p, p = q_pop(ch[c].receivers), k.receivers = p.rest
  PROVE  /\ Standing(cu, re, wa, le, ch2)
         /\ Placed(TaskLines(cu, re, wa, le, ch2), A \ {p.x})
         /\ p.x \in A /\ p.x \in Tasks
<1> DEFINE L == TaskLines(cu, re, wa, le, ch)
           L2 == TaskLines(cu, re, wa, le, ch2)
           t == p.x
           r == Contents(p.rest)
<1>0. /\ ch2 \in Seq(Channels) /\ Len(ch2) = Len(ch) /\ ch2[c] = k
      /\ ch[c] \in Channels /\ c \in 1 .. Len(ch)
      /\ \A d \in 1 .. Len(ch) : d # c => ch2[d] = ch[d]
  BY OneChangedFacts DEF OneChanged
<1>1. /\ t \in Tasks /\ r \in Seq(Tasks)
      /\ Contents(ch[c].receivers) = <<t>> \o r
  <2>1. ch[c].receivers \in Queues(Tasks)
    BY <1>0, Held
  <2>2. p.x \in Tasks /\ p.rest \in Queues(Tasks)
        /\ Contents(ch[c].receivers) = <<p.x>> \o Contents(p.rest)
    BY <2>1, QueuePop
  <2> QED
    BY <2>2, ContentsType
<1>2. Standing(cu, re, wa, le, ch2)
  BY <1>0 DEF Standing
<1>a. AreLines(L, cu, re, wa, le, ch)
  BY TaskLine
<1>b. AreLines(L2, cu, re, wa, le, ch2)
  BY <1>2, TaskLine
<1>c. Placed(L, A) /\ Contents(k.receivers) = r
  OBVIOUS
<1> HIDE DEF L, L2, t, r
<1>3. IsPop(L, L2, AtReceiver(c), Tasks, t, r)
  <2>1. /\ AtReceiver(c) \in DOMAIN L /\ L[AtReceiver(c)] = <<t>> \o r
        /\ L2[AtReceiver(c)] = r
    BY <1>0, <1>1, <1>a, <1>b, <1>c DEF AreLines
  <2>2. DOMAIN L2 = DOMAIN L /\ \A o \in DOMAIN L \ {AtReceiver(c)} : L2[o] = L[o]
    BY SMTT(30), <1>0, <1>a, <1>b, OtherLines
  <2> QED
    BY <1>1, <2>1, <2>2 DEF IsPop
<1>4. Placed(L2, A \ {t}) /\ t \in A \cup {None}
  BY <1>c, <1>3, Popped
<1>5. t # None
  BY <1>1, AsyncAssumption
<1> QED
  BY <1>1, <1>2, <1>4, <1>5 DEF L2, t

\* A parked sender leaves its channel.
LEMMA LeavesSenders ==
  ASSUME NEW A, NEW cu, NEW re, NEW wa, NEW le, NEW ch, Standing(cu, re, wa, le, ch),
         Placed(TaskLines(cu, re, wa, le, ch), A),
         NEW ch2, NEW c, NEW k, OneChanged(ch, ch2, c, k),
         k.receivers = ch[c].receivers, q_has(ch[c].senders),
         NEW p, p = q_pop(ch[c].senders), k.senders = p.rest
  PROVE  /\ Standing(cu, re, wa, le, ch2)
         /\ Placed(TaskLines(cu, re, wa, le, ch2), A \ {p.x[2]})
         /\ p.x[2] \in A /\ p.x[2] \in Tasks
<1> DEFINE L == TaskLines(cu, re, wa, le, ch)
           L2 == TaskLines(cu, re, wa, le, ch2)
           t == p.x[2]
           r == Mapped(SenderOf, Contents(p.rest))
<1>0. /\ ch2 \in Seq(Channels) /\ Len(ch2) = Len(ch) /\ ch2[c] = k
      /\ ch[c] \in Channels /\ c \in 1 .. Len(ch)
      /\ \A d \in 1 .. Len(ch) : d # c => ch2[d] = ch[d]
  BY OneChangedFacts DEF OneChanged
<1>1. /\ t \in Tasks /\ r \in Seq(Tasks)
      /\ Mapped(SenderOf, Contents(ch[c].senders)) = <<t>> \o r
  <2> DEFINE e == p.x
             z == Contents(p.rest)
             a == Contents(ch[c].senders)
  <2>1. ch[c].senders \in Queues(Offers)
    BY <1>0, Held
  <2>2. e \in Offers /\ p.rest \in Queues(Offers) /\ a = <<e>> \o z
    BY <2>1, QueuePop
  <2>3. e \in Offers /\ z \in Seq(Offers) /\ IsCons(a, e, z) /\ SenderOf[e] = t /\ t \in Tasks
    BY <2>2, ContentsType DEF IsCons, SenderOf, Offers
  <2> HIDE DEF e, z, a
  <2>4. IsCons(Mapped(SenderOf, a), SenderOf[e], Mapped(SenderOf, z))
    BY <2>3, MapsAre, MappedCons
  <2>5. Mapped(SenderOf, z) \in Seq(Tasks)
    BY <2>3, MapsAre, MappedType
  <2> QED
    BY <2>3, <2>4, <2>5 DEF IsCons, z, a
<1>2. Standing(cu, re, wa, le, ch2)
  BY <1>0 DEF Standing
<1>a. AreLines(L, cu, re, wa, le, ch)
  BY TaskLine
<1>b. AreLines(L2, cu, re, wa, le, ch2)
  BY <1>2, TaskLine
<1>c. Placed(L, A) /\ Mapped(SenderOf, Contents(k.senders)) = r
  OBVIOUS
<1> HIDE DEF L, L2, t, r
<1>3. IsPop(L, L2, AtSender(c), Tasks, t, r)
  <2>1. /\ AtSender(c) \in DOMAIN L /\ L[AtSender(c)] = <<t>> \o r
        /\ L2[AtSender(c)] = r
    BY <1>0, <1>1, <1>a, <1>b, <1>c DEF AreLines
  <2>2. DOMAIN L2 = DOMAIN L /\ \A o \in DOMAIN L \ {AtSender(c)} : L2[o] = L[o]
    BY SMTT(30), <1>0, <1>a, <1>b, OtherLines
  <2> QED
    BY <1>1, <2>1, <2>2 DEF IsPop
<1>4. Placed(L2, A \ {t}) /\ t \in A \cup {None}
  BY <1>c, <1>3, Popped
<1>5. t # None
  BY <1>1, AsyncAssumption
<1> QED
  BY <1>1, <1>2, <1>4, <1>5 DEF L2, t

\* A task parks on a channel to receive.
LEMMA JoinsReceivers ==
  ASSUME NEW A, NEW cu, NEW re, NEW wa, NEW le, NEW ch, Standing(cu, re, wa, le, ch),
         Placed(TaskLines(cu, re, wa, le, ch), A),
         NEW ch2, NEW c, NEW k, OneChanged(ch, ch2, c, k),
         NEW t \in Tasks, t \notin A,
         k.senders = ch[c].senders, k.receivers = q_push(ch[c].receivers, t)
  PROVE  /\ Standing(cu, re, wa, le, ch2)
         /\ Placed(TaskLines(cu, re, wa, le, ch2), A \cup {t})
<1> DEFINE L == TaskLines(cu, re, wa, le, ch)
           L2 == TaskLines(cu, re, wa, le, ch2)
<1>0. /\ ch2 \in Seq(Channels) /\ Len(ch2) = Len(ch) /\ ch2[c] = k
      /\ ch[c] \in Channels /\ c \in 1 .. Len(ch)
      /\ \A d \in 1 .. Len(ch) : d # c => ch2[d] = ch[d]
  BY OneChangedFacts DEF OneChanged
<1>1. Contents(k.receivers) = Append(Contents(ch[c].receivers), t)
  <2>1. ch[c].receivers \in Queues(Tasks)
    BY <1>0, Held
  <2> QED
    BY <2>1, QueuePush
<1>2. Standing(cu, re, wa, le, ch2)
  BY <1>0 DEF Standing
<1>a. AreLines(L, cu, re, wa, le, ch)
  BY TaskLine
<1>b. AreLines(L2, cu, re, wa, le, ch2)
  BY <1>2, TaskLine
<1>c. Placed(L, A)
  OBVIOUS
<1> HIDE DEF L, L2
<1>3. IsPush(L, L2, AtReceiver(c), Tasks, t)
  <2>1. /\ AtReceiver(c) \in DOMAIN L /\ L[AtReceiver(c)] \in Seq(Tasks)
        /\ L2[AtReceiver(c)] = Append(L[AtReceiver(c)], t)
    BY <1>0, <1>1, <1>a, <1>b DEF AreLines
  <2>2. DOMAIN L2 = DOMAIN L /\ \A o \in DOMAIN L \ {AtReceiver(c)} : L2[o] = L[o]
    BY <1>0, <1>a, <1>b, OtherLines
  <2> QED
    BY <2>1, <2>2 DEF IsPush
<1>4. Placed(L2, A \cup ({t} \ {None}))
  BY <1>c, <1>3, Pushed
<1> QED
  BY <1>2, <1>4, WithTask DEF L2

\* A task parks on a channel with what it sends.
LEMMA JoinsSenders ==
  ASSUME NEW A, NEW cu, NEW re, NEW wa, NEW le, NEW ch, Standing(cu, re, wa, le, ch),
         Placed(TaskLines(cu, re, wa, le, ch), A),
         NEW ch2, NEW c, NEW k, OneChanged(ch, ch2, c, k),
         NEW t \in Tasks, t \notin A, NEW v \in Messages,
         k.receivers = ch[c].receivers, k.senders = q_push(ch[c].senders, <<v, t>>)
  PROVE  /\ Standing(cu, re, wa, le, ch2)
         /\ Placed(TaskLines(cu, re, wa, le, ch2), A \cup {t})
<1> DEFINE L == TaskLines(cu, re, wa, le, ch)
           L2 == TaskLines(cu, re, wa, le, ch2)
<1>0. /\ ch2 \in Seq(Channels) /\ Len(ch2) = Len(ch) /\ ch2[c] = k
      /\ ch[c] \in Channels /\ c \in 1 .. Len(ch)
      /\ \A d \in 1 .. Len(ch) : d # c => ch2[d] = ch[d]
  BY OneChangedFacts DEF OneChanged
<1>1. Mapped(SenderOf, Contents(k.senders))
        = Append(Mapped(SenderOf, Contents(ch[c].senders)), t)
  <2> DEFINE e == <<v, t>>
             z == Contents(ch[c].senders)
  <2>1. e \in Offers /\ SenderOf[e] = t
    BY DEF Offers, SenderOf
  <2>2. ch[c].senders \in Queues(Offers)
    BY <1>0, Held
  <2>3. z \in Seq(Offers)
    BY <2>2, ContentsType
  <2> HIDE DEF e
  <2>4. Contents(q_push(ch[c].senders, e)) = Append(z, e)
    BY <2>1, <2>2, QueuePush
  <2> HIDE DEF z
  <2>5. Mapped(SenderOf, Append(z, e)) = Append(Mapped(SenderOf, z), SenderOf[e])
    BY <2>1, <2>3, MapsAre, MappedAppend
  <2> QED
    BY <2>1, <2>4, <2>5 DEF e, z
<1>2. Standing(cu, re, wa, le, ch2)
  BY <1>0 DEF Standing
<1>a. AreLines(L, cu, re, wa, le, ch)
  BY TaskLine
<1>b. AreLines(L2, cu, re, wa, le, ch2)
  BY <1>2, TaskLine
<1>c. Placed(L, A)
  OBVIOUS
<1> HIDE DEF L, L2
<1>3. IsPush(L, L2, AtSender(c), Tasks, t)
  <2>1. /\ AtSender(c) \in DOMAIN L /\ L[AtSender(c)] \in Seq(Tasks)
        /\ L2[AtSender(c)] = Append(L[AtSender(c)], t)
    BY <1>0, <1>1, <1>a, <1>b DEF AreLines
  <2>2. DOMAIN L2 = DOMAIN L /\ \A o \in DOMAIN L \ {AtSender(c)} : L2[o] = L[o]
    BY <1>0, <1>a, <1>b, OtherLines
  <2> QED
    BY <2>1, <2>2 DEF IsPush
<1>4. Placed(L2, A \cup ({t} \ {None}))
  BY <1>c, <1>3, Pushed
<1> QED
  BY <1>2, <1>4, WithTask DEF L2

\* A channel's buffer changes; nobody comes or goes.
LEMMA NobodyMoves ==
  ASSUME NEW A, NEW cu, NEW re, NEW wa, NEW le, NEW ch, Standing(cu, re, wa, le, ch),
         Placed(TaskLines(cu, re, wa, le, ch), A),
         NEW ch2, NEW c, NEW k, OneChanged(ch, ch2, c, k),
         k.senders = ch[c].senders, k.receivers = ch[c].receivers
  PROVE  /\ Standing(cu, re, wa, le, ch2)
         /\ Placed(TaskLines(cu, re, wa, le, ch2), A)
<1> DEFINE L == TaskLines(cu, re, wa, le, ch)
           L2 == TaskLines(cu, re, wa, le, ch2)
<1>0. /\ ch2 \in Seq(Channels) /\ Len(ch2) = Len(ch) /\ ch2[c] = k
      /\ \A d \in 1 .. Len(ch) : d # c => ch2[d] = ch[d]
  BY OneChangedFacts
<1>2. Standing(cu, re, wa, le, ch2)
  BY <1>0 DEF Standing
<1>a. AreLines(L, cu, re, wa, le, ch)
  BY TaskLine
<1>b. AreLines(L2, cu, re, wa, le, ch2)
  BY <1>2, TaskLine
<1>c. Placed(L, A)
  OBVIOUS
<1> HIDE DEF L, L2
<1>3. DOMAIN L2 = DOMAIN L /\ \A o \in DOMAIN L : L2[o] = L[o]
  BY <1>0, <1>a, <1>b, OtherLines
<1>4. Placed(L2, A)
  BY <1>c, <1>3, Added
<1> QED
  BY <1>2, <1>4 DEF L2

\* A channel is made.
LEMMA ChannelAdded ==
  ASSUME NEW A, NEW cu, NEW re, NEW wa, NEW le, NEW ch, Standing(cu, re, wa, le, ch),
         Placed(TaskLines(cu, re, wa, le, ch), A),
         NEW k \in Channels, k.senders = q_empty, k.receivers = q_empty
  PROVE  /\ Standing(cu, re, wa, le, Append(ch, k))
         /\ Placed(TaskLines(cu, re, wa, le, Append(ch, k)), A)
<1> DEFINE ch2 == Append(ch, k)
           L == TaskLines(cu, re, wa, le, ch)
           L2 == TaskLines(cu, re, wa, le, ch2)
           n == Len(ch)
<1>0. /\ ch2 \in Seq(Channels) /\ Len(ch2) = n + 1 /\ ch2[n + 1] = k /\ n \in Nat
      /\ \A d \in 1 .. n : ch2[d] = ch[d]
  BY AppendProperties DEF Standing
<1> HIDE DEF ch2
<1>2. Standing(cu, re, wa, le, ch2)
  BY <1>0 DEF Standing
<1>a. AreLines(L, cu, re, wa, le, ch)
  BY TaskLine
<1>b. AreLines(L2, cu, re, wa, le, ch2)
  BY <1>2, TaskLine
<1>c. Placed(L, A)
  OBVIOUS
<1>d. Contents(q_empty) = <<>> /\ Mapped(SenderOf, <<>>) = <<>>
  <2>1. Reverse(<<>>) = <<>> /\ Mapped(SenderOf, <<>>) = <<>> /\ <<>> \o <<>> = <<>>
    BY DEF Reverse, Mapped
  <2> QED
    BY <2>1 DEF Contents, q_empty
<1> HIDE DEF L, L2, n
<1>3. ASSUME NEW o \in DOMAIN L
      PROVE  o \in DOMAIN L2 /\ L2[o] = L[o]
  <2>1. CASE o \in {AtCur, AtReady, AtWaiting, AtLeft}
    BY <1>a, <1>b, <2>1 DEF AreLines
  <2>2. ASSUME NEW c \in 1 .. n, o = AtSender(c) \/ o = AtReceiver(c)
        PROVE  o \in DOMAIN L2 /\ L2[o] = L[o]
    <3>1. c \in 1 .. Len(ch2) /\ c \in 1 .. Len(ch) /\ ch2[c] = ch[c]
      BY <1>0 DEF n
    <3>2. /\ AtSender(c) \in DOMAIN L2 /\ AtReceiver(c) \in DOMAIN L2
          /\ L2[AtSender(c)] = Mapped(SenderOf, Contents(ch2[c].senders))
          /\ L2[AtReceiver(c)] = Contents(ch2[c].receivers)
      BY <1>b, <3>1 DEF AreLines
    <3>3. /\ L[AtSender(c)] = Mapped(SenderOf, Contents(ch[c].senders))
          /\ L[AtReceiver(c)] = Contents(ch[c].receivers)
      BY <1>a, <3>1 DEF AreLines
    <3> QED
      BY <2>2, <3>1, <3>2, <3>3
  <2> QED
    BY <1>a, <2>1, <2>2 DEF AreLines, n
<1>4. ASSUME NEW o \in DOMAIN L2 \ DOMAIN L
      PROVE  L2[o] = <<>>
  <2>1. o \notin {AtCur, AtReady, AtWaiting, AtLeft}
    BY <1>a DEF AreLines
  <2>2. PICK c \in 1 .. n + 1 : o = AtSender(c) \/ o = AtReceiver(c)
    BY <1>0, <1>b, <2>1 DEF AreLines
  <2>3. c = n + 1
    <3>1. c \notin 1 .. n
      BY <1>a, <2>2 DEF AreLines, n
    <3> QED
      BY <1>0, <3>1
  <2> QED
    BY SMTT(30), <1>0, <1>b, <1>d, <2>2, <2>3 DEF AreLines
<1>5. Placed(L2, A)
  <2>1. DOMAIN L \subseteq DOMAIN L2
    BY <1>3
  <2> QED
    BY <1>c, <1>3, <1>4, <2>1, Added
<1> QED
  BY <1>2, <1>5 DEF L2, ch2

-----------------------------------------------------------------------------
(***************************************************************************)
(* The lines the handed-over messages stand in: with the ready task that   *)
(* will be resumed with it, then among what a task was resumed with.       *)
(***************************************************************************)
AtGot(t) == <<"got", t>>
MsgOf == [e \in Entries |-> e.msg]
MaybeMsg == Messages \cup {None}

MsgLines(re, go) ==
  [s \in {AtReady} \cup {AtGot(t) : t \in Tasks} |->
     IF s = AtReady THEN Mapped(MsgOf, Contents(re)) ELSE go[s[2]]]

Carried(re, go) == re \in Queues(Entries) /\ go \in [Tasks -> Seq(Messages)]

AreMsgs(L, re, go) ==
  /\ DOMAIN L = {AtReady} \cup {AtGot(t) : t \in Tasks}
  /\ L[AtReady] = Mapped(MsgOf, Contents(re)) /\ L[AtReady] \in Seq(MaybeMsg)
  /\ \A t \in Tasks : L[AtGot(t)] = go[t] /\ L[AtGot(t)] \in Seq(MaybeMsg)

LEMMA GotDiffers ==
  \A t, u : /\ AtGot(t) # AtReady /\ AtGot(t)[2] = t
            /\ AtGot(t) = AtGot(u) => t = u
<1>1. "got" # "ready"
  OBVIOUS
<1> QED
  BY <1>1 DEF AtGot, AtReady

LEMMA MsgMap == IsMap(MsgOf, Entries, MaybeMsg)
<1>1. \A e \in Entries : e.msg \in MaybeMsg
  BY DEF Entries, MaybeMsg
<1> QED
  BY <1>1 DEF IsMap, MsgOf

LEMMA MsgLine ==
  ASSUME NEW re, NEW go, Carried(re, go)
  PROVE  AreMsgs(MsgLines(re, go), re, go)
<1> DEFINE L == MsgLines(re, go)
<1>1. DOMAIN L = {AtReady} \cup {AtGot(t) : t \in Tasks}
  BY DEF MsgLines
<1>2. L[AtReady] = Mapped(MsgOf, Contents(re))
  BY DEF MsgLines
<1>3. ASSUME NEW t \in Tasks
      PROVE  L[AtGot(t)] = go[t] /\ go[t] \in Seq(MaybeMsg)
  <2>1. L[AtGot(t)] = go[t]
    BY GotDiffers DEF MsgLines
  <2>2. go[t] \in Seq(Messages)
    BY DEF Carried
  <2> QED
    BY <2>1, <2>2 DEF MaybeMsg
<1>4. Mapped(MsgOf, Contents(re)) \in Seq(MaybeMsg)
  <2>1. Contents(re) \in Seq(Entries)
    BY ContentsType DEF Carried
  <2> QED
    BY <2>1, MsgMap, MappedType
<1> HIDE DEF L
<1>5. AreMsgs(L, re, go)
  BY <1>1, <1>2, <1>3, <1>4 DEF AreMsgs
<1> QED
  BY <1>5 DEF L

LEMMA OtherMsgs ==
  ASSUME NEW L, NEW L2, NEW re, NEW go, AreMsgs(L, re, go),
         NEW re2, NEW go2, AreMsgs(L2, re2, go2)
  PROVE  /\ DOMAIN L2 = DOMAIN L
         /\ re2 = re => L2[AtReady] = L[AtReady]
         /\ \A o \in DOMAIN L :
              \/ o = AtReady
              \/ \E t \in Tasks : o = AtGot(t) /\ (go2[t] = go[t] => L2[o] = L[o])
<1>1. DOMAIN L2 = DOMAIN L /\ (re2 = re => L2[AtReady] = L[AtReady])
  BY DEF AreMsgs
<1>2. ASSUME NEW o \in DOMAIN L, o # AtReady
      PROVE  \E t \in Tasks : o = AtGot(t) /\ (go2[t] = go[t] => L2[o] = L[o])
  <2>1. PICK t \in Tasks : o = AtGot(t)
    BY <1>2 DEF AreMsgs
  <2>2. L[o] = go[t] /\ L2[o] = go2[t]
    BY <2>1 DEF AreMsgs
  <2> QED
    BY <2>1, <2>2
<1> QED
  BY <1>1, <1>2

\* A task joins the ready queue, with a message or with none.
LEMMA MsgQueued ==
  ASSUME NEW A, NEW re, NEW go, Carried(re, go), Placed(MsgLines(re, go), A),
         NEW e \in Entries, e.msg \notin A
  PROVE  /\ Carried(q_push(re, e), go)
         /\ Placed(MsgLines(q_push(re, e), go), A \cup ({e.msg} \ {None}))
<1> DEFINE re2 == q_push(re, e)
           v == e.msg
           L == MsgLines(re, go)
           L2 == MsgLines(re2, go)
<1>1. /\ re2 \in Queues(Entries) /\ v \in MaybeMsg
      /\ Mapped(MsgOf, Contents(re2)) = Append(Mapped(MsgOf, Contents(re)), v)
  <2>1. q_push(re, e) \in Queues(Entries)
        /\ Contents(q_push(re, e)) = Append(Contents(re), e)
    BY QueuePush DEF Carried
  <2>2. Contents(re) \in Seq(Entries) /\ MsgOf[e] = e.msg /\ e.msg \in MaybeMsg
    BY ContentsType DEF Carried, MsgOf, Entries, MaybeMsg
  <2> QED
    BY <2>1, <2>2, MsgMap, MappedAppend
<1> HIDE DEF re2, v
<1>2. Carried(re2, go)
  BY <1>1 DEF Carried
<1>a. AreMsgs(L, re, go)
  BY MsgLine
<1>b. AreMsgs(L2, re2, go)
  BY <1>2, MsgLine
<1>c. Placed(L, A) /\ v \notin A
  BY DEF v
<1> HIDE DEF L, L2
<1>3. IsPush(L, L2, AtReady, MaybeMsg, v)
  <2>1. /\ AtReady \in DOMAIN L /\ L[AtReady] \in Seq(MaybeMsg)
        /\ L2[AtReady] = Append(L[AtReady], v)
    BY <1>1, <1>a, <1>b DEF AreMsgs
  <2>2. DOMAIN L2 = DOMAIN L /\ \A o \in DOMAIN L \ {AtReady} : L2[o] = L[o]
    BY <1>a, <1>b, OtherMsgs
  <2> QED
    BY <1>1, <2>1, <2>2 DEF IsPush
<1>4. Placed(L2, A \cup ({v} \ {None}))
  BY <1>c, <1>3, Pushed
<1> QED
  BY <1>2, <1>4 DEF re2, v, L2

\* A task is resumed with a message at once.
LEMMA MsgGot ==
  ASSUME NEW A, NEW re, NEW go, Carried(re, go), Placed(MsgLines(re, go), A),
         NEW t \in Tasks, NEW v \in Messages, v \notin A,
         NEW go2, go2 = [go EXCEPT ![t] = Append(go[t], v)]
  PROVE  /\ Carried(re, go2)
         /\ Placed(MsgLines(re, go2), A \cup {v})
<1> DEFINE L == MsgLines(re, go)
           L2 == MsgLines(re, go2)
<1>1. /\ go2 \in [Tasks -> Seq(Messages)] /\ go2[t] = Append(go[t], v)
      /\ \A u \in Tasks : u # t => go2[u] = go[u]
  <2>1. go \in [Tasks -> Seq(Messages)] /\ Append(go[t], v) \in Seq(Messages)
    BY DEF Carried
  <2> QED
    BY <2>1
<1>2. Carried(re, go2)
  BY <1>1 DEF Carried
<1>a. AreMsgs(L, re, go)
  BY MsgLine
<1>b. AreMsgs(L2, re, go2)
  BY <1>2, MsgLine
<1>c. Placed(L, A)
  OBVIOUS
<1> HIDE DEF L, L2
<1>3. IsPush(L, L2, AtGot(t), MaybeMsg, v)
  <2>1. /\ AtGot(t) \in DOMAIN L /\ L[AtGot(t)] \in Seq(MaybeMsg)
        /\ L2[AtGot(t)] = Append(L[AtGot(t)], v) /\ v \in MaybeMsg
    BY <1>1, <1>a, <1>b DEF AreMsgs, MaybeMsg
  <2>2. ASSUME NEW o \in DOMAIN L, o # AtGot(t)
        PROVE  L2[o] = L[o]
    <3>1. CASE o = AtReady
      BY <1>a, <1>b, <3>1 DEF AreMsgs
    <3>2. CASE o # AtReady
      <4>1. PICK u \in Tasks : o = AtGot(u)
        BY <1>a, <3>2 DEF AreMsgs
      <4>2. L[o] = go[u] /\ L2[o] = go2[u]
        BY <1>a, <1>b, <4>1 DEF AreMsgs
      <4> QED
        BY <1>1, <2>2, <4>1, <4>2
    <3> QED
      BY <3>1, <3>2
  <2>3. DOMAIN L2 = DOMAIN L
    BY <1>a, <1>b DEF AreMsgs
  <2> QED
    BY <2>1, <2>2, <2>3 DEF IsPush
<1>4. Placed(L2, A \cup ({v} \ {None}))
  BY <1>c, <1>3, Pushed
<1>5. v # None
  BY AsyncAssumption DEF Messages
<1> QED
  BY <1>2, <1>4, <1>5 DEF L2

\* The next ready task is resumed, with the message it was queued with if any.
LEMMA MsgResumed ==
  ASSUME NEW A, NEW re, NEW go, Carried(re, go), Placed(MsgLines(re, go), A),
         q_has(re), NEW p, p = q_pop(re),
         NEW go2, go2 = IF p.x.msg = None THEN go
                        ELSE [go EXCEPT ![p.x.task] = Append(go[p.x.task], p.x.msg)]
  PROVE  Carried(p.rest, go2) /\ Placed(MsgLines(p.rest, go2), A)
<1> DEFINE v == p.x.msg
           t == p.x.task
           r == Mapped(MsgOf, Contents(p.rest))
           L == MsgLines(re, go)
           M == MsgLines(p.rest, go)
<1>1. /\ p.rest \in Queues(Entries) /\ v \in MaybeMsg /\ t \in Tasks
      /\ r \in Seq(MaybeMsg)
      /\ Mapped(MsgOf, Contents(re)) = <<v>> \o r
  <2> DEFINE e == p.x
             z == Contents(p.rest)
             a == Contents(re)
  <2>1. e \in Entries /\ p.rest \in Queues(Entries) /\ a = <<e>> \o z
    BY QueuePop DEF Carried
  <2>2. /\ z \in Seq(Entries) /\ IsCons(a, e, z)
        /\ MsgOf[e] = v /\ v \in MaybeMsg /\ t \in Tasks
    BY <2>1, ContentsType DEF IsCons, MsgOf, Entries, MaybeMsg
  <2> HIDE DEF e, z, a
  <2>3. IsCons(Mapped(MsgOf, a), MsgOf[e], Mapped(MsgOf, z))
    BY <2>1, <2>2, MsgMap, MappedCons
  <2>4. Mapped(MsgOf, z) \in Seq(MaybeMsg)
    BY <2>2, MsgMap, MappedType
  <2> QED
    BY <2>1, <2>2, <2>3, <2>4 DEF IsCons, z, a
<1>2. Carried(p.rest, go)
  BY <1>1 DEF Carried
<1>a. AreMsgs(L, re, go)
  BY MsgLine
<1>b. AreMsgs(M, p.rest, go)
  BY <1>2, MsgLine
<1>c. Placed(L, A)
  OBVIOUS
<1> HIDE DEF L, M, v, t, r
<1>3. IsPop(L, M, AtReady, MaybeMsg, v, r)
  <2>1. AtReady \in DOMAIN L /\ L[AtReady] = <<v>> \o r /\ M[AtReady] = r
    BY <1>1, <1>a, <1>b DEF AreMsgs, r
  <2>2. DOMAIN M = DOMAIN L /\ \A o \in DOMAIN L \ {AtReady} : M[o] = L[o]
    BY <1>a, <1>b, OtherMsgs
  <2> QED
    BY <1>1, <2>1, <2>2 DEF IsPop
<1>4. Placed(M, A \ {v}) /\ v \in A \cup {None}
  BY <1>c, <1>3, Popped
<1>5. CASE v = None
  <2>1. go2 = go
    BY <1>5 DEF v
  <2>2. A \ {v} = A
    BY <1>4, <1>5 DEF Placed
  <2> QED
    BY <1>2, <1>4, <2>1, <2>2 DEF M
<1>6. CASE v # None
  <2>1. go2 = [go EXCEPT ![t] = Append(go[t], v)] /\ v \in Messages /\ v \notin A \ {v}
    BY <1>1, <1>6 DEF v, t, MaybeMsg
  <2>2. Placed(MsgLines(p.rest, go), A \ {v})
    BY <1>4 DEF M
  <2>3. Carried(p.rest, go2) /\ Placed(MsgLines(p.rest, go2), (A \ {v}) \cup {v})
    BY <1>1, <1>2, <2>1, <2>2, MsgGot
  <2>4. (A \ {v}) \cup {v} = A
    BY <1>4, <1>6
  <2> QED
    BY <2>3, <2>4
<1> QED
  BY <1>5, <1>6

-----------------------------------------------------------------------------
(***************************************************************************)
(* wake: each waiter ends in one line, and no message moves.               *)
(***************************************************************************)
Dropped(i) == SubSeq(waiting, i + 1, Len(waiting))

LEMMA DroppedSteps ==
  ASSUME waiting \in Seq(Tasks)
  PROVE  /\ Dropped(0) = waiting /\ Dropped(Len(waiting)) = <<>>
         /\ \A i \in 1 .. Len(waiting) :
              /\ waiting[i] \in Tasks /\ Dropped(i) \in Seq(Tasks)
              /\ Dropped(i - 1) = <<waiting[i]>> \o Dropped(i)
<1> DEFINE n == Len(waiting)
<1>0. n \in Nat /\ \A i \in 1 .. n : waiting[i] \in Tasks
  OBVIOUS
<1>1. Dropped(0) = waiting
  <2>1. SubSeq(waiting, 1, n) = waiting
    OBVIOUS
  <2> QED
    BY <1>0, <2>1 DEF Dropped
<1>2. Dropped(n) = <<>>
  BY <1>0 DEF Dropped
<1>3. ASSUME NEW i \in 0 .. n
      PROVE  /\ Dropped(i) \in Seq(Tasks) /\ Len(Dropped(i)) = n - i
             /\ \A j \in 1 .. n - i : Dropped(i)[j] = waiting[i + j]
  <2>1. i + 1 \in Nat /\ n - i \in Nat
    BY <1>0
  <2>2. Dropped(i) \in Seq(Tasks) /\ Len(Dropped(i)) = IF i + 1 <= n THEN n - (i + 1) + 1 ELSE 0
    BY <1>0, <2>1, SubSeqProperties DEF Dropped
  <2>3. ASSUME NEW j \in 1 .. n - i
        PROVE  Dropped(i)[j] = waiting[i + j]
    <3>1. (i + 1) + j - 1 = i + j /\ j \in 1 .. n - (i + 1) + 1 /\ j \in Nat /\ i + 1 <= n
      BY <1>0, <2>1
    <3> QED
      BY <1>0, <2>1, <3>1, SubSeqProperties DEF Dropped
  <2> QED
    BY <1>0, <2>1, <2>2, <2>3
<1>4. ASSUME NEW i \in 1 .. n
      PROVE  Dropped(i - 1) = <<waiting[i]>> \o Dropped(i)
  <2> DEFINE t == waiting[i]
             d == Dropped(i)
             l == Dropped(i - 1)
             r == <<t>> \o d
             m == n - i
  <2>1. i \in 0 .. n /\ i - 1 \in 0 .. n /\ m \in Nat /\ n - (i - 1) = m + 1 /\ t \in Tasks
    BY <1>0
  <2>2. d \in Seq(Tasks) /\ Len(d) = m /\ \A j \in 1 .. m : d[j] = waiting[i + j]
    BY <1>3, <2>1
  <2>3. l \in Seq(Tasks) /\ Len(l) = m + 1 /\ \A j \in 1 .. m + 1 : l[j] = waiting[(i - 1) + j]
    BY <1>3, <2>1
  <2>t. t = waiting[i]
    OBVIOUS
  <2> HIDE DEF d, l, t, m
  <2>4. r \in Seq(Tasks) /\ Len(r) = m + 1 /\ r[1] = t /\ \A j \in 2 .. m + 1 : r[j] = d[j - 1]
    BY <2>1, <2>2, ConsFacts
  <2> HIDE DEF r
  <2>5. ASSUME NEW j \in 1 .. m + 1
        PROVE  l[j] = r[j]
    <3>1. CASE j = 1
      BY <2>1, <2>3, <2>4, <2>t, <3>1
    <3>2. CASE j # 1
      <4>1. j \in 2 .. m + 1 /\ j - 1 \in 1 .. m /\ i + (j - 1) = (i - 1) + j
        BY <2>1, <3>2
      <4> QED
        BY <2>2, <2>3, <2>4, <4>1
    <3> QED
      BY <3>1, <3>2
  <2>6. l = r
    BY <2>3, <2>4, <2>5, SeqEqual
  <2> QED
    BY <2>6 DEF l, r, d, t
<1>5. \A i \in 1 .. n : waiting[i] \in Tasks /\ Dropped(i) \in Seq(Tasks)
  <2>1. \A i \in 1 .. n : i \in 0 .. n
    BY <1>0
  <2> QED
    BY <1>0, <1>3, <2>1
<1> QED
  BY <1>1, <1>2, <1>4, <1>5, Zenon

\* wake's state after some waiters.
WalkOK(st, i, A, M) ==
  /\ st = [ready |-> st.ready, rest |-> st.rest]
  /\ Standing(cur, st.ready, st.rest, Dropped(i), chans)
  /\ Placed(TaskLines(cur, st.ready, st.rest, Dropped(i), chans), A)
  /\ Carried(st.ready, got) /\ Placed(MsgLines(st.ready, got), M)

LEMMA WalkKeeps ==
  ASSUME NEW woken, NEW A, NEW M, waiting \in Seq(Tasks), NEW i \in 1 .. Len(waiting),
         NEW st, WalkOK(st, i - 1, A, M)
  PROVE  WalkOK(Walk(woken, st, i), i, A, M)
<1> DEFINE t == waiting[i]
           w == Walk(woken, st, i)
<1>1. t \in Tasks /\ Dropped(i) \in Seq(Tasks) /\ IsCons(Dropped(i - 1), t, Dropped(i))
  BY DroppedSteps DEF IsCons
<1> HIDE DEF t
<1> DEFINE re == st.ready
           wa == st.rest
           le == Dropped(i - 1)
           r == Dropped(i)
<1>a. Standing(cur, re, wa, le, chans) /\ Placed(TaskLines(cur, re, wa, le, chans), A)
  BY DEF WalkOK
<1>b. r \in Seq(Tasks) /\ IsCons(le, t, r)
  BY <1>1
<1> HIDE DEF re, wa, le, r
<1>2. /\ Standing(cur, re, wa, r, chans)
      /\ Placed(TaskLines(cur, re, wa, r, chans), A \ {t})
      /\ t \in A
  BY <1>1, <1>a, <1>b, LeavesLeft
<1>3. (A \ {t}) \cup {t} = A /\ t \notin A \ {t}
  BY <1>2
<1>4. CASE i \in woken
  <2> DEFINE e == Resume(t)
  <2>1. e \in Entries /\ e.task = t /\ e.msg = None
    BY <1>1 DEF Resume, Entries
  <2> HIDE DEF e
  <2>2. w = [ready |-> q_push(st.ready, e), rest |-> st.rest]
    <3>1. w = [st EXCEPT !.ready = q_push(st.ready, Resume(waiting[i]))]
      BY <1>4 DEF Walk
    <3>2. st = [ready |-> st.ready, rest |-> st.rest]
      BY DEF WalkOK
    <3> QED
      BY <3>1, <3>2 DEF e, t
  <2> HIDE DEF w
  <2>3. w.ready = q_push(st.ready, e) /\ w.rest = st.rest
        /\ w = [ready |-> w.ready, rest |-> w.rest]
    BY <2>2
  <2>4. /\ Standing(cur, w.ready, w.rest, Dropped(i), chans)
        /\ Placed(TaskLines(cur, w.ready, w.rest, Dropped(i), chans), A)
    <3>1. /\ Standing(cur, q_push(re, e), wa, r, chans)
          /\ Placed(TaskLines(cur, q_push(re, e), wa, r, chans), (A \ {t}) \cup {t})
      BY <1>2, <1>3, <2>1, JoinsReady
    <3> QED
      BY <1>3, <2>3, <3>1 DEF re, wa, r
  <2>5. Carried(w.ready, got) /\ Placed(MsgLines(w.ready, got), M \cup ({None} \ {None}))
    <3>1. None \notin M
      BY DEF WalkOK, Placed
    <3> QED
      BY <2>1, <2>3, <3>1, MsgQueued DEF WalkOK
  <2>6. M \cup ({None} \ {None}) = M
    OBVIOUS
  <2> QED
    BY <2>3, <2>4, <2>5, <2>6 DEF WalkOK, w
<1>5. CASE i \notin woken
  <2>1. w = [ready |-> st.ready, rest |-> Append(st.rest, t)]
    <3>1. w = [st EXCEPT !.rest = Append(st.rest, waiting[i])]
      BY <1>5 DEF Walk
    <3>2. st = [ready |-> st.ready, rest |-> st.rest]
      BY DEF WalkOK
    <3> QED
      BY <3>1, <3>2 DEF t
  <2> HIDE DEF w
  <2>2. w.ready = st.ready /\ w.rest = Append(st.rest, t)
        /\ w = [ready |-> w.ready, rest |-> w.rest]
    BY <2>1
  <2>3. /\ Standing(cur, w.ready, w.rest, Dropped(i), chans)
        /\ Placed(TaskLines(cur, w.ready, w.rest, Dropped(i), chans), A)
    <3> DEFINE wa2 == Append(wa, t)
    <3>1. wa2 = Append(wa, t)
      OBVIOUS
    <3> HIDE DEF wa2
    <3>2. /\ Standing(cur, re, wa2, r, chans)
          /\ Placed(TaskLines(cur, re, wa2, r, chans), (A \ {t}) \cup {t})
      BY <1>1, <1>2, <1>3, <3>1, JoinsWaiting
    <3> QED
      BY <1>3, <2>2, <3>2 DEF wa2, re, wa, r
  <2> QED
    BY <2>2, <2>3 DEF WalkOK, w
<1> QED
  BY <1>4, <1>5

LEMMA WakeKeeps ==
  ASSUME NEW woken, NEW A, NEW M,
         Standing(cur, ready, waiting, <<>>, chans),
         Placed(TaskLines(cur, ready, waiting, <<>>, chans), A),
         Carried(ready, got), Placed(MsgLines(ready, got), M),
         NEW w, w = Walked(woken)
  PROVE  /\ Standing(cur, w.ready, w.rest, <<>>, chans)
         /\ Placed(TaskLines(cur, w.ready, w.rest, <<>>, chans), A)
         /\ Carried(w.ready, got) /\ Placed(MsgLines(w.ready, got), M)
<1> DEFINE n == Len(waiting)
<1>0. waiting \in Seq(Tasks) /\ n \in Nat
  BY DEF Standing
<1>1. PICK g : /\ g[0] = Unwalked
               /\ \A i \in 1 .. n : g[i] = Walk(woken, g[i - 1], i)
               /\ w = g[n]
  BY <1>0, WalkedSteps
<1>2. WalkOK(g[0], 0, A, M)
  <2>1. Dropped(0) = waiting
    BY <1>0, DroppedSteps
  <2>2. /\ Standing(cur, ready, <<>>, waiting, chans)
        /\ Placed(TaskLines(cur, ready, <<>>, waiting, chans), A)
    BY AllLeft
  <2>3. g[0] = [ready |-> ready, rest |-> <<>>]
    BY <1>1 DEF Unwalked
  <2> QED
    BY <2>1, <2>2, <2>3 DEF WalkOK
<1>3. WalkOK(g[n], n, A, M)
  <2> DEFINE T == {i \in 0 .. n : ~WalkOK(g[i], i, A, M)}
  <2>1. SUFFICES ASSUME T # {} PROVE FALSE
    <3>1. n \in 0 .. n
      BY <1>0
    <3> QED
      BY <2>1, <3>1
  <2>2. PICK x \in T : x = 0 \/ (x > 0 /\ x - 1 \in 0 .. n /\ x - 1 \notin T)
    BY <1>0, <2>1, FirstFailure
  <2>3. x # 0
    BY <1>2, <2>2
  <2>4. x \in 1 .. n /\ WalkOK(g[x - 1], x - 1, A, M)
    BY <1>0, <2>2, <2>3
  <2>5. WalkOK(g[x], x, A, M)
    BY <1>0, <1>1, <2>4, WalkKeeps
  <2> QED
    BY <2>2, <2>5
<1>4. Dropped(n) = <<>>
  BY <1>0, DroppedSteps
<1> QED
  BY <1>1, <1>3, <1>4 DEF WalkOK

-----------------------------------------------------------------------------
(***************************************************************************)
(* The invariant: every task that was spawned and has not ended stands in  *)
(* one line, every message handed over in one, and no two are the same.    *)
(***************************************************************************)
AllTaken(tk) == UNION {{tk[c][i] : i \in DOMAIN tk[c]} : c \in DOMAIN tk}

TasksInv ==
  /\ Standing(cur, ready, waiting, <<>>, chans)
  /\ born \subseteq Tasks /\ ended \subseteq born
  /\ Placed(TaskLines(cur, ready, waiting, <<>>, chans), born \ ended)

Numbered(s, n) == \A c \in DOMAIN s : \A i \in DOMAIN s[c] : s[c][i][2] < n
Distinct(s) ==
  \A c, d \in DOMAIN s : \A i \in DOMAIN s[c] : \A j \in DOMAIN s[d] :
    s[c][i] = s[d][j] => c = d /\ i = j

MsgsInv ==
  /\ Carried(ready, got)
  /\ Numbered(sent, sends) /\ Distinct(sent)
  /\ Placed(MsgLines(ready, got), AllTaken(taken))

FlagsInv ==
  /\ polls \in BOOLEAN /\ result \in {None, Main} /\ over \in BOOLEAN
  /\ result = Main <=> Main \in ended
  /\ Main \in born
  /\ over => ~q_has(ready) /\ cur = None

GroupInv == ChanInv /\ TasksInv /\ MsgsInv /\ FlagsInv

LEMMA ResumeFacts ==
  ASSUME NEW t \in Tasks
  PROVE  /\ Resume(t) \in Entries /\ Resume(t).task = t /\ Resume(t).msg = None
         /\ \A v \in Messages : /\ ResumeWith(t, v) \in Entries
                                /\ ResumeWith(t, v).task = t /\ ResumeWith(t, v).msg = v
BY DEF Resume, ResumeWith, Entries

\* What a step does to one channel.
LEMMA ChannelChanged ==
  ASSUME ChanInv, ChanInv', NEW c \in DOMAIN chans, NEW ch,
         chans' = [chans EXCEPT ![c] = ch]
  PROVE  OneChanged(chans, chans', c, ch)
<1>1. chans \in Seq(Channels) /\ chans' \in Seq(Channels) /\ DOMAIN chans = 1 .. Len(chans)
  BY LenProperties DEF ChanInv, ChanTypes
<1>2. DOMAIN chans' = DOMAIN chans /\ chans'[c] = ch
  OBVIOUS
<1>3. ch \in Channels
  BY <1>1, <1>2, ElementOfSeq, LenProperties
<1> QED
  BY <1>1, <1>3 DEF OneChanged

\* The running task's turn ends and it goes to a channel or a queue.
LEMMA TurnOf ==
  ASSUME TasksInv, NEW t \in Tasks, cur = t
  PROVE  /\ Standing(None, ready, waiting, <<>>, chans)
         /\ Placed(TaskLines(None, ready, waiting, <<>>, chans), (born \ ended) \ {t})
         /\ t \in born \ ended
         /\ ((born \ ended) \ {t}) \cup {t} = born \ ended
         /\ t \notin (born \ ended) \ {t}
<1>1. /\ Standing(t, ready, waiting, <<>>, chans)
      /\ Placed(TaskLines(t, ready, waiting, <<>>, chans), born \ ended)
  BY DEF TasksInv
<1>2. /\ Standing(None, ready, waiting, <<>>, chans)
      /\ Placed(TaskLines(None, ready, waiting, <<>>, chans), (born \ ended) \ {t})
      /\ t \in born \ ended
  BY <1>1, TurnEnds
<1> QED
  BY <1>2

LEMMA SendTasks ==
  ASSUME GroupInv, ChanInv', NEW t \in Tasks, NEW c \in DOMAIN chans, send_to(t, c)
  PROVE  TasksInv'
<1> DEFINE v == <<t, sends>>
           ch == chans[c]
           A == born \ ended
<1>0. ChanInv /\ TasksInv
  BY DEF GroupInv
<1>1. v \in Messages /\ cur = t /\ UNCHANGED <<waiting, born, ended>>
  BY <1>0 DEF Messages, ChanInv, ChanTypes, send_to
<1>2. ch \in Channels /\ c \in 1 .. Len(chans)
  BY <1>0, OneChannel
<1>3. SendToReceiver(t, c, v) \/ SendToBuffer(t, c, v) \/ SendParks(t, c, v)
  BY DEF send_to
<1>4. /\ Standing(cur, ready, waiting, <<>>, chans)
      /\ Placed(TaskLines(cur, ready, waiting, <<>>, chans), A)
      /\ born \subseteq Tasks /\ ended \subseteq born
  BY <1>0 DEF TasksInv
<1> HIDE DEF v, A
<1>5. CASE SendToReceiver(t, c, v)
  <2> DEFINE p == q_pop(ch.receivers)
             k == [ch EXCEPT !.receivers = p.rest]
             e == ResumeWith(p.x, v)
  <2>1. /\ q_has(ch.receivers) /\ chans' = [chans EXCEPT ![c] = k]
        /\ ready' = q_push(ready, e) /\ cur' = cur
    BY <1>5 DEF SendToReceiver
  <2>2. k.senders = ch.senders /\ k.receivers = p.rest
    BY <1>2 DEF Channels
  <2>p. p = q_pop(ch.receivers)
    OBVIOUS
  <2> HIDE DEF p, k
  <2>3. OneChanged(chans, chans', c, k)
    BY <1>0, <2>1, ChannelChanged
  <2> DEFINE u == p.x
  <2>4. /\ Standing(cur, ready, waiting, <<>>, chans')
        /\ Placed(TaskLines(cur, ready, waiting, <<>>, chans'), A \ {u})
        /\ u \in A /\ u \in Tasks
    BY <1>4, <2>1, <2>2, <2>3, <2>p, LeavesReceivers
  <2>5. e \in Entries /\ e.task = u /\ ready' = q_push(ready, e)
    BY <1>1, <2>1, <2>4, ResumeFacts
  <2> HIDE DEF e, u
  <2>6. /\ Standing(cur, ready', waiting, <<>>, chans')
        /\ Placed(TaskLines(cur, ready', waiting, <<>>, chans'), (A \ {u}) \cup {u})
    BY <2>4, <2>5, JoinsReady
  <2>7. (A \ {u}) \cup {u} = A
    BY <2>4
  <2> QED
    BY <1>1, <1>4, <2>1, <2>6, <2>7 DEF TasksInv, A
<1>6. CASE SendToBuffer(t, c, v)
  <2> DEFINE k == [ch EXCEPT !.buf = q_push(ch.buf, v), !.size = ch.size + 1]
  <2>1. chans' = [chans EXCEPT ![c] = k] /\ ready' = ready /\ cur' = cur
    BY <1>6 DEF SendToBuffer
  <2>2. k.senders = ch.senders /\ k.receivers = ch.receivers
    BY <1>2 DEF Channels
  <2> HIDE DEF k
  <2>3. OneChanged(chans, chans', c, k)
    BY <1>0, <2>1, ChannelChanged
  <2>4. /\ Standing(cur, ready, waiting, <<>>, chans')
        /\ Placed(TaskLines(cur, ready, waiting, <<>>, chans'), A)
    BY <1>4, <2>2, <2>3, NobodyMoves
  <2> QED
    BY <1>1, <1>4, <2>1, <2>4 DEF TasksInv, A
<1>7. CASE SendParks(t, c, v)
  <2> DEFINE k == [ch EXCEPT !.senders = q_push(ch.senders, <<v, t>>)]
  <2>1. chans' = [chans EXCEPT ![c] = k] /\ ready' = ready /\ cur' = None
    BY <1>7 DEF SendParks
  <2>2. k.senders = q_push(ch.senders, <<v, t>>) /\ k.receivers = ch.receivers
    BY <1>2 DEF Channels
  <2> HIDE DEF k
  <2>3. OneChanged(chans, chans', c, k)
    BY <1>0, <2>1, ChannelChanged
  <2>4. /\ Standing(None, ready, waiting, <<>>, chans)
        /\ Placed(TaskLines(None, ready, waiting, <<>>, chans), A \ {t})
        /\ t \notin A \ {t} /\ (A \ {t}) \cup {t} = A
    BY <1>0, <1>1, TurnOf DEF A
  <2>5. /\ Standing(None, ready, waiting, <<>>, chans')
        /\ Placed(TaskLines(None, ready, waiting, <<>>, chans'), (A \ {t}) \cup {t})
    BY <1>1, <2>2, <2>3, <2>4, JoinsSenders
  <2> QED
    BY <1>1, <1>4, <2>1, <2>4, <2>5 DEF TasksInv, A
<1> QED
  BY <1>3, <1>5, <1>6, <1>7

LEMMA RecvTasks ==
  ASSUME GroupInv, ChanInv', NEW t \in Tasks, NEW c \in DOMAIN chans, recv_from(t, c)
  PROVE  TasksInv'
<1> DEFINE ch == chans[c]
           A == born \ ended
<1>0. ChanInv /\ TasksInv
  BY DEF GroupInv
<1>1. cur = t /\ UNCHANGED <<waiting, born, ended>>
  BY DEF recv_from
<1>2. ch \in Channels /\ c \in 1 .. Len(chans)
  BY <1>0, OneChannel
<1>3. \/ RecvAndRefill(t, c) \/ RecvBuffered(t, c) \/ RecvRendezvous(t, c) \/ RecvParks(t, c)
  BY DEF recv_from
<1>4. /\ Standing(cur, ready, waiting, <<>>, chans)
      /\ Placed(TaskLines(cur, ready, waiting, <<>>, chans), A)
      /\ born \subseteq Tasks /\ ended \subseteq born
  BY <1>0 DEF TasksInv
<1> HIDE DEF A
\* The sender of a parked message goes on.
<1>5. ASSUME NEW k, k.receivers = ch.receivers, q_has(ch.senders),
             NEW p, p = q_pop(ch.senders), k.senders = p.rest,
             chans' = [chans EXCEPT ![c] = k],
             ready' = q_push(ready, Resume(p.x[2])), cur' = cur
      PROVE  TasksInv'
  <2> DEFINE e == Resume(p.x[2])
             u == p.x[2]
  <2>3. OneChanged(chans, chans', c, k)
    BY <1>0, <1>5, ChannelChanged
  <2>4. /\ Standing(cur, ready, waiting, <<>>, chans')
        /\ Placed(TaskLines(cur, ready, waiting, <<>>, chans'), A \ {u})
        /\ u \in A /\ u \in Tasks
    BY <1>4, <1>5, <2>3, LeavesSenders
  <2>5. e \in Entries /\ e.task = u
    BY <2>4, ResumeFacts
  <2>6. ready' = q_push(ready, e)
    BY <1>5
  <2> HIDE DEF e, u
  <2>7. /\ Standing(cur, ready', waiting, <<>>, chans')
        /\ Placed(TaskLines(cur, ready', waiting, <<>>, chans'), (A \ {u}) \cup {u})
    BY <2>4, <2>5, <2>6, JoinsReady
  <2>8. (A \ {u}) \cup {u} = A
    BY <2>4
  <2> QED
    BY <1>1, <1>4, <1>5, <2>7, <2>8 DEF TasksInv, A
<1>6. CASE RecvAndRefill(t, c)
  <2> DEFINE b == q_pop(ch.buf)
             p == q_pop(ch.senders)
             k == [ch EXCEPT !.buf = q_push(b.rest, p.x[1]), !.senders = p.rest]
  <2>1. /\ q_has(ch.senders) /\ chans' = [chans EXCEPT ![c] = k]
        /\ ready' = q_push(ready, Resume(p.x[2])) /\ cur' = cur
    BY <1>6 DEF RecvAndRefill, Takes
  <2>2. k.senders = p.rest /\ k.receivers = ch.receivers /\ p = q_pop(ch.senders)
    BY <1>2 DEF Channels
  <2> HIDE DEF b, p, k
  <2> QED
    BY <1>5, <2>1, <2>2
<1>7. CASE RecvBuffered(t, c)
  <2> DEFINE b == q_pop(ch.buf)
             k == [ch EXCEPT !.buf = b.rest, !.size = ch.size - 1]
  <2>1. chans' = [chans EXCEPT ![c] = k] /\ ready' = ready /\ cur' = cur
    BY <1>7 DEF RecvBuffered, Takes
  <2>2. k.senders = ch.senders /\ k.receivers = ch.receivers
    BY <1>2 DEF Channels
  <2> HIDE DEF b, k
  <2>3. OneChanged(chans, chans', c, k)
    BY <1>0, <2>1, ChannelChanged
  <2>4. /\ Standing(cur, ready, waiting, <<>>, chans')
        /\ Placed(TaskLines(cur, ready, waiting, <<>>, chans'), A)
    BY <1>4, <2>2, <2>3, NobodyMoves
  <2> QED
    BY <1>1, <1>4, <2>1, <2>4 DEF TasksInv, A
<1>8. CASE RecvRendezvous(t, c)
  <2> DEFINE p == q_pop(ch.senders)
             k == [ch EXCEPT !.senders = p.rest]
  <2>1. /\ q_has(ch.senders) /\ chans' = [chans EXCEPT ![c] = k]
        /\ ready' = q_push(ready, Resume(p.x[2])) /\ cur' = cur
    BY <1>8 DEF RecvRendezvous, Takes
  <2>2. k.senders = p.rest /\ k.receivers = ch.receivers /\ p = q_pop(ch.senders)
    BY <1>2 DEF Channels
  <2> HIDE DEF p, k
  <2> QED
    BY <1>5, <2>1, <2>2
<1>9. CASE RecvParks(t, c)
  <2> DEFINE k == [ch EXCEPT !.receivers = q_push(ch.receivers, t)]
  <2>1. chans' = [chans EXCEPT ![c] = k] /\ ready' = ready /\ cur' = None
    BY <1>9 DEF RecvParks
  <2>2. k.senders = ch.senders /\ k.receivers = q_push(ch.receivers, t)
    BY <1>2 DEF Channels
  <2> HIDE DEF k
  <2>3. OneChanged(chans, chans', c, k)
    BY <1>0, <2>1, ChannelChanged
  <2>4. /\ Standing(None, ready, waiting, <<>>, chans)
        /\ Placed(TaskLines(None, ready, waiting, <<>>, chans), A \ {t})
        /\ t \notin A \ {t} /\ (A \ {t}) \cup {t} = A
    BY <1>0, <1>1, TurnOf DEF A
  <2>5. /\ Standing(None, ready, waiting, <<>>, chans')
        /\ Placed(TaskLines(None, ready, waiting, <<>>, chans'), (A \ {t}) \cup {t})
    BY <1>1, <2>2, <2>3, <2>4, JoinsReceivers
  <2> QED
    BY <1>1, <1>4, <2>1, <2>4, <2>5 DEF TasksInv, A
<1> QED
  BY <1>3, <1>6, <1>7, <1>8, <1>9

LEMMA TasksStep ==
  ASSUME GroupInv, ChanInv', [Next]_vars
  PROVE  TasksInv'
<1> DEFINE A == born \ ended
<1>0. ChanInv /\ TasksInv /\ MsgsInv
  BY DEF GroupInv
<1>4. /\ Standing(cur, ready, waiting, <<>>, chans)
      /\ Placed(TaskLines(cur, ready, waiting, <<>>, chans), A)
      /\ born \subseteq Tasks /\ ended \subseteq born
  BY <1>0 DEF TasksInv
<1> HIDE DEF A
<1>1. CASE UNCHANGED <<cur, ready, waiting, chans, born, ended>>
  BY <1>0, <1>1 DEF TasksInv
<1>2. CASE RunReady
  <2> DEFINE p == q_pop(ready)
  <2>1. /\ cur = None /\ q_has(ready) /\ ready' = p.rest /\ cur' = p.x.task
        /\ UNCHANGED <<waiting, chans, born, ended>>
    BY <1>2 DEF RunReady, Idle
  <2>2. p = q_pop(ready)
    OBVIOUS
  <2> HIDE DEF p
  <2>3. /\ Standing(None, ready, waiting, <<>>, chans)
        /\ Placed(TaskLines(None, ready, waiting, <<>>, chans), A)
    BY <1>4, <2>1
  <2>4. /\ Standing(p.x.task, p.rest, waiting, <<>>, chans)
        /\ Placed(TaskLines(p.x.task, p.rest, waiting, <<>>, chans), A)
    BY <2>1, <2>2, <2>3, TurnBegins
  <2> QED
    BY <1>4, <2>1, <2>4 DEF TasksInv, A
<1>3. CASE Poll
  <2>1. PICK woken \in PollAnswers :
          \/ woken = {} /\ over' = TRUE /\ UNCHANGED <<ready, waiting>>
          \/ woken # {} /\ wake(woken) /\ UNCHANGED over
    BY <1>3 DEF Poll
  <2>2. UNCHANGED <<cur, chans, born, ended>>
    BY <1>3 DEF Poll
  <2>3. CASE UNCHANGED <<ready, waiting>>
    BY <1>1, <2>2, <2>3
  <2>4. CASE wake(woken)
    <3> DEFINE w == Walked(woken)
    <3>1. ready' = w.ready /\ waiting' = w.rest /\ w = Walked(woken)
      BY <2>4 DEF wake
    <3> HIDE DEF w
    <3>2. /\ Standing(cur, w.ready, w.rest, <<>>, chans)
          /\ Placed(TaskLines(cur, w.ready, w.rest, <<>>, chans), A)
      BY <1>0, <1>4, <3>1, WakeKeeps DEF MsgsInv
    <3> QED
      BY <1>4, <2>2, <3>1, <3>2 DEF TasksInv, A
  <2> QED
    BY <2>1, <2>3, <2>4
<1>5. ASSUME NEW t \in Tasks, serve(t)
      PROVE  TasksInv'
  <2>1. cur = t => /\ Standing(None, ready, waiting, <<>>, chans)
                   /\ Placed(TaskLines(None, ready, waiting, <<>>, chans), A \ {t})
                   /\ t \in A /\ t \notin A \ {t} /\ (A \ {t}) \cup {t} = A
    BY <1>0, TurnOf DEF A
  <2>2. CASE Done(t)
    <3>1. /\ cur = t /\ ended' = ended \cup {t} /\ cur' = None
          /\ UNCHANGED <<ready, waiting, chans, born>>
      BY <2>2 DEF Done
    <3>2. A \ {t} = born \ (ended \cup {t}) /\ t \in born
      BY <2>1, <3>1 DEF A
    <3> QED
      BY <1>4, <2>1, <3>1, <3>2 DEF TasksInv
  <2>3. CASE Yielded(t)
    <3> DEFINE e == Resume(t)
    <3>1. /\ cur = t /\ ready' = q_push(ready, e) /\ cur' = None
          /\ UNCHANGED <<waiting, chans, born, ended>>
      BY <2>3 DEF Yielded
    <3>2. e \in Entries /\ e.task = t
      BY ResumeFacts
    <3> HIDE DEF e
    <3>3. /\ Standing(None, ready', waiting, <<>>, chans)
          /\ Placed(TaskLines(None, ready', waiting, <<>>, chans), (A \ {t}) \cup {t})
      BY <2>1, <3>1, <3>2, JoinsReady
    <3> QED
      BY <1>4, <2>1, <3>1, <3>3 DEF TasksInv, A
  <2>4. ASSUME NEW child \in Tasks, Spawned(t, child)
        PROVE  TasksInv'
    <3> DEFINE e == Resume(child)
    <3>1. /\ child \notin born /\ born' = born \cup {child} /\ ready' = q_push(ready, e)
          /\ UNCHANGED <<cur, waiting, chans, ended>>
      BY <2>4 DEF Spawned
    <3>2. e \in Entries /\ e.task = child /\ child \notin A
      BY <3>1, ResumeFacts DEF A
    <3> HIDE DEF e
    <3>3. /\ Standing(cur, ready', waiting, <<>>, chans)
          /\ Placed(TaskLines(cur, ready', waiting, <<>>, chans), A \cup {child})
      BY <1>4, <3>1, <3>2, JoinsReady
    <3>4. A \cup {child} = (born \cup {child}) \ ended
      BY <1>4, <3>1 DEF A
    <3> QED
      BY <1>4, <3>1, <3>3, <3>4 DEF TasksInv
  <2>5. ASSUME NEW cap \in Caps, Made(t, cap)
        PROVE  TasksInv'
    <3> DEFINE k == Channel(cap)
    <3>1. chans' = Append(chans, k) /\ UNCHANGED <<cur, ready, waiting, born, ended>>
      BY <2>5 DEF Made
    <3>2. k \in Channels /\ k.senders = q_empty /\ k.receivers = q_empty
      <4>1. cap \in Int
        BY AsyncAssumption
      <4>2. (IF cap < 0 THEN 0 ELSE cap) \in Nat
        BY <4>1
      <4>3. q_empty \in Queues(Messages) /\ q_empty \in Queues(Messages \X Tasks)
            /\ q_empty \in Queues(Tasks)
        BY DEF q_empty, Queues
      <4> QED
        BY <4>2, <4>3 DEF Channel, Channels
    <3> HIDE DEF k
    <3>3. /\ Standing(cur, ready, waiting, <<>>, chans')
          /\ Placed(TaskLines(cur, ready, waiting, <<>>, chans'), A)
      BY <1>4, <3>1, <3>2, ChannelAdded
    <3> QED
      BY <1>4, <3>1, <3>3 DEF TasksInv, A
  <2>6. CASE Waits(t)
    <3>1. /\ cur = t /\ waiting' = Append(waiting, t) /\ cur' = None
          /\ UNCHANGED <<ready, chans, born, ended>>
      BY <2>6 DEF Waits
    <3>2. /\ Standing(None, ready, waiting', <<>>, chans)
          /\ Placed(TaskLines(None, ready, waiting', <<>>, chans), (A \ {t}) \cup {t})
      BY <2>1, <3>1, JoinsWaiting
    <3> QED
      BY <1>4, <2>1, <3>1, <3>2 DEF TasksInv, A
  <2> QED
    BY <1>5, <2>2, <2>3, <2>4, <2>5, <2>6, SendTasks, RecvTasks DEF serve
<1>6. CASE GroupOver
  BY <1>1, <1>6 DEF GroupOver
<1>7. CASE UNCHANGED vars
  BY <1>1, <1>7 DEF vars
<1> QED
  BY <1>2, <1>3, <1>5, <1>6, <1>7 DEF Next, schedule

-----------------------------------------------------------------------------
(***************************************************************************)
(* The messages.                                                           *)
(***************************************************************************)
\* What was handed over was sent, at the same place.
LEMMA TakenIsSent ==
  ASSUME NEW ch \in Channels, NEW in \in Seq(Messages), NEW out \in Seq(Messages),
         Fifo(ch, in, out), NEW i \in 1 .. Len(out)
  PROVE  i \in 1 .. Len(in) /\ in[i] = out[i]
<1> DEFINE pe == Pending(ch)
<1>1. pe \in Seq(Messages)
  <2>1. Contents(ch.buf) \in Seq(Messages) /\ Values(Contents(ch.senders)) \in Seq(Messages)
    BY Held
  <2> QED
    BY <2>1, ConcatProperties DEF Pending
<1>2. in = out \o pe
  BY DEF Fifo
<1> HIDE DEF pe
<1>3. /\ Len(in) = Len(out) + Len(pe) /\ Len(out) \in Nat /\ Len(pe) \in Nat
      /\ \A j \in 1 .. Len(out) + Len(pe) :
           (out \o pe)[j] = IF j <= Len(out) THEN out[j] ELSE pe[j - Len(out)]
  BY <1>1, <1>2, ConcatProperties
<1>4. i \in 1 .. Len(out) + Len(pe) /\ i <= Len(out)
  BY <1>3
<1> QED
  BY <1>2, <1>3, <1>4

LEMMA TakenHere ==
  ASSUME ChanInv
  PROVE  /\ DOMAIN sent = 1 .. Len(chans) /\ DOMAIN taken = 1 .. Len(chans)
         /\ DOMAIN chans = 1 .. Len(chans) /\ Len(chans) \in Nat
         /\ \A c \in DOMAIN taken :
              /\ sent[c] \in Seq(Messages) /\ taken[c] \in Seq(Messages)
              /\ DOMAIN taken[c] = 1 .. Len(taken[c]) /\ Len(taken[c]) \in Nat
              /\ \A i \in DOMAIN taken[c] :
                   i \in DOMAIN sent[c] /\ sent[c][i] = taken[c][i]
<1>1. DOMAIN sent = 1 .. Len(chans) /\ DOMAIN taken = 1 .. Len(chans)
      /\ DOMAIN chans = 1 .. Len(chans) /\ Len(chans) \in Nat
  BY LenProperties DEF ChanInv, ChanTypes
<1>2. ASSUME NEW c \in DOMAIN taken
      PROVE  /\ sent[c] \in Seq(Messages) /\ taken[c] \in Seq(Messages)
             /\ DOMAIN taken[c] = 1 .. Len(taken[c]) /\ Len(taken[c]) \in Nat
             /\ \A i \in DOMAIN taken[c] :
                  i \in DOMAIN sent[c] /\ sent[c][i] = taken[c][i]
  <2>1. /\ sent[c] \in Seq(Messages) /\ taken[c] \in Seq(Messages)
        /\ chans[c] \in Channels /\ Fifo(chans[c], sent[c], taken[c])
    BY <1>1, OneChannel
  <2>2. /\ DOMAIN taken[c] = 1 .. Len(taken[c]) /\ DOMAIN sent[c] = 1 .. Len(sent[c])
        /\ Len(taken[c]) \in Nat
    BY <2>1, LenProperties
  <2> QED
    BY <2>1, <2>2, TakenIsSent
<1> QED
  BY <1>1, <1>2

\* One more message is handed over.
LEMMA HandedOneMore ==
  ASSUME ChanInv, NEW c \in DOMAIN taken, NEW v,
         taken' = [taken EXCEPT ![c] = Append(taken[c], v)]
  PROVE  /\ AllTaken(taken') = AllTaken(taken) \cup {v}
         /\ Len(taken[c]) + 1 \in DOMAIN taken'[c]
         /\ taken'[c][Len(taken[c]) + 1] = v
<1> DEFINE n == Len(taken[c])
<1>1. taken[c] \in Seq(Messages) /\ DOMAIN taken[c] = 1 .. n /\ n \in Nat
  BY TakenHere
<1>2. /\ DOMAIN taken' = DOMAIN taken /\ taken'[c] = Append(taken[c], v)
      /\ \A d \in DOMAIN taken : d # c => taken'[d] = taken[d]
  OBVIOUS
<1>3. /\ DOMAIN taken'[c] = 1 .. n + 1 /\ taken'[c][n + 1] = v
      /\ \A i \in 1 .. n : taken'[c][i] = taken[c][i]
  BY <1>1, <1>2
<1> HIDE DEF n
<1>4. ASSUME NEW x \in AllTaken(taken')
      PROVE  x \in AllTaken(taken) \cup {v}
  <2>1. PICK d \in DOMAIN taken : \E i \in DOMAIN taken'[d] : x = taken'[d][i]
    BY <1>2 DEF AllTaken
  <2>2. PICK i \in DOMAIN taken'[d] : x = taken'[d][i]
    BY <2>1
  <2>3. CASE d = c
    <3>1. i = n + 1 \/ i \in 1 .. n
      BY <1>1, <1>3, <2>3
    <3> QED
      BY <1>1, <1>3, <2>2, <2>3, <3>1 DEF AllTaken
  <2>4. CASE d # c
    BY <1>2, <2>2, <2>4 DEF AllTaken
  <2> QED
    BY <2>3, <2>4
<1>5. v \in AllTaken(taken')
  <2>1. n + 1 \in DOMAIN taken'[c]
    BY <1>1, <1>3
  <2> QED
    BY <1>2, <1>3, <2>1 DEF AllTaken
<1>6. ASSUME NEW x \in AllTaken(taken)
      PROVE  x \in AllTaken(taken')
  <2>1. PICK d \in DOMAIN taken : \E i \in DOMAIN taken[d] : x = taken[d][i]
    BY DEF AllTaken
  <2>2. PICK i \in DOMAIN taken[d] : x = taken[d][i]
    BY <2>1
  <2>3. i \in DOMAIN taken'[d] /\ taken'[d][i] = x
    <3>1. CASE d = c
      <4>1. i \in 1 .. n /\ i \in 1 .. n + 1
        BY <1>1, <2>2, <3>1
      <4> QED
        BY <1>3, <2>2, <3>1, <4>1
    <3>2. CASE d # c
      BY <1>2, <2>2, <3>2
    <3> QED
      BY <3>1, <3>2
  <2> QED
    BY <1>2, <2>3 DEF AllTaken
<1>7. n + 1 \in DOMAIN taken'[c] /\ taken'[c][n + 1] = v
  BY <1>1, <1>3
<1> QED
  BY <1>4, <1>5, <1>6, <1>7 DEF n

\* What a channel hands over next was not handed over before.
LEMMA NextIsNew ==
  ASSUME ChanInv, ChanInv', Distinct(sent), sent' = sent, NEW c \in DOMAIN taken, NEW v,
         taken' = [taken EXCEPT ![c] = Append(taken[c], v)]
  PROVE  v \notin AllTaken(taken) /\ v \in Messages
<1> DEFINE n == Len(taken[c])
<1>1. n + 1 \in DOMAIN taken'[c] /\ taken'[c][n + 1] = v
  BY HandedOneMore
<1>2. DOMAIN taken' = DOMAIN taken
  OBVIOUS
<1>3. n + 1 \in DOMAIN sent'[c] /\ sent'[c][n + 1] = taken'[c][n + 1]
  <2>1. /\ sent'[c] \in Seq(Messages) /\ taken'[c] \in Seq(Messages) /\ chans'[c] \in Channels
        /\ Fifo(chans'[c], sent'[c], taken'[c])
    <3>1. DOMAIN taken = 1 .. Len(chans) /\ DOMAIN chans = 1 .. Len(chans)
      BY TakenHere
    <3>2. /\ chans' \in Seq(Channels) /\ sent' \in Seq(Seq(Messages))
          /\ taken' \in Seq(Seq(Messages))
          /\ Len(sent') = Len(chans') /\ Len(taken') = Len(chans')
      BY DEF ChanInv, ChanTypes
    <3>3. DOMAIN taken' = 1 .. Len(chans') /\ DOMAIN chans' = 1 .. Len(chans')
          /\ DOMAIN sent' = 1 .. Len(chans')
      BY <3>2, LenProperties
    <3>4. c \in 1 .. Len(chans')
      BY <1>2, <3>3
    <3>5. sent'[c] \in Seq(Messages) /\ taken'[c] \in Seq(Messages) /\ chans'[c] \in Channels
      BY <3>2, <3>4, ElementOfSeq
    <3>6. ChannelFifo'
      BY DEF ChanInv
    <3>7. Fifo(chans'[c], sent'[c], taken'[c])
      BY <3>3, <3>4, <3>6 DEF ChannelFifo, Fifo, Pending, Values, Contents
    <3> QED
      BY <3>5, <3>7
  <2>2. DOMAIN taken'[c] = 1 .. Len(taken'[c]) /\ DOMAIN sent'[c] = 1 .. Len(sent'[c])
    BY <2>1, LenProperties
  <2> DEFINE out == taken'[c]
             in == sent'[c]
             ch == chans'[c]
  <2>3. /\ in \in Seq(Messages) /\ out \in Seq(Messages) /\ ch \in Channels
        /\ Fifo(ch, in, out) /\ n + 1 \in 1 .. Len(out)
    BY <1>1, <2>1, <2>2
  <2> HIDE DEF in, out, ch, n
  <2>4. n + 1 \in 1 .. Len(in) /\ in[n + 1] = out[n + 1]
    BY <2>3, TakenIsSent
  <2> QED
    BY <2>2, <2>4 DEF in, out
<1>4. n + 1 \in DOMAIN sent[c] /\ sent[c][n + 1] = v
  BY <1>1, <1>3
<1>5. v \in Messages
  BY <1>4, TakenHere
<1>6. ASSUME v \in AllTaken(taken)
      PROVE  FALSE
  <2>1. PICK d \in DOMAIN taken : \E i \in DOMAIN taken[d] : v = taken[d][i]
    BY <1>6 DEF AllTaken
  <2>2. PICK i \in DOMAIN taken[d] : v = taken[d][i]
    BY <2>1
  <2>3. i \in DOMAIN sent[d] /\ sent[d][i] = v /\ d \in DOMAIN sent /\ c \in DOMAIN sent
    BY <2>2, TakenHere
  <2>4. d = c /\ i = n + 1
    BY <1>4, <2>3 DEF Distinct
  <2>5. i \in 1 .. n /\ n \in Nat
    BY <2>2, <2>4, TakenHere
  <2> QED
    BY <2>4, <2>5
<1> QED
  BY <1>5, <1>6

\* A message just sent is new.
LEMMA SentIsNew ==
  ASSUME ChanInv, Numbered(sent, sends), Distinct(sent),
         NEW t \in Tasks, NEW c \in DOMAIN chans, NEW v, v = <<t, sends>>,
         sent' = [sent EXCEPT ![c] = Append(sent[c], v)], sends' = sends + 1
  PROVE  /\ Numbered(sent', sends') /\ Distinct(sent')
         /\ v \notin AllTaken(taken) /\ v \in Messages
<1> DEFINE n == Len(sent[c])
<1>1. sends \in Nat /\ v \in Messages /\ v[2] = sends
  BY DEF ChanInv, ChanTypes, Messages
<1>2. /\ DOMAIN sent = 1 .. Len(chans) /\ DOMAIN taken = 1 .. Len(chans) /\ c \in DOMAIN sent
      /\ sent[c] \in Seq(Messages) /\ DOMAIN sent[c] = 1 .. n /\ n \in Nat
      /\ \A d \in DOMAIN sent : sent[d] \in Seq(Messages)
  BY TakenHere, LenProperties
<1>3. /\ DOMAIN sent' = DOMAIN sent /\ sent'[c] = Append(sent[c], v)
      /\ \A d \in DOMAIN sent : d # c => sent'[d] = sent[d]
  BY <1>2
<1>4. /\ DOMAIN sent'[c] = 1 .. n + 1 /\ sent'[c][n + 1] = v
      /\ \A i \in 1 .. n : sent'[c][i] = sent[c][i]
  BY <1>2, <1>3
<1> HIDE DEF n
<1>5. ASSUME NEW d \in DOMAIN sent, NEW i \in DOMAIN sent'[d]
      PROVE  \/ i \in DOMAIN sent[d] /\ sent'[d][i] = sent[d][i] /\ sent[d][i][2] < sends
                /\ sent[d][i][2] \in Nat
             \/ d = c /\ i = n + 1 /\ sent'[d][i] = v
  <2>1. CASE d # c
    <3>1. i \in DOMAIN sent[d] /\ sent'[d][i] = sent[d][i]
      BY <1>3, <2>1
    <3>2. sent[d][i] \in Messages
      BY <1>2, <3>1, ElementOfSeq, LenProperties
    <3> QED
      BY <3>1, <3>2 DEF Numbered, Messages
  <2>2. CASE d = c
    <3>1. i = n + 1 \/ i \in 1 .. n
      BY <1>2, <1>4, <2>2
    <3>2. CASE i \in 1 .. n
      <4>1. i \in DOMAIN sent[d] /\ sent'[d][i] = sent[d][i]
        BY <1>2, <1>4, <2>2, <3>2
      <4>2. sent[d][i] \in Messages
        BY <1>2, <4>1, ElementOfSeq, LenProperties
      <4> QED
        BY <4>1, <4>2 DEF Numbered, Messages
    <3> QED
      BY <1>4, <2>2, <3>1, <3>2
  <2> QED
    BY <2>1, <2>2
<1>6. Numbered(sent', sends')
  <2> SUFFICES ASSUME NEW d \in DOMAIN sent, NEW i \in DOMAIN sent'[d]
               PROVE  sent'[d][i][2] < sends + 1
    BY <1>3 DEF Numbered
  <2> QED
    BY <1>1, <1>5
<1>7. Distinct(sent')
  <2> SUFFICES ASSUME NEW d \in DOMAIN sent, NEW e \in DOMAIN sent,
                      NEW i \in DOMAIN sent'[d], NEW j \in DOMAIN sent'[e],
                      sent'[d][i] = sent'[e][j]
               PROVE  d = e /\ i = j
    BY <1>3 DEF Distinct
  <2>1. CASE d = c /\ i = n + 1 /\ sent'[d][i] = v
    <3>1. ~(sent'[e][j] = sent[e][j] /\ sent[e][j][2] < sends /\ sent[e][j][2] \in Nat)
      BY <1>1, <2>1
    <3> QED
      BY <1>5, <2>1, <3>1
  <2>2. CASE e = c /\ j = n + 1 /\ sent'[e][j] = v
    <3>1. ~(sent'[d][i] = sent[d][i] /\ sent[d][i][2] < sends /\ sent[d][i][2] \in Nat)
      BY <1>1, <2>2
    <3> QED
      BY <1>5, <2>2, <3>1
  <2>3. CASE /\ i \in DOMAIN sent[d] /\ sent'[d][i] = sent[d][i]
             /\ j \in DOMAIN sent[e] /\ sent'[e][j] = sent[e][j]
    <3>1. sent[d][i] = sent[e][j]
      BY <2>3
    <3> QED
      BY <2>3, <3>1 DEF Distinct
  <2> QED
    BY <1>5, <2>1, <2>2, <2>3
<1>8. ASSUME v \in AllTaken(taken)
      PROVE  FALSE
  <2>1. PICK d \in DOMAIN taken : \E i \in DOMAIN taken[d] : v = taken[d][i]
    BY <1>8 DEF AllTaken
  <2>2. PICK i \in DOMAIN taken[d] : v = taken[d][i]
    BY <2>1
  <2>3. i \in DOMAIN sent[d] /\ sent[d][i] = v /\ d \in DOMAIN sent
    BY <2>2, TakenHere
  <2> QED
    BY <1>1, <2>3 DEF Numbered
<1> QED
  BY <1>1, <1>6, <1>7, <1>8

\* A message handed over on a channel, to a receiver that is resumed at once.
LEMMA TakesKeeps ==
  ASSUME GroupInv, ChanInv', NEW t \in Tasks, NEW c \in DOMAIN chans, NEW v,
         Takes(t, c, v), UNCHANGED <<sends, sent>>
  PROVE  /\ Carried(ready, got') /\ Placed(MsgLines(ready, got'), AllTaken(taken'))
         /\ Numbered(sent', sends') /\ Distinct(sent')
<1>0. ChanInv /\ MsgsInv
  BY DEF GroupInv
<1>1. c \in DOMAIN taken
  BY <1>0, TakenHere
<1>2. /\ taken' = [taken EXCEPT ![c] = Append(taken[c], v)]
      /\ got' = [got EXCEPT ![t] = Append(got[t], v)]
      /\ sent' = sent /\ sends' = sends
  BY DEF Takes
<1>3. v \notin AllTaken(taken) /\ v \in Messages
  BY <1>0, <1>1, <1>2, NextIsNew DEF MsgsInv
<1>4. AllTaken(taken') = AllTaken(taken) \cup {v}
  BY <1>0, <1>1, <1>2, HandedOneMore
<1>5. Carried(ready, got') /\ Placed(MsgLines(ready, got'), AllTaken(taken) \cup {v})
  BY <1>0, <1>2, <1>3, MsgGot DEF MsgsInv
<1> QED
  BY <1>0, <1>2, <1>4, <1>5 DEF MsgsInv

\* A task joins the ready queue with no message.
LEMMA SilentQueued ==
  ASSUME NEW A, NEW re, NEW go, Carried(re, go), Placed(MsgLines(re, go), A),
         NEW t \in Tasks, NEW re2, re2 = q_push(re, Resume(t))
  PROVE  Carried(re2, go) /\ Placed(MsgLines(re2, go), A)
<1> DEFINE e == Resume(t)
<1>1. e \in Entries /\ e.msg = None /\ re2 = q_push(re, e)
  BY ResumeFacts
<1> HIDE DEF e
<1>2. e.msg \notin A /\ A \cup ({e.msg} \ {None}) = A
  BY <1>1 DEF Placed
<1>3. /\ Carried(q_push(re, e), go)
      /\ Placed(MsgLines(q_push(re, e), go), A \cup ({e.msg} \ {None}))
  BY <1>1, <1>2, MsgQueued
<1> QED
  BY <1>1, <1>2, <1>3

LEMMA SendMsgs ==
  ASSUME GroupInv, NEW t \in Tasks, NEW c \in DOMAIN chans, send_to(t, c)
  PROVE  MsgsInv'
<1> DEFINE v == <<t, sends>>
<1>0. ChanInv /\ MsgsInv
  BY DEF GroupInv
<1>1. /\ sends' = sends + 1 /\ sent' = [sent EXCEPT ![c] = Append(sent[c], v)]
      /\ got' = got
  BY DEF send_to
<1>2. SendToReceiver(t, c, v) \/ SendToBuffer(t, c, v) \/ SendParks(t, c, v)
  BY DEF send_to
<1>3. v = <<t, sends>>
  OBVIOUS
<1> HIDE DEF v
<1>4. /\ Numbered(sent', sends') /\ Distinct(sent')
      /\ v \notin AllTaken(taken) /\ v \in Messages
  BY <1>0, <1>1, <1>3, SentIsNew DEF MsgsInv
<1>5. CASE SendToReceiver(t, c, v)
  <2> DEFINE p == q_pop(chans[c].receivers)
             e == ResumeWith(p.x, v)
  <2>1. /\ q_has(chans[c].receivers) /\ ready' = q_push(ready, e)
        /\ taken' = [taken EXCEPT ![c] = Append(taken[c], v)]
    BY <1>5 DEF SendToReceiver
  <2>2. p.x \in Tasks
    <3>1. chans[c].receivers \in Queues(Tasks)
      BY <1>0, OneChannel, Held
    <3> QED
      BY <2>1, <3>1, QueuePop
  <2>3. e \in Entries /\ e.msg = v
    BY <1>4, <2>2, ResumeFacts
  <2> HIDE DEF p, e
  <2>4. AllTaken(taken') = AllTaken(taken) \cup {v}
    BY <1>0, <2>1, TakenHere, HandedOneMore
  <2>5. v # None
    BY <1>4, AsyncAssumption DEF Messages
  <2>6. Carried(ready', got) /\ Placed(MsgLines(ready', got), AllTaken(taken) \cup ({v} \ {None}))
    BY <1>0, <1>4, <2>1, <2>3, MsgQueued DEF MsgsInv
  <2>7. AllTaken(taken) \cup ({v} \ {None}) = AllTaken(taken')
    BY <2>4, <2>5
  <2> QED
    BY <1>1, <1>4, <2>6, <2>7 DEF MsgsInv
<1>6. CASE SendToBuffer(t, c, v) \/ SendParks(t, c, v)
  <2>1. ready' = ready /\ taken' = taken
    BY <1>6 DEF SendToBuffer, SendParks
  <2> QED
    BY <1>0, <1>1, <1>4, <2>1 DEF MsgsInv
<1> QED
  BY <1>2, <1>5, <1>6

LEMMA RecvMsgs ==
  ASSUME GroupInv, ChanInv', NEW t \in Tasks, NEW c \in DOMAIN chans, recv_from(t, c)
  PROVE  MsgsInv'
<1>0. ChanInv /\ MsgsInv
  BY DEF GroupInv
<1>1. UNCHANGED <<sends, sent>>
  BY DEF recv_from
<1>2. \/ RecvAndRefill(t, c) \/ RecvBuffered(t, c) \/ RecvRendezvous(t, c) \/ RecvParks(t, c)
  BY DEF recv_from
<1>3. CASE RecvParks(t, c)
  BY <1>0, <1>1, <1>3 DEF RecvParks, MsgsInv
<1>4. ASSUME NEW v, Takes(t, c, v), ready' = ready
      PROVE  MsgsInv'
  <2>1. /\ Carried(ready, got') /\ Placed(MsgLines(ready, got'), AllTaken(taken'))
        /\ Numbered(sent', sends') /\ Distinct(sent')
    BY <1>1, <1>4, TakesKeeps
  <2> QED
    BY <1>4, <2>1 DEF MsgsInv
<1>5. ASSUME NEW v, Takes(t, c, v), q_has(chans[c].senders),
             ready' = q_push(ready, Resume(q_pop(chans[c].senders).x[2]))
      PROVE  MsgsInv'
  <2> DEFINE u == q_pop(chans[c].senders).x[2]
  <2>1. /\ Carried(ready, got') /\ Placed(MsgLines(ready, got'), AllTaken(taken'))
        /\ Numbered(sent', sends') /\ Distinct(sent')
    BY <1>1, <1>5, TakesKeeps
  <2>2. u \in Tasks
    <3>1. chans[c].senders \in Queues(Offers)
      BY <1>0, OneChannel, Held
    <3>2. q_pop(chans[c].senders).x \in Offers
      BY <1>5, <3>1, QueuePop
    <3> QED
      BY <3>2 DEF Offers
  <2>3. ready' = q_push(ready, Resume(u))
    BY <1>5
  <2> HIDE DEF u
  <2>4. Carried(ready', got') /\ Placed(MsgLines(ready', got'), AllTaken(taken'))
    BY <2>1, <2>2, <2>3, SilentQueued
  <2> QED
    BY <2>1, <2>4 DEF MsgsInv
<1>6. CASE RecvAndRefill(t, c)
  BY <1>5, <1>6 DEF RecvAndRefill
<1>7. CASE RecvBuffered(t, c)
  BY <1>4, <1>7 DEF RecvBuffered
<1>8. CASE RecvRendezvous(t, c)
  BY <1>5, <1>8 DEF RecvRendezvous
<1> QED
  BY <1>2, <1>3, <1>6, <1>7, <1>8

LEMMA MsgsStep ==
  ASSUME GroupInv, ChanInv', [Next]_vars
  PROVE  MsgsInv'
<1>0. ChanInv /\ TasksInv /\ MsgsInv
  BY DEF GroupInv
<1>1. CASE UNCHANGED <<ready, got, taken, sent, sends>>
  BY <1>0, <1>1 DEF MsgsInv
<1>2. ASSUME NEW t \in Tasks, ready' = q_push(ready, Resume(t)),
             UNCHANGED <<got, taken, sent, sends>>
      PROVE  MsgsInv'
  <2>1. Carried(ready', got) /\ Placed(MsgLines(ready', got), AllTaken(taken))
    BY <1>0, <1>2, SilentQueued DEF MsgsInv
  <2> QED
    BY <1>0, <1>2, <2>1 DEF MsgsInv
<1>3. CASE RunReady
  <2> DEFINE p == q_pop(ready)
  <2>1. /\ q_has(ready) /\ ready' = p.rest /\ UNCHANGED <<taken, sent, sends>>
        /\ got' = IF p.x.msg = None THEN got
                  ELSE [got EXCEPT ![p.x.task] = Append(got[p.x.task], p.x.msg)]
    BY <1>3 DEF RunReady
  <2>2. p = q_pop(ready)
    OBVIOUS
  <2> HIDE DEF p
  <2>3. Carried(p.rest, got') /\ Placed(MsgLines(p.rest, got'), AllTaken(taken))
    BY <1>0, <2>1, <2>2, MsgResumed DEF MsgsInv
  <2> QED
    BY <1>0, <2>1, <2>3 DEF MsgsInv
<1>4. CASE Poll
  <2>1. PICK woken \in PollAnswers :
          \/ woken = {} /\ over' = TRUE /\ UNCHANGED <<ready, waiting>>
          \/ woken # {} /\ wake(woken) /\ UNCHANGED over
    BY <1>4 DEF Poll
  <2>2. UNCHANGED <<got, taken, sent, sends>>
    BY <1>4 DEF Poll, hist
  <2>3. CASE UNCHANGED ready
    BY <1>1, <2>2, <2>3
  <2>4. CASE wake(woken)
    <3> DEFINE w == Walked(woken)
    <3>1. ready' = w.ready /\ w = Walked(woken)
      BY <2>4 DEF wake
    <3> HIDE DEF w
    <3>2. Carried(w.ready, got) /\ Placed(MsgLines(w.ready, got), AllTaken(taken))
      BY <1>0, <3>1, WakeKeeps DEF TasksInv, MsgsInv
    <3> QED
      BY <1>0, <2>2, <3>1, <3>2 DEF MsgsInv
  <2> QED
    BY <2>1, <2>3, <2>4
<1>5. ASSUME NEW t \in Tasks, serve(t)
      PROVE  MsgsInv'
  <2>1. CASE Done(t) \/ Waits(t)
    BY <1>1, <2>1 DEF Done, Waits, hist
  <2>2. CASE Yielded(t)
    BY <1>2, <2>2 DEF Yielded, hist
  <2>3. ASSUME NEW child \in Tasks, Spawned(t, child)
        PROVE  MsgsInv'
    BY <1>2, <2>3 DEF Spawned, hist
  <2>4. ASSUME NEW cap \in Caps, Made(t, cap)
        PROVE  MsgsInv'
    <3>1. /\ taken' = Append(taken, <<>>) /\ sent' = Append(sent, <<>>)
          /\ UNCHANGED <<ready, got, sends>>
      BY <2>4 DEF Made
    <3>2. /\ sent \in Seq(Seq(Messages)) /\ taken \in Seq(Seq(Messages))
          /\ Len(sent) = Len(taken) /\ Len(sent) \in Nat
      BY <1>0 DEF ChanInv, ChanTypes
    <3> DEFINE n == Len(sent)
    <3>3. /\ DOMAIN sent = 1 .. n /\ DOMAIN taken = 1 .. n
          /\ DOMAIN sent' = 1 .. n + 1 /\ DOMAIN taken' = 1 .. n + 1
          /\ sent'[n + 1] = <<>> /\ taken'[n + 1] = <<>>
          /\ \A d \in 1 .. n : sent'[d] = sent[d] /\ taken'[d] = taken[d]
      BY <3>1, <3>2
    <3>n. n \in Nat
      BY <3>2
    <3> HIDE DEF n
    <3>4. \A d \in DOMAIN sent' : \A i \in DOMAIN sent'[d] :
            d \in DOMAIN sent /\ sent'[d] = sent[d]
      <4> SUFFICES ASSUME NEW d \in DOMAIN sent', NEW i \in DOMAIN sent'[d]
                   PROVE  d \in DOMAIN sent /\ sent'[d] = sent[d]
        OBVIOUS
      <4>1. d = n + 1 \/ d \in 1 .. n
        BY <3>3, <3>n
      <4> QED
        BY <3>3, <4>1
    <3>5. Numbered(sent', sends') /\ Distinct(sent')
      BY <1>0, <3>1, <3>4 DEF MsgsInv, Numbered, Distinct
    <3>6. AllTaken(taken') = AllTaken(taken)
      <4>1. ASSUME NEW x \in AllTaken(taken')
            PROVE  x \in AllTaken(taken)
        <5>1. PICK d \in DOMAIN taken' : \E i \in DOMAIN taken'[d] : x = taken'[d][i]
          BY <4>1 DEF AllTaken
        <5>2. d = n + 1 \/ d \in 1 .. n
          BY <3>3, <3>n
        <5> QED
          BY <3>3, <5>1, <5>2 DEF AllTaken
      <4>2. ASSUME NEW x \in AllTaken(taken)
            PROVE  x \in AllTaken(taken')
        <5>1. PICK d \in DOMAIN taken : \E i \in DOMAIN taken[d] : x = taken[d][i]
          BY <4>2 DEF AllTaken
        <5>2. d \in 1 .. n /\ d \in 1 .. n + 1
          BY <3>3, <3>n
        <5> QED
          BY <3>3, <5>1, <5>2 DEF AllTaken
      <4> QED
        BY <4>1, <4>2
    <3> QED
      BY <1>0, <3>1, <3>5, <3>6 DEF MsgsInv
  <2> QED
    BY <1>5, <2>1, <2>2, <2>3, <2>4, SendMsgs, RecvMsgs DEF serve
<1>6. CASE GroupOver
  BY <1>1, <1>6 DEF GroupOver, hist
<1>7. CASE UNCHANGED vars
  BY <1>1, <1>7 DEF vars
<1> QED
  BY <1>3, <1>4, <1>5, <1>6, <1>7 DEF Next, schedule

-----------------------------------------------------------------------------
(***************************************************************************)
(* The flags, and the invariant as a whole.                                *)
(***************************************************************************)
LEMMA FlagsStep ==
  ASSUME GroupInv, [Next]_vars
  PROVE  FlagsInv'
<1>0. FlagsInv
  BY DEF GroupInv
<1>1. Main \in Tasks /\ None \notin Tasks
  BY AsyncAssumption
<1>2. CASE UNCHANGED <<polls, result, over, ended, born, ready, cur>>
  BY <1>0, <1>2 DEF FlagsInv
<1>3. CASE RunReady /\ UNCHANGED polls
  <2>1. ~over' /\ UNCHANGED <<polls, result, over, ended, born>>
    BY <1>0, <1>3 DEF RunReady, Idle, FlagsInv
  <2> QED
    BY <1>0, <2>1 DEF FlagsInv
<1>4. CASE GroupOver /\ UNCHANGED polls
  <2>1. /\ over' = TRUE /\ ~q_has(ready) /\ cur = None
        /\ UNCHANGED <<polls, result, ended, born, ready, cur>>
    BY <1>4 DEF GroupOver, Idle
  <2> QED
    BY <1>0, <2>1 DEF FlagsInv
<1>5. CASE Poll /\ UNCHANGED polls
  <2>1. /\ cur = None /\ ~over /\ ~q_has(ready) /\ UNCHANGED <<polls, result, ended, born, cur>>
    BY <1>5 DEF Poll, Idle
  <2>2. PICK woken \in PollAnswers :
          \/ woken = {} /\ over' = TRUE /\ UNCHANGED <<ready, waiting>>
          \/ woken # {} /\ wake(woken) /\ UNCHANGED over
    BY <1>5 DEF Poll
  <2>3. CASE woken = {} /\ over' = TRUE /\ UNCHANGED <<ready, waiting>>
    BY <1>0, <2>1, <2>3 DEF FlagsInv
  <2>4. CASE UNCHANGED over
    BY <1>0, <2>1, <2>4 DEF FlagsInv
  <2> QED
    BY <2>2, <2>3, <2>4
<1>6. ASSUME NEW t \in Tasks, serve(t), UNCHANGED polls
      PROVE  FlagsInv'
  <2>1. cur = t
    BY <1>6 DEF serve, Done, Yielded, Spawned, Made, Waits, send_to, recv_from
  <2>2. ~over
    BY <1>0, <1>1, <2>1 DEF FlagsInv
  <2>3. CASE Done(t)
    <3>1. /\ result' = (IF t = Main THEN Main ELSE result) /\ ended' = ended \cup {t}
          /\ over' = over /\ born' = born
      BY <2>3 DEF Done
    <3>2. over' = FALSE /\ over' \in BOOLEAN /\ polls' \in BOOLEAN
      BY <1>0, <1>6, <2>2, <3>1 DEF FlagsInv
    <3>3. result' \in {None, Main} /\ (result' = Main <=> Main \in ended')
      BY <1>0, <1>1, <3>1 DEF FlagsInv
    <3> QED
      BY <1>0, <3>1, <3>2, <3>3 DEF FlagsInv
  <2>4. CASE UNCHANGED <<result, over, ended>> /\ born \subseteq born'
    BY <1>0, <1>6, <2>2, <2>4 DEF FlagsInv
  <2> QED
    BY <1>6, <2>3, <2>4 DEF serve, Yielded, Spawned, Made, Waits, send_to, recv_from
<1>7. CASE UNCHANGED vars
  BY <1>2, <1>7 DEF vars
<1> QED
  BY <1>3, <1>4, <1>5, <1>6, <1>7 DEF Next, schedule

LEMMA GroupInit ==
  ASSUME Init
  PROVE  GroupInv
<1> USE DEF Init
<1>1. ChanInv
  BY ChanInit
<1>2. Main \in Tasks /\ None \notin Tasks /\ Main # None
  BY AsyncAssumption
<1> DEFINE e == Resume(Main)
<1>e. e \in Entries /\ e.task = Main /\ e.msg = None /\ ready = q_push(q_empty, e)
  BY <1>2, ResumeFacts
<1>3. /\ q_empty \in Queues(Entries) /\ Contents(q_empty) = <<>>
      /\ Mapped(TaskOf, <<>>) = <<>> /\ Mapped(MsgOf, <<>>) = <<>>
  <2>1. Reverse(<<>>) = <<>> /\ <<>> \o <<>> = <<>>
    BY DEF Reverse
  <2> QED
    BY <2>1 DEF q_empty, Queues, Contents, Mapped
<1> HIDE DEF e
<1>4. Standing(None, q_empty, <<>>, <<>>, <<>>)
  BY <1>3 DEF Standing
<1>5. Placed(TaskLines(None, q_empty, <<>>, <<>>, <<>>), {})
  <2> DEFINE L == TaskLines(None, q_empty, <<>>, <<>>, <<>>)
  <2>1. AreLines(L, None, q_empty, <<>>, <<>>, <<>>)
    BY <1>4, TaskLine
  <2> HIDE DEF L
  <2>2. Len(<<>>) = 0 /\ 1 .. 0 = {}
    OBVIOUS
  <2>3. \A s \in DOMAIN L : L[s] = <<>>
    BY <1>3, <2>1, <2>2 DEF AreLines
  <2>4. Placed(L, {})
    BY <2>3 DEF Placed, Held1, Somewhere, Nowhere2
  <2> QED
    BY <2>4 DEF L
<1>6. Standing(None, ready, <<>>, <<>>, <<>>)
      /\ Placed(TaskLines(None, ready, <<>>, <<>>, <<>>), {} \cup {Main})
  BY <1>4, <1>5, <1>e, JoinsReady
<1>7. TasksInv
  <2>1. {} \cup {Main} = {Main} \ {}
    OBVIOUS
  <2> QED
    BY <1>2, <1>6, <2>1 DEF TasksInv
<1>8. Carried(q_empty, got)
  <2>1. got \in [Tasks -> Seq(Messages)]
    OBVIOUS
  <2> QED
    BY <1>3, <2>1 DEF Carried
<1>9. Placed(MsgLines(q_empty, got), {})
  <2> DEFINE L == MsgLines(q_empty, got)
  <2>1. AreMsgs(L, q_empty, got)
    BY <1>8, MsgLine
  <2> HIDE DEF L
  <2>2. \A s \in DOMAIN L : L[s] = <<>>
    BY <1>3, <2>1 DEF AreMsgs
  <2>3. Placed(L, {})
    BY <2>2 DEF Placed, Held1, Somewhere, Nowhere2
  <2> QED
    BY <2>3 DEF L
<1>10. Carried(ready, got) /\ Placed(MsgLines(ready, got), {})
  BY <1>2, <1>8, <1>9, SilentQueued
<1>11. AllTaken(taken) = {}
  BY DEF AllTaken
<1>12. MsgsInv
  <2>1. DOMAIN sent = {}
    OBVIOUS
  <2>2. Numbered(sent, sends) /\ Distinct(sent)
    BY <2>1 DEF Numbered, Distinct
  <2> QED
    BY <1>10, <1>11, <2>2 DEF MsgsInv
<1>13. FlagsInv
  BY <1>2 DEF FlagsInv
<1> QED
  BY <1>1, <1>7, <1>12, <1>13 DEF GroupInv

LEMMA GroupInvHolds == Spec => []GroupInv
<1>1. GroupInv /\ [Next]_vars => GroupInv'
  <2> SUFFICES ASSUME GroupInv, [Next]_vars PROVE GroupInv'
    OBVIOUS
  <2>1. ChanInv'
    BY ChanStep DEF GroupInv
  <2> QED
    BY <2>1, TasksStep, MsgsStep, FlagsStep DEF GroupInv
<1> QED
  BY <1>1, GroupInit, PTL DEF Spec

-----------------------------------------------------------------------------
(***************************************************************************)
(* What the invariant says of the group.                                   *)
(***************************************************************************)
\* Queues, channels and histories keep their shapes, whatever tasks do and
\* whatever capacities they ask for (`chan` raises a negative one to 0).
THEOREM AsyncTypeCorrect == Spec => []TypeOK
<1>1. GroupInv => TypeOK
  <2> SUFFICES ASSUME GroupInv PROVE TypeOK
    OBVIOUS
  <2>1. /\ chans \in Seq(Channels) /\ sends \in Nat
        /\ sent \in Seq(Seq(Messages)) /\ Len(sent) = Len(chans)
        /\ taken \in Seq(Seq(Messages)) /\ Len(taken) = Len(chans)
    BY DEF GroupInv, ChanInv, ChanTypes
  <2>2. /\ ready \in Queues(Entries) /\ waiting \in Seq(Tasks) /\ cur \in Tasks \cup {None}
        /\ born \in SUBSET Tasks /\ ended \in SUBSET Tasks
    BY DEF GroupInv, TasksInv, Standing
  <2>3. got \in [Tasks -> Seq(Messages)]
    BY DEF GroupInv, MsgsInv, Carried
  <2>4. polls \in BOOLEAN /\ result \in {None, Main} /\ over \in BOOLEAN
    BY DEF GroupInv, FlagsInv
  <2> QED
    BY <2>1, <2>2, <2>3, <2>4 DEF TypeOK
<1> QED
  BY <1>1, GroupInvHolds, PTL

LEMMA HeldMeansSome ==
  ASSUME NEW S, NEW q \in Queues(S)
  PROVE  DOMAIN Contents(q) # {} <=> q_has(q)
<1>1. Contents(q) \in Seq(S) /\ (q_has(q) <=> Contents(q) # <<>>)
  BY ContentsType
<1>2. DOMAIN Contents(q) = 1 .. Len(Contents(q)) /\ Len(Contents(q)) \in Nat
  BY <1>1, LenProperties
<1>3. Contents(q) = <<>> <=> Len(Contents(q)) = 0
  BY <1>1, EmptySeq
<1> DEFINE n == Len(Contents(q))
<1>4. n \in Nat /\ DOMAIN Contents(q) = 1 .. n /\ (q_has(q) <=> n # 0)
  BY <1>1, <1>2, <1>3
<1> HIDE DEF n
<1>5. 1 .. n # {} <=> n # 0
  BY <1>4
<1> QED
  BY <1>4, <1>5

\* A group that has returned left blocked tasks only, each of them parked where
\* nobody can serve it: no continuation is lost on the way, and no channel has
\* both what a parked task wants and the task (schedule, send_to, recv_from,
\* wake).  Its answer is None when main is among them.
THEOREM LeavesOnlyBlocked == Spec => []EndsBlocked
<1>1. ASSUME GroupInv, over, NEW t \in born \ ended
      PROVE  SendsOnFull(t) \/ RecvsOnEmpty(t) \/ WaitsOnFd(t)
  <2> DEFINE L == TaskLines(cur, ready, waiting, <<>>, chans)
  <2>1. /\ Standing(cur, ready, waiting, <<>>, chans) /\ t \in Tasks /\ t # None
        /\ AreLines(L, cur, ready, waiting, <<>>, chans) /\ Placed(L, born \ ended)
    BY <1>1, TaskLine, AsyncAssumption DEF GroupInv, TasksInv
  <2>2. ~q_has(ready) /\ cur = None
    BY <1>1 DEF GroupInv, FlagsInv
  <2> HIDE DEF L
  <2>3. PICK s \in DOMAIN L : \E i \in DOMAIN L[s] : L[s][i] = t
    BY <1>1, <2>1 DEF Placed, Somewhere
  <2>4. PICK i \in DOMAIN L[s] : L[s][i] = t
    BY <2>3
  <2>5. s \notin {AtCur, AtLeft}
    BY <2>1, <2>2, <2>4 DEF AreLines
  <2>6. s # AtReady
    <3>1. ready \in Queues(Entries) /\ Contents(ready) \in Seq(Entries)
      BY <2>1, ContentsType DEF Standing
    <3>2. DOMAIN Contents(ready) = {}
      BY <2>2, <3>1, HeldMeansSome
    <3>3. L[AtReady] = Mapped(TaskOf, Contents(ready))
      BY <2>1 DEF AreLines
    <3>4. DOMAIN L[AtReady] = {}
      BY <3>2, <3>3 DEF Mapped
    <3> QED
      BY <2>4, <3>4
  <2>7. CASE s = AtWaiting
    <3>1. L[AtWaiting] = waiting
      BY <2>1 DEF AreLines
    <3> QED
      BY <2>4, <2>7, <3>1 DEF WaitsOnFd
  <2>8. ASSUME NEW c \in 1 .. Len(chans), s = AtSender(c) \/ s = AtReceiver(c)
        PROVE  SendsOnFull(t) \/ RecvsOnEmpty(t)
    <3>1. /\ chans[c] \in Channels /\ c \in DOMAIN chans
      BY <2>1, ElementOfSeq, LenProperties DEF Standing
    <3>2. Cause(chans[c])
      BY <1>1, <3>1 DEF GroupInv, ChanInv, ParkedForCause
    <3> DEFINE z == Contents(chans[c].senders)
               w == Contents(chans[c].receivers)
    <3>3. /\ chans[c].senders \in Queues(Offers) /\ chans[c].receivers \in Queues(Tasks)
          /\ z \in Seq(Offers) /\ w \in Seq(Tasks)
      BY <3>1, Held, ContentsType DEF Channels, Offers
    <3>4. CASE s = AtSender(c)
      <4>1. L[s] = Mapped(SenderOf, z)
        BY <2>1, <3>4 DEF AreLines
      <4>2. DOMAIN z = 1 .. Len(z)
        BY <3>3, LenProperties
      <4>3. i \in DOMAIN z /\ L[s][i] = SenderOf[z[i]] /\ z[i] \in Offers
        <5> HIDE DEF z
        <5> QED
          BY <2>4, <3>3, <4>1, <4>2, MapsAre, MappedType
      <4>4. i \in DOMAIN z /\ z[i][2] = t
        BY <2>4, <4>3 DEF SenderOf
      <4>5. q_has(chans[c].senders)
        BY <3>3, <4>4, HeldMeansSome
      <4>6. Len(Contents(chans[c].buf)) = chans[c].cap /\ ~q_has(chans[c].receivers)
        BY <3>2, <4>5 DEF Cause
      <4>7. chans[c].cap \in Nat
        BY <3>1 DEF Channels
      <4> QED
        BY <3>1, <4>4, <4>6, <4>7 DEF SendsOnFull
    <3>5. CASE s = AtReceiver(c)
      <4>1. L[s] = w
        BY <2>1, <3>5 DEF AreLines
      <4>2. i \in DOMAIN w /\ w[i] = t
        BY <2>4, <4>1
      <4>3. q_has(chans[c].receivers)
        BY <3>3, <4>2, HeldMeansSome
      <4>4. ~q_has(chans[c].buf) /\ ~q_has(chans[c].senders)
        BY <3>2, <4>3 DEF Cause
      <4> QED
        BY <3>1, <4>2, <4>4 DEF RecvsOnEmpty
    <3> QED
      BY <2>8, <3>4, <3>5
  <2> QED
    BY <2>1, <2>5, <2>6, <2>7, <2>8 DEF AreLines
<1>2. ASSUME GroupInv
      PROVE  (result = None) = (Main \in born \ ended)
  <2>1. result \in {None, Main} /\ (result = Main <=> Main \in ended) /\ Main # None /\ Main \in born
    BY <1>2, AsyncAssumption DEF GroupInv, FlagsInv
  <2> QED
    BY <2>1
<1>3. GroupInv => EndsBlocked
  BY <1>1, <1>2 DEF EndsBlocked
<1> QED
  BY <1>3, GroupInvHolds, PTL

-----------------------------------------------------------------------------
\* The place a position of a line stands for.
IsPlace(p, s, i) ==
  \/ s = AtCur /\ p = <<"cur", 0>>
  \/ s = AtReady /\ p = <<"ready", i>>
  \/ s = AtWaiting /\ p = <<"waiting", i>>
  \/ \E c \in DOMAIN chans : \/ s = AtSender(c) /\ p = <<"sender", c, i>>
                             \/ s = AtReceiver(c) /\ p = <<"receiver", c, i>>

LEMMA OnePlaceEach ==
  ASSUME NEW s, NEW i, NEW p, NEW q, IsPlace(p, s, i), IsPlace(q, s, i)
  PROVE  p = q
<1>1. CASE s \in {AtCur, AtReady, AtWaiting, AtLeft}
  BY <1>1, SitesDiffer DEF IsPlace
<1>2. CASE s \notin {AtCur, AtReady, AtWaiting, AtLeft}
  <2>1. PICK c \in DOMAIN chans : \/ s = AtSender(c) /\ p = <<"sender", c, i>>
                                  \/ s = AtReceiver(c) /\ p = <<"receiver", c, i>>
    BY <1>2 DEF IsPlace
  <2>2. PICK d \in DOMAIN chans : \/ s = AtSender(d) /\ q = <<"sender", d, i>>
                                  \/ s = AtReceiver(d) /\ q = <<"receiver", d, i>>
    BY <1>2 DEF IsPlace
  <2>3. c = d /\ ~(s = AtSender(c) /\ s = AtReceiver(d))
              /\ ~(s = AtReceiver(c) /\ s = AtSender(d))
    BY <2>1, <2>2, SitesDiffer
  <2> QED
    BY <2>1, <2>2, <2>3
<1> QED
  BY <1>1, <1>2

GroupLines == TaskLines(cur, ready, waiting, <<>>, chans)

LEMMA PlacesAre ==
  ASSUME NEW t
  PROVE  /\ \A p : p \in Places(t) <=>
               \/ p = <<"cur", 0>> /\ cur = t
               \/ p = <<"ended", 0>> /\ t \in ended
               \/ \E i \in DOMAIN Contents(ready) : Contents(ready)[i].task = t /\ p = <<"ready", i>>
               \/ \E i \in DOMAIN waiting : waiting[i] = t /\ p = <<"waiting", i>>
               \/ \E c \in DOMAIN chans : p \in ParkedOn(t, c)
         /\ \A c, p : p \in ParkedOn(t, c) <=>
               \/ \E i \in DOMAIN Contents(chans[c].senders) :
                    Contents(chans[c].senders)[i][2] = t /\ p = <<"sender", c, i>>
               \/ \E i \in DOMAIN Contents(chans[c].receivers) :
                    Contents(chans[c].receivers)[i] = t /\ p = <<"receiver", c, i>>
<1>1. \A p : p \in Places(t) <=>
        \/ p = <<"cur", 0>> /\ cur = t
        \/ p = <<"ended", 0>> /\ t \in ended
        \/ \E i \in DOMAIN Contents(ready) : Contents(ready)[i].task = t /\ p = <<"ready", i>>
        \/ \E i \in DOMAIN waiting : waiting[i] = t /\ p = <<"waiting", i>>
        \/ \E c \in DOMAIN chans : p \in ParkedOn(t, c)
  BY DEF Places
<1>2. \A c, p : p \in ParkedOn(t, c) <=>
        \/ \E i \in DOMAIN Contents(chans[c].senders) :
             Contents(chans[c].senders)[i][2] = t /\ p = <<"sender", c, i>>
        \/ \E i \in DOMAIN Contents(chans[c].receivers) :
             Contents(chans[c].receivers)[i] = t /\ p = <<"receiver", c, i>>
  BY DEF ParkedOn
<1> QED
  BY <1>1, <1>2

\* A place of a task is a position it has in a line.
LEMMA PlaceIsPosition ==
  ASSUME GroupInv, NEW t \in Tasks, NEW p \in Places(t)
  PROVE  \/ p = <<"ended", 0>> /\ t \in ended
         \/ \E s \in DOMAIN GroupLines : \E i \in DOMAIN GroupLines[s] :
              GroupLines[s][i] = t /\ IsPlace(p, s, i)
<1> DEFINE L == GroupLines
           re == Contents(ready)
<1>0. /\ Standing(cur, ready, waiting, <<>>, chans)
      /\ AreLines(L, cur, ready, waiting, <<>>, chans)
  BY TaskLine DEF GroupInv, TasksInv, GroupLines
<1>1. DOMAIN chans = 1 .. Len(chans)
  BY <1>0, LenProperties DEF Standing
<1> HIDE DEF L
<1>2. \/ p = <<"cur", 0>> /\ cur = t
      \/ p = <<"ended", 0>> /\ t \in ended
      \/ \E i \in DOMAIN re : re[i].task = t /\ p = <<"ready", i>>
      \/ \E i \in DOMAIN waiting : waiting[i] = t /\ p = <<"waiting", i>>
      \/ \E c \in DOMAIN chans : \E i \in DOMAIN Contents(chans[c].senders) :
           Contents(chans[c].senders)[i][2] = t /\ p = <<"sender", c, i>>
      \/ \E c \in DOMAIN chans : \E i \in DOMAIN Contents(chans[c].receivers) :
           Contents(chans[c].receivers)[i] = t /\ p = <<"receiver", c, i>>
  BY PlacesAre
<1>3. CASE p = <<"cur", 0>> /\ cur = t
  <2>1. t # None
    BY AsyncAssumption
  <2>2. AtCur \in DOMAIN L /\ L[AtCur] = <<t>>
    BY <1>0, <1>3, <2>1 DEF AreLines
  <2>3. 1 \in DOMAIN L[AtCur] /\ L[AtCur][1] = t
    BY <2>2
  <2> QED
    BY <1>3, <2>2, <2>3 DEF IsPlace, L
<1>4. ASSUME NEW i \in DOMAIN re, re[i].task = t, p = <<"ready", i>>
      PROVE  \E s \in DOMAIN L : \E j \in DOMAIN L[s] : L[s][j] = t /\ IsPlace(p, s, j)
  <2>1. re \in Seq(Entries)
    BY <1>0, ContentsType DEF Standing
  <2>2. i \in 1 .. Len(re) /\ re[i] \in Entries
    BY <2>1
  <2>3. AtReady \in DOMAIN L /\ L[AtReady] = Mapped(TaskOf, re)
    BY <1>0 DEF AreLines
  <2> HIDE DEF re
  <2>4. i \in DOMAIN L[AtReady] /\ L[AtReady][i] = TaskOf[re[i]]
    BY <2>1, <2>2, <2>3, MapsAre, MappedType
  <2>5. L[AtReady][i] = t
    BY <1>4, <2>2, <2>4 DEF TaskOf
  <2> QED
    BY <1>4, <2>3, <2>4, <2>5 DEF IsPlace
<1>5. ASSUME NEW i \in DOMAIN waiting, waiting[i] = t, p = <<"waiting", i>>
      PROVE  \E s \in DOMAIN L : \E j \in DOMAIN L[s] : L[s][j] = t /\ IsPlace(p, s, j)
  <2>1. AtWaiting \in DOMAIN L /\ L[AtWaiting] = waiting
    BY <1>0 DEF AreLines
  <2> QED
    BY <1>5, <2>1 DEF IsPlace
<1>6. ASSUME NEW c \in DOMAIN chans, NEW i \in DOMAIN Contents(chans[c].senders),
             Contents(chans[c].senders)[i][2] = t, p = <<"sender", c, i>>
      PROVE  \E s \in DOMAIN L : \E j \in DOMAIN L[s] : L[s][j] = t /\ IsPlace(p, s, j)
  <2> DEFINE z == Contents(chans[c].senders)
  <2>1. z \in Seq(Offers)
    <3>1. chans[c] \in Channels
      BY <1>0, <1>1, ElementOfSeq DEF Standing
    <3> QED
      BY <3>1, Held
  <2>2. i \in 1 .. Len(z) /\ z[i] \in Offers
    BY <2>1
  <2>3. AtSender(c) \in DOMAIN L /\ L[AtSender(c)] = Mapped(SenderOf, z)
    BY <1>0, <1>1 DEF AreLines
  <2>x. z[i][2] = t
    BY <1>6
  <2> HIDE DEF z
  <2>4. i \in DOMAIN L[AtSender(c)] /\ L[AtSender(c)][i] = SenderOf[z[i]]
    BY <2>1, <2>2, <2>3, MapsAre, MappedType
  <2>5. L[AtSender(c)][i] = t
    BY <2>x, <2>2, <2>4 DEF SenderOf
  <2> QED
    BY <1>6, <2>3, <2>4, <2>5 DEF IsPlace
<1>7. ASSUME NEW c \in DOMAIN chans, NEW i \in DOMAIN Contents(chans[c].receivers),
             Contents(chans[c].receivers)[i] = t, p = <<"receiver", c, i>>
      PROVE  \E s \in DOMAIN L : \E j \in DOMAIN L[s] : L[s][j] = t /\ IsPlace(p, s, j)
  <2>1. AtReceiver(c) \in DOMAIN L /\ L[AtReceiver(c)] = Contents(chans[c].receivers)
    BY <1>0, <1>1 DEF AreLines
  <2> QED
    BY <1>7, <2>1 DEF IsPlace
<1> QED
  BY <1>2, <1>3, <1>4, <1>5, <1>6, <1>7 DEF L

\* A position a task has in a line is a place of it.
LEMMA PositionIsPlace ==
  ASSUME GroupInv, NEW t \in Tasks, NEW s \in DOMAIN GroupLines,
         NEW i \in DOMAIN GroupLines[s], GroupLines[s][i] = t
  PROVE  \E p \in Places(t) : IsPlace(p, s, i)
<1> DEFINE L == GroupLines
           re == Contents(ready)
<1>0. /\ Standing(cur, ready, waiting, <<>>, chans)
      /\ AreLines(L, cur, ready, waiting, <<>>, chans)
  BY TaskLine DEF GroupInv, TasksInv, GroupLines
<1>1. DOMAIN chans = 1 .. Len(chans)
  BY <1>0, LenProperties DEF Standing
<1>x. s \in DOMAIN L /\ i \in DOMAIN L[s] /\ L[s][i] = t
  OBVIOUS
<1> HIDE DEF L
<1>2. CASE s = AtCur
  <2>1. L[s] = IF cur = None THEN <<>> ELSE <<cur>>
    BY <1>0, <1>2 DEF AreLines
  <2>2. cur # None /\ i \in {1} /\ L[s][1] = cur
    BY <1>x, <2>1
  <2>3. cur = t
    BY <1>x, <2>2
  <2>4. <<"cur", 0>> \in Places(t)
    BY <2>3, PlacesAre
  <2> QED
    BY <1>2, <2>4 DEF IsPlace
<1>3. CASE s = AtReady
  <2>1. re \in Seq(Entries)
    BY <1>0, ContentsType DEF Standing
  <2>2. L[s] = Mapped(TaskOf, re)
    BY <1>0, <1>3 DEF AreLines
  <2>d. DOMAIN re = 1 .. Len(re)
    BY <2>1, LenProperties
  <2>y. re = Contents(ready)
    OBVIOUS
  <2> HIDE DEF re
  <2>3. i \in 1 .. Len(re) /\ L[s][i] = TaskOf[re[i]] /\ re[i] \in Entries
    BY <1>x, <2>1, <2>2, MapsAre, MappedType
  <2>4. i \in DOMAIN re /\ re[i].task = t
    BY <1>x, <2>3, <2>d DEF TaskOf
  <2>5. <<"ready", i>> \in Places(t)
    BY <2>4, <2>y, PlacesAre
  <2> QED
    BY <1>3, <2>5 DEF IsPlace
<1>4. CASE s = AtWaiting
  <2>1. L[s] = waiting
    BY <1>0, <1>4 DEF AreLines
  <2>2. <<"waiting", i>> \in Places(t)
    BY <1>x, <2>1, PlacesAre
  <2> QED
    BY <1>4, <2>2 DEF IsPlace
<1>5. CASE s = AtLeft
  <2>1. L[s] = <<>>
    BY <1>0, <1>5 DEF AreLines
  <2> QED
    BY <1>x, <2>1
<1>6. ASSUME NEW c \in 1 .. Len(chans), s = AtSender(c)
      PROVE  \E p \in Places(t) : IsPlace(p, s, i)
  <2> DEFINE z == Contents(chans[c].senders)
  <2>1. z \in Seq(Offers)
    <3>1. chans[c] \in Channels
      BY <1>0, ElementOfSeq DEF Standing
    <3> QED
      BY <3>1, Held
  <2>2. L[s] = Mapped(SenderOf, z)
    BY <1>0, <1>6 DEF AreLines
  <2>d. DOMAIN z = 1 .. Len(z)
    BY <2>1, LenProperties
  <2>y. z = Contents(chans[c].senders)
    OBVIOUS
  <2> HIDE DEF z
  <2>3. i \in 1 .. Len(z) /\ L[s][i] = SenderOf[z[i]] /\ z[i] \in Offers
    BY <1>x, <2>1, <2>2, MapsAre, MappedType
  <2>4. i \in DOMAIN z /\ z[i][2] = t /\ c \in DOMAIN chans
    BY <1>x, <1>1, <2>3, <2>d DEF SenderOf
  <2>5. <<"sender", c, i>> \in Places(t)
    BY <2>4, <2>y, PlacesAre
  <2> QED
    BY <1>1, <1>6, <2>5 DEF IsPlace
<1>7. ASSUME NEW c \in 1 .. Len(chans), s = AtReceiver(c)
      PROVE  \E p \in Places(t) : IsPlace(p, s, i)
  <2>1. L[s] = Contents(chans[c].receivers)
    BY <1>0, <1>7 DEF AreLines
  <2>2. c \in DOMAIN chans
    BY <1>1
  <2>3. <<"receiver", c, i>> \in Places(t)
    BY <1>x, <2>1, <2>2, PlacesAre
  <2> QED
    BY <1>7, <2>2, <2>3 DEF IsPlace
<1>8. \/ s \in {AtCur, AtReady, AtWaiting, AtLeft}
      \/ \E c \in 1 .. Len(chans) : s = AtSender(c) \/ s = AtReceiver(c)
  BY <1>0, <1>x DEF AreLines
<1> QED
  BY <1>2, <1>3, <1>4, <1>5, <1>6, <1>7, <1>8

\* A continuation is in exactly one place from the spawn to the end of its task:
\* the schedule, the channels and wake neither drop one nor keep it twice.
THEOREM ContinuationsAreUnique == Spec => []OnePlace
<1>1. ASSUME GroupInv, NEW t \in Tasks
      PROVE  Cardinality(Places(t)) = IF t \in born THEN 1 ELSE 0
  <2> DEFINE L == GroupLines
  <2>1. /\ Placed(L, born \ ended) /\ ended \subseteq born /\ t # None
    BY <1>1, AsyncAssumption DEF GroupInv, TasksInv, GroupLines
  <2>2. ASSUME NEW s \in DOMAIN L, NEW i \in DOMAIN L[s], L[s][i] = t
        PROVE  t \in born \ ended
    <3> HIDE DEF L
    <3> QED
      BY <2>1, <2>2 DEF Placed, Held1
  <2>3. CASE t \in born \ ended
    <3>1. PICK s \in DOMAIN L : \E i \in DOMAIN L[s] : L[s][i] = t
      <4> HIDE DEF L
      <4> QED
        BY <2>1, <2>3 DEF Placed, Somewhere
    <3>2. PICK i \in DOMAIN L[s] : L[s][i] = t
      BY <3>1
    <3>3. PICK p \in Places(t) : IsPlace(p, s, i)
      BY <1>1, <3>2, PositionIsPlace
    <3>4. ASSUME NEW q \in Places(t)
          PROVE  q = p
      <4>1. PICK o \in DOMAIN L : \E j \in DOMAIN L[o] : L[o][j] = t /\ IsPlace(q, o, j)
        BY <1>1, <2>3, PlaceIsPosition
      <4>2. PICK j \in DOMAIN L[o] : L[o][j] = t /\ IsPlace(q, o, j)
        BY <4>1
      <4> HIDE DEF L
      <4>3. o = s /\ j = i
        BY <2>1, <3>2, <4>2 DEF Placed, Nowhere2
      <4> QED
        BY <3>3, <4>2, <4>3, OnePlaceEach
    <3>5. Places(t) = {p}
      BY <3>3, <3>4
    <3> QED
      BY <2>3, <3>5, FS_Singleton
  <2>4. CASE t \in ended
    <3> DEFINE p == <<"ended", 0>>
    <3>1. p \in Places(t)
      BY <2>4, PlacesAre
    <3>2. \A q \in Places(t) : q = p
      BY <1>1, <2>2, <2>4, PlaceIsPosition
    <3> HIDE DEF p
    <3>3. Places(t) = {p}
      BY <3>1, <3>2
    <3> QED
      BY <2>1, <2>4, <3>3, FS_Singleton
  <2>5. CASE t \notin born
    <3>1. \A q \in Places(t) : FALSE
      BY <1>1, <2>1, <2>2, <2>5, PlaceIsPosition
    <3>2. Places(t) = {}
      BY <3>1
    <3> QED
      BY <2>5, <3>2, FS_EmptySet
  <2> QED
    BY <2>3, <2>4, <2>5
<1>2. GroupInv => OnePlace
  BY <1>1 DEF OnePlace
<1> QED
  BY <1>2, GroupInvHolds, PTL

\* What `send` handed to a receiver is resumed with once, by one task: it waits
\* in the ready queue or was received, and never both or twice.
THEOREM MessagesArriveOnce == Spec => []DeliveredOnce
<1>1. ASSUME GroupInv, NEW c \in DOMAIN taken, NEW i \in DOMAIN taken[c]
      PROVE  Cardinality({r \in Received : got[r[1]][r[2]] = taken[c][i]})
               + Cardinality({j \in InFlight : Contents(ready)[j].msg = taken[c][i]}) = 1
  <2> DEFINE L == MsgLines(ready, got)
             v == taken[c][i]
             re == Contents(ready)
             R == {r \in Received : got[r[1]][r[2]] = v}
             I == {j \in InFlight : re[j].msg = v}
  <2>1. Carried(ready, got) /\ Placed(L, AllTaken(taken))
    BY <1>1 DEF GroupInv, MsgsInv
  <2>2. AreMsgs(L, ready, got)
    BY <2>1, MsgLine
  <2>3. v \in AllTaken(taken)
    BY <1>1 DEF AllTaken
  <2>4. re \in Seq(Entries) /\ DOMAIN re = 1 .. Len(re)
    BY <2>1, ContentsType, LenProperties DEF Carried
  <2>5. AtReady \in DOMAIN L /\ DOMAIN L[AtReady] = DOMAIN re
        /\ \A j \in DOMAIN re : L[AtReady][j] = re[j].msg
    <3>1. AtReady \in DOMAIN L /\ L[AtReady] = Mapped(MsgOf, re)
      BY <2>2 DEF AreMsgs
    <3>2. DOMAIN Mapped(MsgOf, re) = 1 .. Len(re)
          /\ \A j \in 1 .. Len(re) : Mapped(MsgOf, re)[j] = MsgOf[re[j]]
      <4> HIDE DEF re
      <4> QED
        BY <2>4, MsgMap, MappedType
    <3>3. \A j \in DOMAIN re : re[j] \in Entries
      BY <2>4
    <3> HIDE DEF re, L
    <3> QED
      BY <2>4, <3>1, <3>2, <3>3 DEF MsgOf
  <2>6. \A t \in Tasks : AtGot(t) \in DOMAIN L /\ L[AtGot(t)] = got[t]
    BY <2>2 DEF AreMsgs
  <2>7. \A s \in DOMAIN L : s = AtReady \/ \E t \in Tasks : s = AtGot(t)
    BY <2>2 DEF AreMsgs
  <2> HIDE DEF L, v, re
  <2>8. v # None
    BY <2>1, <2>3 DEF Placed
  <2>9. PICK s \in DOMAIN L : \E k \in DOMAIN L[s] : L[s][k] = v
    BY <2>1, <2>3 DEF Placed, Somewhere
  <2>10. PICK k \in DOMAIN L[s] : L[s][k] = v
    BY <2>9
  <2>11. \A o \in DOMAIN L : \A j \in DOMAIN L[o] : L[o][j] = v => o = s /\ j = k
    BY <2>1, <2>8, <2>10 DEF Placed, Nowhere2
  <2>12. \A r \in Received : \E t \in Tasks : \E j \in DOMAIN got[t] : r = <<t, j>>
    BY DEF Received
  <2>13. ASSUME NEW r \in R
         PROVE  \E t \in Tasks : \E j \in DOMAIN got[t] :
                  r = <<t, j>> /\ s = AtGot(t) /\ j = k
    <3>1. PICK t \in Tasks : \E j \in DOMAIN got[t] : r = <<t, j>>
      BY <2>12
    <3>2. PICK j \in DOMAIN got[t] : r = <<t, j>>
      BY <3>1
    <3>3. got[t][j] = v
      BY <3>2
    <3>4. AtGot(t) \in DOMAIN L /\ j \in DOMAIN L[AtGot(t)] /\ L[AtGot(t)][j] = v
      BY <2>6, <3>3
    <3> QED
      BY <2>11, <3>2, <3>4
  <2>14. ASSUME NEW j \in I
         PROVE  s = AtReady /\ j = k
    <3>1. j \in DOMAIN re /\ re[j].msg = v
      BY DEF InFlight, re
    <3> QED
      BY <2>5, <2>11, <3>1
  <2>15. CASE s = AtReady
    <3>1. k \in DOMAIN re /\ re[k].msg = v
      BY <2>5, <2>10, <2>15
    <3>2. k \in I
      BY <2>8, <3>1 DEF InFlight, re
    <3>3. I = {k}
      <4> HIDE DEF I
      <4> QED
        BY <2>14, <3>2
    <3>4. R = {}
      <4> HIDE DEF R
      <4> QED
        BY <2>13, <2>15, GotDiffers
    <3> HIDE DEF I, R
    <3>5. Cardinality(I) = 1 /\ Cardinality(R) = 0
      BY <3>3, <3>4, FS_Singleton, FS_EmptySet
    <3> QED
      BY <3>5 DEF I, R, v, re
  <2>16. ASSUME NEW t \in Tasks, s = AtGot(t)
         PROVE  Cardinality(R) + Cardinality(I) = 1
    <3> DEFINE p == <<t, k>>
    <3>1. k \in DOMAIN got[t] /\ got[t][k] = v
      BY <2>6, <2>10, <2>16
    <3>2. p \in R
      BY <3>1 DEF Received
    <3>3. \A r \in R : r = p
      <4> HIDE DEF R
      <4> QED
        BY <2>13, <2>16, GotDiffers
    <3>4. I = {}
      <4> HIDE DEF I
      <4> QED
        BY <2>14, <2>16, GotDiffers
    <3> HIDE DEF p, R, I
    <3>5. R = {p}
      BY <3>2, <3>3
    <3>6. Cardinality(R) = 1 /\ Cardinality(I) = 0
      BY <3>4, <3>5, FS_Singleton, FS_EmptySet
    <3> QED
      BY <3>6
  <2> QED
    BY <2>7, <2>9, <2>15, <2>16 DEF v, re
<1>2. GroupInv => DeliveredOnce
  <2> SUFFICES ASSUME GroupInv PROVE DeliveredOnce
    OBVIOUS
  <2>1. DOMAIN chans = DOMAIN taken
    BY TakenHere DEF GroupInv
  <2> QED
    BY <1>1, <2>1 DEF DeliveredOnce
<1> QED
  BY <1>2, GroupInvHolds, PTL

=============================================================================
