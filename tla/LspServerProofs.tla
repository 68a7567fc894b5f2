-------------------------- MODULE LspServerProofs --------------------------
(***************************************************************************)
(* Proofs about the language server, for any finite set of documents and   *)
(* any number of messages.  Three things are carried from step to step:    *)
(* what each open document's versions are to one another, what the check   *)
(* queue holds, and what the messages on their way from the editor will    *)
(* find when they arrive.                                                  *)
(***************************************************************************)
EXTENDS LspServer, TLAPS, SequenceTheorems, FiniteSetTheorems

-----------------------------------------------------------------------------
(***************************************************************************)
(* Types.                                                                  *)
(***************************************************************************)
TextKinds == {"fine", "several", "placed", "unplaced", "none"}
MethodNames == {"didOpen", "didChange", "didSave", "didClose",
                "didChangeConfiguration", "hover", "codeAction", "exit"}
Deadlines == {"none", "waits", "ready"}

Snapshots == [version : Nat, kind : TextKinds, generation : Nat]
Stamped == UNION {[D -> [open : BOOLEAN, version : Nat]] : D \in SUBSET Docs}
Bases == [stamps : Stamped, generation : Nat, types : Seq(Nat)]
Opens == [version : Nat, kind : TextKinds, base : Bases \cup {None}, snapshot : Snapshots \cup {None},
          typing : BOOLEAN, focus : Nat, failure : Nat]
Graces == [edit : Nat, ready : BOOLEAN]
Publications == [version : Nat, held : BOOLEAN, ranked : BOOLEAN]

Servers ==
  [open : [Docs -> Opens \cup {Closed}], dirty : Seq(Docs), due : Deadlines,
   grace_due : [Docs -> Graces \cup {None}], rank_due : [Docs -> Deadlines],
   published : [Docs -> Publications \cup {None}], saved : [Docs -> Nat]]
Editors == [sent : Nat, version : [Docs -> Nat], open : SUBSET Docs, disk : [Docs -> Nat]]
Messages == [method : MethodNames, uri : Docs, version : Nat, kind : TextKinds]

\* A record of one kind is not a record of another.
LEMMA Distinct ==
  /\ None \notin Snapshots /\ None \notin Graces /\ None \notin Publications
  /\ None \notin Bases /\ Closed \notin Opens
BY DEF None, Closed, Snapshots, Bases, Graces, Publications, Opens

LEMMA OpenType ==
  ASSUME NEW s \in Servers, NEW u \in Docs, IsOpen(s, u)
  PROVE  s.open[u] \in Opens
BY DEF Servers, IsOpen

-----------------------------------------------------------------------------
(***************************************************************************)
(* What each part of a handler does to the server's state.                 *)
(***************************************************************************)
LEMMA MarkDirtyFields ==
  ASSUME NEW s \in Servers, NEW u \in Docs, NEW wait \in BOOLEAN
  PROVE  LET t == mark_dirty(s, u, wait)
         IN  /\ t \in Servers
             /\ t.dirty = IF Contains(s.dirty, u) THEN s.dirty ELSE Append(s.dirty, u)
             /\ t.open = s.open /\ t.published = s.published /\ t.saved = s.saved
<1>1. Append(s.dirty, u) \in Seq(Docs)
  BY AppendProperties DEF Servers
<1> QED
  BY <1>1 DEF mark_dirty, Servers, Deadlines

LEMMA OverlayType ==
  ASSUME NEW s \in Servers, editor \in Editors, NEW w \in Docs
  PROVE  Overlay(s, w) \in Nat
BY OpenType DEF Overlay, Opens, Editors

LEMMA StampsType ==
  ASSUME NEW s \in Servers, editor \in Editors, NEW u \in Docs
  PROVE  /\ Stamps(s, u) \in Stamped
         /\ \A w \in Docs \ {u} : Stamps(s, u)[w].version = Overlay(s, w)
<1>1. \A w \in Docs \ {u} : stamp(s, w) \in [open : BOOLEAN, version : Nat]
  BY OverlayType DEF stamp, IsOpen
<1>2. Stamps(s, u) \in [Docs \ {u} -> [open : BOOLEAN, version : Nat]]
  BY <1>1 DEF Stamps
<1>3. Docs \ {u} \in SUBSET Docs
  OBVIOUS
<1> QED
  BY <1>2, <1>3 DEF Stamped, Stamps, stamp

\* A fresh check leaves its own types only.
LEMMA FreshCheck ==
  ASSUME NEW b \in Bases, NEW text \in Nat
  PROVE  /\ check_root(b, text, TRUE) \in Bases
         /\ check_root(b, text, TRUE).types = <<text>>
         /\ check_root(b, text, TRUE).stamps = b.stamps
<1>1. Append(<<>>, text) = <<text>> /\ <<text>> \in Seq(Nat)
  OBVIOUS
<1> QED
  BY <1>1 DEF check_root, Bases

\* A trial leaves the base as it was.
LEMMA TrialLeaves ==
  ASSUME NEW b \in Bases
  PROVE  trial(b) = b
<1> DEFINE t == Append(b.types, Variant)
<1>1. b.types \in Seq(Nat) /\ Variant \in Nat
  BY DEF Bases, Variant
<1>2. t \in Seq(Nat) /\ Len(t) = Len(b.types) + 1 /\ \A i \in 1 .. Len(b.types) : t[i] = b.types[i]
  BY <1>1
<1>3. SubSeq(t, 1, Len(b.types)) = b.types
  <2> DEFINE r == SubSeq(t, 1, Len(b.types))
  <2>1. Len(b.types) \in Nat /\ Len(b.types) <= Len(t)
    BY <1>1, <1>2
  <2>2. r \in Seq(Nat) /\ Len(r) = Len(b.types) /\ \A i \in 1 .. Len(r) : r[i] = t[i]
    BY <1>2, <2>1
  <2> HIDE DEF r, t
  <2>3. \A i \in 1 .. Len(r) : r[i] = b.types[i]
    BY <1>2, <2>2
  <2>4. r = b.types
    BY <1>1, <2>2, <2>3, SeqEqual
  <2> QED
    BY <2>4 DEF r
<1>4. check_root(b, Variant, FALSE) = [stamps |-> b.stamps, generation |-> b.generation, types |-> t]
  BY DEF check_root
<1>5. trial(b) = [check_root(b, Variant, FALSE) EXCEPT !.types = SubSeq(@, 1, Len(b.types))]
  BY DEF trial
<1> HIDE DEF t
<1>6. trial(b) = [stamps |-> b.stamps, generation |-> b.generation, types |-> SubSeq(t, 1, Len(b.types))]
  <2> DEFINE r == check_root(b, Variant, FALSE)
             k == Len(b.types)
  <2>1. r = [stamps |-> b.stamps, generation |-> b.generation, types |-> t]
    BY <1>4
  <2>2. trial(b) = [r EXCEPT !.types = SubSeq(r.types, 1, k)]
    BY <1>5
  <2> HIDE DEF r, k
  <2>3. r.types = t
    BY <2>1
  <2>4. trial(b) = [stamps |-> b.stamps, generation |-> b.generation, types |-> SubSeq(t, 1, k)]
    BY <2>1, <2>2, <2>3
  <2> QED
    BY <2>4 DEF k
<1> QED
  BY <1>3, <1>6 DEF Bases

LEMMA AnalyzeFields ==
  ASSUME NEW s \in Servers, editor \in Editors, NEW u \in Docs, IsOpen(s, u)
  PROVE  LET t == analyze(s, u)
             o == s.open[u]
             n == t.open[u]
         IN  /\ t \in Servers
             /\ t.dirty = s.dirty /\ t.published = s.published /\ t.saved = s.saved
             /\ \A w \in Docs \ {u} : t.open[w] = s.open[w]
             /\ n \in Opens
             /\ n.version = o.version /\ n.focus = o.focus
             /\ \/ /\ n.snapshot = None
                   /\ n.failure \in {0, o.version}
                \/ /\ n.snapshot \in Snapshots /\ n.snapshot.version = o.version
                   /\ n.base \in Bases /\ n.base.generation = n.snapshot.generation
                   /\ n.base.types = <<o.version>> /\ n.base.stamps = Stamps(s, u)
                   /\ n.failure = 0
<1> DEFINE o == s.open[u]
           from == IF o.base # None /\ stamps_hold(s, u) THEN o.base ELSE build(s, u)
           checked == check_root(from, o.version, TRUE)
           based == IF ~Loads(o.kind) THEN None ELSE checked
           good == [version |-> o.version, kind |-> o.kind, generation |-> based.generation]
           n == [o EXCEPT !.base = based,
                          !.snapshot = IF Loads(o.kind) THEN good ELSE None,
                          !.failure = IF o.kind = "placed" THEN o.version ELSE 0]
<1>1. o \in Opens
  BY OpenType
<1>2. from \in Bases /\ from.stamps = Stamps(s, u)
  <2>1. build(s, u) \in Bases /\ build(s, u).stamps = Stamps(s, u)
    BY StampsType DEF build, Bases
  <2>2. o.base # None /\ stamps_hold(s, u) => o.base \in Bases /\ o.base.stamps = Stamps(s, u)
    BY <1>1 DEF Opens, stamps_hold
  <2> QED
    BY <2>1, <2>2
<1> HIDE DEF from
<1>3. /\ checked \in Bases /\ checked.types = <<o.version>> /\ checked.stamps = Stamps(s, u)
      /\ checked.generation \in Nat
  <2>1. o.version \in Nat
    BY <1>1 DEF Opens
  <2>2. checked \in Bases /\ checked.types = <<o.version>> /\ checked.stamps = Stamps(s, u)
    BY <1>2, <2>1, FreshCheck
  <2> QED
    BY <2>2 DEF Bases
<1>4. analyze(s, u) = [s EXCEPT !.open[u] = n]
  BY DEF analyze, from
<1> HIDE DEF checked
<1>5. based \in Bases \cup {None} /\ (Loads(o.kind) => based = checked)
  BY <1>3
<1> HIDE DEF based
<1>6. Loads(o.kind) => good \in Snapshots /\ good.version = o.version /\ good.generation = based.generation
  BY <1>1, <1>3, <1>5 DEF Snapshots, Opens
<1> HIDE DEF good, o
<1>7. /\ n \in Opens /\ n.version = o.version /\ n.focus = o.focus
      /\ n.base = based
      /\ n.snapshot = IF Loads(o.kind) THEN good ELSE None
      /\ n.failure = IF o.kind = "placed" THEN o.version ELSE 0
  BY <1>1, <1>5, <1>6 DEF Opens
<1> HIDE DEF n
<1>8. LET t == [s EXCEPT !.open[u] = n]
      IN  /\ t \in Servers
          /\ t.dirty = s.dirty /\ t.published = s.published /\ t.saved = s.saved
          /\ t.open[u] = n
          /\ \A w \in Docs \ {u} : t.open[w] = s.open[w]
  BY <1>7 DEF Servers
<1>9. \/ /\ n.snapshot = None
         /\ n.failure \in {0, o.version}
      \/ /\ n.snapshot \in Snapshots /\ n.snapshot.version = o.version
         /\ n.base \in Bases /\ n.base.generation = n.snapshot.generation
         /\ n.base.types = <<o.version>> /\ n.base.stamps = Stamps(s, u)
         /\ n.failure = 0
  <2>1. CASE Loads(o.kind)
    BY <1>3, <1>5, <1>6, <1>7, <2>1 DEF Loads
  <2>2. CASE ~Loads(o.kind)
    BY <1>7, <2>2
  <2> QED
    BY <2>1, <2>2
<1> QED
  BY <1>4, <1>7, <1>8, <1>9 DEF o

LEMMA PublishFields ==
  ASSUME NEW s \in Servers, NEW u \in Docs, IsOpen(s, u)
  PROVE  LET t == publish(s, u)
             o == s.open[u]
         IN  /\ t \in Servers
             /\ t.dirty = s.dirty /\ t.open = s.open /\ t.saved = s.saved
             /\ \A w \in Docs \ {u} : t.published[w] = s.published[w]
             /\ \/ t.published[u] = s.published[u]
                \/ /\ o.snapshot # None /\ t.published[u] \in Publications
                   /\ t.published[u].version = o.snapshot.version
                \/ /\ o.snapshot = None /\ o.failure # 0 /\ t.published[u] \in Publications
                   /\ t.published[u].version = o.failure
<1> DEFINE o == s.open[u]
<1>1. o \in Opens
  BY OpenType
<1>2. CASE o.snapshot = None /\ o.failure = 0
  BY <1>2 DEF publish, publish_failure
<1>3. CASE o.snapshot = None /\ o.failure # 0
  <2> DEFINE p == [version |-> o.failure, held |-> FALSE, ranked |-> FALSE]
  <2>1. p \in Publications /\ p.version = o.failure
    BY <1>1 DEF Publications, Opens
  <2>2. publish(s, u) = [s EXCEPT !.published[u] = p]
    BY <1>3 DEF publish, publish_failure
  <2> HIDE DEF p
  <2>3. LET t == [s EXCEPT !.published[u] = p]
        IN  /\ t \in Servers
            /\ t.dirty = s.dirty /\ t.open = s.open /\ t.saved = s.saved
            /\ t.published[u] = p
            /\ \A w \in Docs \ {u} : t.published[w] = s.published[w]
    BY <2>1 DEF Servers
  <2> QED
    BY <1>3, <2>1, <2>2, <2>3
<1>4. CASE o.snapshot # None
  <2> DEFINE p == [version |-> o.snapshot.version, held |-> o.typing /\ o.snapshot.kind = "several",
                   ranked |-> o.focus = o.version]
             g == IF o.typing THEN [edit |-> o.version, ready |-> FALSE] ELSE s.grace_due[u]
  <2>1. o.snapshot \in Snapshots
    BY <1>1, <1>4 DEF Opens
  <2>2. p \in Publications /\ p.version = o.snapshot.version
    BY <1>1, <2>1 DEF Publications, Opens, Snapshots
  <2>3. g \in Graces \cup {None}
    BY <1>1 DEF Graces, Opens, Servers
  <2>4. publish(s, u) = [s EXCEPT !.published[u] = p, !.grace_due[u] = g]
    BY <1>4 DEF publish
  <2> HIDE DEF p, g
  <2>5. LET t == [s EXCEPT !.published[u] = p, !.grace_due[u] = g]
        IN  /\ t \in Servers
            /\ t.dirty = s.dirty /\ t.open = s.open /\ t.saved = s.saved
            /\ t.published[u] = p
            /\ \A w \in Docs \ {u} : t.published[w] = s.published[w]
    BY <2>2, <2>3 DEF Servers
  <2> QED
    BY <1>4, <2>2, <2>4, <2>5
<1> QED
  BY <1>2, <1>3, <1>4

-----------------------------------------------------------------------------
(***************************************************************************)
(* The queue of documents to check.                                        *)
(***************************************************************************)
Queues == {q \in Seq(Docs) : IsInjective(q)}

LEMMA QueueDef ==
  ASSUME NEW q \in Seq(Docs)
  PROVE  /\ Len(q) \in Nat /\ DOMAIN q = 1 .. Len(q)
         /\ q \in Queues <=> \A i, j \in 1 .. Len(q) : q[i] = q[j] => i = j
         /\ ToSet(q) = {q[i] : i \in 1 .. Len(q)}
         /\ \A u : Contains(q, u) <=> u \in ToSet(q)
         /\ ToSet(q) \subseteq Docs
<1>1. Len(q) \in Nat /\ DOMAIN q = 1 .. Len(q) /\ \A i \in 1 .. Len(q) : q[i] \in Docs
  BY LenProperties, ElementOfSeq
<1> QED
  BY <1>1 DEF Queues, IsInjective, ToSet, Contains

LEMMA QueuedDocs ==
  ASSUME NEW q \in Queues
  PROVE  ToSet(q) \subseteq Docs
<1>1. q \in Seq(Docs)
  BY DEF Queues
<1> QED
  BY <1>1, QueueDef

LEMMA QueueAppend ==
  ASSUME NEW q \in Queues, NEW u \in Docs, u \notin ToSet(q)
  PROVE  Append(q, u) \in Queues /\ ToSet(Append(q, u)) = ToSet(q) \cup {u}
<1> DEFINE n == Len(q)
           r == Append(q, u)
<1>1. q \in Seq(Docs)
  BY DEF Queues
<1>2. /\ n \in Nat /\ \A i, j \in 1 .. n : q[i] = q[j] => i = j
      /\ \A i \in 1 .. n : q[i] # u
      /\ ToSet(q) = {q[i] : i \in 1 .. n}
  BY <1>1, QueueDef
<1>3. /\ r \in Seq(Docs) /\ Len(r) = n + 1
      /\ \A i \in 1 .. n : r[i] = q[i]
      /\ r[n + 1] = u
  BY <1>1, AppendProperties
<1> HIDE DEF n, r
<1>4. \A i \in 1 .. n + 1 : i \in 1 .. n \/ i = n + 1
  BY <1>2
<1>5. \A i \in 1 .. n : i \in 1 .. n + 1
  BY <1>2
<1>6. n + 1 \in 1 .. n + 1
  BY <1>2
<1>7. \A i, j \in 1 .. n + 1 : r[i] = r[j] => i = j
  BY <1>2, <1>3, <1>4
<1>8. r \in Queues
  BY <1>3, <1>7, QueueDef
<1>9. ToSet(r) = {r[i] : i \in 1 .. n + 1}
  BY <1>3, QueueDef
<1>10. {r[i] : i \in 1 .. n + 1} = {q[i] : i \in 1 .. n} \cup {u}
  BY <1>3, <1>4, <1>5, <1>6
<1> QED
  BY <1>2, <1>8, <1>9, <1>10 DEF r

LEMMA QueueConcat ==
  ASSUME NEW q \in Queues, NEW p \in Queues, ToSet(q) \cap ToSet(p) = {}
  PROVE  q \o p \in Queues /\ ToSet(q \o p) = ToSet(q) \cup ToSet(p)
<1> DEFINE m == Len(q)
           n == Len(p)
           r == q \o p
<1>1. q \in Seq(Docs) /\ p \in Seq(Docs)
  BY DEF Queues
<1>2. /\ m \in Nat /\ \A i, j \in 1 .. m : q[i] = q[j] => i = j
      /\ n \in Nat /\ \A i, j \in 1 .. n : p[i] = p[j] => i = j
      /\ ToSet(q) = {q[i] : i \in 1 .. m} /\ ToSet(p) = {p[i] : i \in 1 .. n}
  BY <1>1, QueueDef
<1>3. /\ r \in Seq(Docs) /\ Len(r) = m + n
      /\ \A i \in 1 .. m + n : r[i] = IF i <= m THEN q[i] ELSE p[i - m]
  BY <1>1, ConcatProperties
<1> HIDE DEF m, n, r
<1>4. \A i \in 1 .. m + n : (i <= m => i \in 1 .. m) /\ (~(i <= m) => i - m \in 1 .. n)
  BY <1>2
<1>5. \A i \in 1 .. m : i \in 1 .. m + n /\ i <= m
  BY <1>2
<1>6. \A i \in 1 .. n : i + m \in 1 .. m + n /\ ~(i + m <= m) /\ (i + m) - m = i
  BY <1>2
<1>7. ASSUME NEW i \in 1 .. m + n, NEW j \in 1 .. m + n, r[i] = r[j]
      PROVE  i = j
  <2>1. CASE i <= m /\ j <= m
    BY <1>2, <1>3, <1>4, <1>7, <2>1
  <2>2. CASE ~(i <= m) /\ ~(j <= m)
    <3>1. p[i - m] = p[j - m] /\ i - m \in 1 .. n /\ j - m \in 1 .. n
      BY <1>3, <1>4, <1>7, <2>2
    <3>2. i - m = j - m
      BY <1>2, <3>1
    <3> QED
      BY <1>2, <3>2
  <2>3. ASSUME NEW k \in 1 .. m, NEW l \in 1 .. n
        PROVE  q[k] # p[l]
    BY <1>2
  <2> QED
    BY <1>3, <1>4, <1>7, <2>1, <2>2, <2>3
<1>8. r \in Queues
  BY <1>3, <1>7, QueueDef
<1>9. ToSet(r) = {r[i] : i \in 1 .. m + n}
  BY <1>3, QueueDef
<1>10. ASSUME NEW x \in ToSet(r)
       PROVE  x \in ToSet(q) \cup ToSet(p)
  BY <1>2, <1>3, <1>4, <1>9
<1>11. ASSUME NEW x \in ToSet(q)
       PROVE  x \in ToSet(r)
  BY <1>2, <1>3, <1>5, <1>9
<1>12. ASSUME NEW x \in ToSet(p)
       PROVE  x \in ToSet(r)
  <2>1. PICK i \in 1 .. n : x = p[i]
    BY <1>2
  <2>2. r[i + m] = x /\ i + m \in 1 .. m + n
    BY <1>3, <1>6, <2>1
  <2> QED
    BY <1>9, <2>2
<1> QED
  BY <1>8, <1>10, <1>11, <1>12 DEF r

LEMMA QueueOfSet ==
  ASSUME NEW S, S \subseteq Docs
  PROVE  SetToSeq(S) \in Queues /\ ToSet(SetToSeq(S)) = S
<1> DEFINE n == Cardinality(S)
           q == SetToSeq(S)
<1>1. IsFiniteSet(S)
  BY LspAssumption, FS_Subset
<1>2. n \in Nat /\ ExistsBijection(1 .. n, S)
  BY <1>1, FS_CardinalityType
<1>3. PICK f \in [1 .. n -> S] : /\ \A a, b \in 1 .. n : f[a] = f[b] => a = b
                                 /\ \A x \in S : \E a \in 1 .. n : f[a] = x
  BY <1>2 DEF ExistsBijection, Bijection, Injection, Surjection, IsInjective
<1>4. IsInjective(f)
  BY <1>3 DEF IsInjective
<1>5. q \in [1 .. n -> S] /\ IsInjective(q)
  BY <1>4 DEF SetToSeq
<1> HIDE DEF q, n
<1>6. \A a, b \in 1 .. n : q[a] = q[b] => a = b
  BY <1>5 DEF IsInjective
<1>7. q \in Seq(Docs) /\ Len(q) = n
  BY <1>2, <1>5
<1>8. q \in Queues
  BY <1>5, <1>7 DEF Queues
<1>9. ToSet(q) = {q[i] : i \in 1 .. n}
  BY <1>7, QueueDef
<1>10. \A x \in S : \E a \in 1 .. n : q[a] = x
  <2>1. IsFiniteSet(1 .. n) /\ Cardinality(1 .. n) = n
    BY <1>2, FS_Interval
  <2>2. q \in Injection(1 .. n, S)
    BY <1>5, <1>6 DEF Injection, IsInjective
  <2>3. q \in Surjection(1 .. n, S)
    BY <1>1, <2>1, <2>2, FS_Injection DEF n
  <2> QED
    BY <2>3 DEF Surjection
<1> QED
  BY <1>5, <1>8, <1>9, <1>10 DEF q

LEMMA QueueTail ==
  ASSUME NEW q \in Queues, q # <<>>
  PROVE  /\ Tail(q) \in Queues /\ Head(q) \in ToSet(q) /\ Head(q) \in Docs
         /\ ToSet(Tail(q)) = ToSet(q) \ {Head(q)}
<1> DEFINE n == Len(q)
           r == Tail(q)
<1>1. q \in Seq(Docs)
  BY DEF Queues
<1>2. /\ n \in Nat /\ \A i, j \in 1 .. n : q[i] = q[j] => i = j
      /\ ToSet(q) = {q[i] : i \in 1 .. n}
  BY <1>1, QueueDef
<1>3. n > 0
  BY <1>1, EmptySeq
<1>4. /\ r \in Seq(Docs) /\ Len(r) = n - 1
      /\ \A i \in 1 .. n - 1 : r[i] = q[i + 1]
      /\ Head(q) = q[1] /\ Head(q) \in Docs
  BY <1>1, HeadTailProperties
<1> HIDE DEF n, r
<1>5. \A i \in 1 .. n - 1 : i + 1 \in 1 .. n /\ i + 1 # 1
  BY <1>2
<1>6. \A i \in 1 .. n : i = 1 \/ (i - 1 \in 1 .. n - 1 /\ (i - 1) + 1 = i)
  BY <1>2
<1>7. 1 \in 1 .. n
  BY <1>2, <1>3
<1>8. ASSUME NEW i \in 1 .. n - 1, NEW j \in 1 .. n - 1, r[i] = r[j]
      PROVE  i = j
  <2>1. q[i + 1] = q[j + 1]
    BY <1>4, <1>8
  <2>2. i + 1 = j + 1
    BY <1>2, <1>5, <2>1
  <2> QED
    BY <2>2
<1>9. r \in Queues
  BY <1>4, <1>8, QueueDef
<1>10. ToSet(r) = {r[i] : i \in 1 .. n - 1}
  BY <1>4, QueueDef
<1>11. ASSUME NEW x \in ToSet(r)
       PROVE  x \in ToSet(q) /\ x # Head(q)
  BY <1>2, <1>4, <1>5, <1>7, <1>10
<1>12. ASSUME NEW x \in ToSet(q), x # Head(q)
       PROVE  x \in ToSet(r)
  <2>1. PICK i \in 1 .. n : x = q[i]
    BY <1>2
  <2>2. i - 1 \in 1 .. n - 1 /\ r[i - 1] = x
    BY <1>4, <1>6, <1>12, <2>1
  <2> QED
    BY <1>10, <2>2
<1> QED
  BY <1>2, <1>4, <1>7, <1>9, <1>11, <1>12 DEF r

LEMMA QueueWithout ==
  ASSUME NEW q \in Queues, NEW u \in Docs
  PROVE  Without(q, u) \in Queues /\ ToSet(Without(q, u)) = ToSet(q) \ {u}
<1>1. q \in Seq(Docs)
  BY DEF Queues
<1>2. CASE u \notin ToSet(q)
  BY <1>1, <1>2, QueueDef DEF Without
<1>3. CASE u \in ToSet(q)
  <2> DEFINE n == Len(q)
             k == CHOOSE i \in 1 .. n : q[i] = u
             a == SubSeq(q, 1, k - 1)
             b == SubSeq(q, k + 1, n)
  <2>1. /\ n \in Nat /\ \A i, j \in 1 .. n : q[i] = q[j] => i = j
        /\ ToSet(q) = {q[i] : i \in 1 .. n} /\ Contains(q, u)
        /\ \A i \in 1 .. n : q[i] \in Docs
    BY <1>1, <1>3, QueueDef, ElementOfSeq
  <2>2. k \in 1 .. n /\ q[k] = u
    BY <1>3, <2>1
  <2>3. Without(q, u) = a \o b
    BY <2>1 DEF Without, RemoveAt
  <2> HIDE DEF k, n
  <2>4. /\ k \in Nat /\ k - 1 \in Int /\ k + 1 \in Int /\ n \in Int
        /\ \A i \in 1 .. k - 1 : i \in 1 .. n /\ i # k
        /\ \A i \in k + 1 .. n : i \in 1 .. n /\ i # k
    BY <2>1, <2>2
  <2>5. /\ a \in Seq(Docs) /\ Len(a) = IF 1 <= k - 1 THEN (k - 1) - 1 + 1 ELSE 0
        /\ \A i \in 1 .. (k - 1) - 1 + 1 : a[i] = q[1 + i - 1]
    BY <2>1, <2>4, SubSeqProperties
  <2>6. /\ b \in Seq(Docs) /\ Len(b) = IF k + 1 <= n THEN n - (k + 1) + 1 ELSE 0
        /\ \A i \in 1 .. n - (k + 1) + 1 : b[i] = q[(k + 1) + i - 1]
    BY <2>1, <2>4, SubSeqProperties
  <2> HIDE DEF a, b
  <2>7. Len(a) = k - 1 /\ \A i \in 1 .. k - 1 : a[i] = q[i]
    <3>1. (k - 1) - 1 + 1 = k - 1 /\ \A i \in 1 .. k - 1 : 1 + i - 1 = i
      BY <2>2, <2>4
    <3>2. Len(a) = k - 1
      BY <2>2, <2>4, <2>5
    <3> QED
      BY <2>5, <3>1, <3>2
  <2>8. Len(b) = n - k /\ \A i \in 1 .. n - k : b[i] = q[k + i]
    <3>1. n - (k + 1) + 1 = n - k /\ \A i \in 1 .. n - k : (k + 1) + i - 1 = k + i
      BY <2>2, <2>4
    <3>2. Len(b) = n - k
      BY <2>1, <2>2, <2>4, <2>6
    <3> QED
      BY <2>6, <3>1, <3>2
  <2>9. /\ ToSet(a) = {a[i] : i \in 1 .. k - 1} /\ ToSet(b) = {b[i] : i \in 1 .. n - k}
    BY <2>5, <2>6, <2>7, <2>8, QueueDef
  <2>10. \A i \in 1 .. n - k : k + i \in 1 .. n /\ k + i # k
    BY <2>1, <2>2
  <2>11. a \in Queues
    <3>1. \A i, j \in 1 .. k - 1 : a[i] = a[j] => i = j
      BY <2>1, <2>4, <2>7
    <3> QED
      BY <2>5, <2>7, <3>1, QueueDef
  <2>12. b \in Queues
    <3>1. ASSUME NEW i \in 1 .. n - k, NEW j \in 1 .. n - k, b[i] = b[j]
          PROVE  i = j
      <4>1. k + i = k + j
        BY <2>1, <2>8, <2>10, <3>1
      <4> QED
        BY <2>4, <4>1
    <3> QED
      BY <2>6, <2>8, <3>1, QueueDef
  <2>13. ASSUME NEW i \in 1 .. k - 1, NEW j \in 1 .. n - k
         PROVE  a[i] # b[j]
    <3>1. i # k + j
      BY <2>2
    <3> QED
      BY <2>1, <2>4, <2>7, <2>8, <2>10, <3>1
  <2>14. ToSet(a) \cap ToSet(b) = {}
    BY <2>9, <2>13
  <2>15. a \o b \in Queues /\ ToSet(a \o b) = ToSet(a) \cup ToSet(b)
    BY <2>11, <2>12, <2>14, QueueConcat
  <2>16. ASSUME NEW x \in ToSet(a) \cup ToSet(b)
         PROVE  x \in ToSet(q) \ {u}
    <3>1. CASE x \in ToSet(a)
      BY <2>1, <2>2, <2>4, <2>7, <2>9, <3>1
    <3>2. CASE x \in ToSet(b)
      BY <2>1, <2>2, <2>8, <2>9, <2>10, <3>2
    <3> QED
      BY <3>1, <3>2
  <2>17. ASSUME NEW x \in ToSet(q) \ {u}
         PROVE  x \in ToSet(a) \cup ToSet(b)
    <3>1. PICK i \in 1 .. n : x = q[i]
      BY <2>1
    <3>2. i # k
      BY <2>2, <3>1
    <3>3. i \in 1 .. k - 1 \/ (i - k \in 1 .. n - k /\ k + (i - k) = i)
      BY <2>1, <2>2, <3>2
    <3> QED
      BY <2>7, <2>8, <2>9, <3>1, <3>3
  <2> QED
    BY <2>3, <2>15, <2>16, <2>17
<1> QED
  BY <1>2, <1>3

-----------------------------------------------------------------------------
(***************************************************************************)
(* The server's part of the invariant.                                     *)
(***************************************************************************)
\* One open document: its record o, what is published of it, the version of its
\* last save and the editor's version of it.
DocOK(o, p, save, top) ==
  /\ o.version \in 1 .. top /\ o.failure \in 0 .. o.version /\ o.focus \in 0 .. o.version
  /\ save <= o.version
  /\ o.snapshot # None => /\ o.snapshot.version <= o.version
                          /\ o.base # None /\ o.base.generation = o.snapshot.generation
                          /\ o.base.types = <<o.snapshot.version>>
  /\ p # None => /\ p.version <= o.version
                 /\ o.snapshot # None => p.version <= o.snapshot.version
                 /\ o.snapshot = None /\ o.failure # 0 => p.version <= o.failure

\* The snapshots of the documents us show every save, or wait to be checked.
SeenBy(s, us) ==
  \A u \in us, w \in Docs : IsOpen(s, u) /\ s.open[u].snapshot # None /\ u # w =>
    s.open[u].base.stamps[w].version >= s.saved[w] \/ u \in ToSet(s.dirty)

SrvOK(s, ed, us) ==
  /\ s \in Servers /\ s.dirty \in Queues
  /\ \A u \in ToSet(s.dirty) : IsOpen(s, u)
  /\ \A u \in Docs : IsOpen(s, u) => DocOK(s.open[u], s.published[u], s.saved[u], ed.version[u])
  /\ \A u \in Docs : ~IsOpen(s, u) => s.published[u] = None
  /\ \A u \in Docs : s.saved[u] <= ed.disk[u] /\ ed.disk[u] <= ed.version[u]
  /\ SeenBy(s, us)

\* What is published of a document that stays open does not go back.
Forward(s, t) ==
  \A u \in Docs : s.published[u] # None /\ t.published[u] # None =>
    t.published[u].version >= s.published[u].version

LEMMA SameForward ==
  ASSUME NEW s \in Servers, NEW t, t.published = s.published
  PROVE  Forward(s, t)
BY DEF Forward, Servers, Publications

\* The queue grows, and nothing else of the documents changes.
LEMMA QueueKeeps ==
  ASSUME NEW s, NEW t \in Servers, NEW ed, NEW us, SrvOK(s, ed, us),
         t.open = s.open, t.published = s.published, t.saved = s.saved,
         t.dirty \in Queues, ToSet(s.dirty) \subseteq ToSet(t.dirty),
         \A u \in ToSet(t.dirty) : IsOpen(s, u)
  PROVE  SrvOK(t, ed, us)
BY DEF SrvOK, IsOpen, SeenBy

LEMMA MarkKeeps ==
  ASSUME NEW s, NEW ed, NEW us, SrvOK(s, ed, us), NEW u \in Docs, IsOpen(s, u), NEW wait \in BOOLEAN
  PROVE  LET t == mark_dirty(s, u, wait)
         IN  /\ SrvOK(t, ed, us)
             /\ ToSet(t.dirty) = ToSet(s.dirty) \cup {u}
             /\ t.open = s.open /\ t.published = s.published /\ t.saved = s.saved
<1> DEFINE t == mark_dirty(s, u, wait)
<1>1. s \in Servers /\ s.dirty \in Queues /\ s.dirty \in Seq(Docs)
  BY DEF SrvOK, Queues
<1>2. /\ t \in Servers
      /\ t.dirty = IF Contains(s.dirty, u) THEN s.dirty ELSE Append(s.dirty, u)
      /\ t.open = s.open /\ t.published = s.published /\ t.saved = s.saved
  BY <1>1, MarkDirtyFields
<1> HIDE DEF t
<1>3. t.dirty \in Queues /\ ToSet(t.dirty) = ToSet(s.dirty) \cup {u}
  <2>1. Contains(s.dirty, u) <=> u \in ToSet(s.dirty)
    BY <1>1, QueueDef
  <2> QED
    BY <1>1, <1>2, <2>1, QueueAppend
<1>4. \A x \in ToSet(t.dirty) : IsOpen(s, x)
  BY <1>3 DEF SrvOK
<1>5. SrvOK(t, ed, us)
  BY <1>2, <1>3, <1>4, QueueKeeps
<1> QED
  BY <1>2, <1>3, <1>5 DEF t

LEMMA MarkAllKeeps ==
  ASSUME NEW s, NEW ed, NEW us, SrvOK(s, ed, us), NEW S, S \subseteq {u \in Docs : IsOpen(s, u)},
         NEW wait \in BOOLEAN
  PROVE  LET t == MarkAll(s, S, wait)
         IN  /\ SrvOK(t, ed, us)
             /\ ToSet(t.dirty) = ToSet(s.dirty) \cup S
             /\ t.open = s.open /\ t.published = s.published /\ t.saved = s.saved
<1> DEFINE more == SetToSeq(S \ ToSet(s.dirty))
           q == s.dirty \o more
           t == MarkAll(s, S, wait)
<1>1. s \in Servers /\ s.dirty \in Queues /\ s.dirty \in Seq(Docs)
  BY DEF SrvOK, Queues
<1>2. more \in Queues /\ ToSet(more) = S \ ToSet(s.dirty)
  BY QueueOfSet
<1> HIDE DEF more
<1>3. q \in Queues /\ ToSet(q) = ToSet(s.dirty) \cup S
  <2>1. ToSet(s.dirty) \cap ToSet(more) = {}
    BY <1>2
  <2>2. q \in Queues /\ ToSet(q) = ToSet(s.dirty) \cup ToSet(more)
    BY <1>1, <1>2, <2>1, QueueConcat
  <2> QED
    BY <1>2, <2>2
<1>4. q \in Seq(Docs)
  BY <1>3 DEF Queues
<1> HIDE DEF q
<1>5. t = [s EXCEPT !.dirty = q,
                    !.due = IF S = {} THEN @ ELSE IF wait \/ @ = "waits" THEN "waits" ELSE "ready"]
  BY DEF MarkAll, q, more
<1>6. /\ t \in Servers /\ t.dirty = q
      /\ t.open = s.open /\ t.published = s.published /\ t.saved = s.saved
  BY <1>1, <1>4, <1>5 DEF Servers, Deadlines
<1> HIDE DEF t
<1>7. \A x \in ToSet(t.dirty) : IsOpen(s, x)
  BY <1>3, <1>6 DEF SrvOK
<1>8. SrvOK(t, ed, us)
  BY <1>3, <1>6, <1>7, QueueKeeps
<1> QED
  BY <1>3, <1>6, <1>8 DEF t

\* A check leaves a snapshot that shows every save, or none.
LEMMA AnalyzeKeeps ==
  ASSUME NEW s, editor \in Editors, NEW u \in Docs, IsOpen(s, u),
         SrvOK(s, editor, Docs \ {u})
  PROVE  LET t == analyze(s, u)
         IN  /\ SrvOK(t, editor, Docs)
             /\ t.dirty = s.dirty /\ t.published = s.published /\ t.saved = s.saved
             /\ \A w \in Docs : IsOpen(t, w) <=> IsOpen(s, w)
             /\ \A w \in Docs : IsOpen(s, w) => t.open[w].version = s.open[w].version
<1> DEFINE t == analyze(s, u)
           o == s.open[u]
           n == t.open[u]
<1>1. s \in Servers /\ o \in Opens
  BY OpenType DEF SrvOK
<1>2. /\ t \in Servers
      /\ t.dirty = s.dirty /\ t.published = s.published /\ t.saved = s.saved
      /\ \A w \in Docs \ {u} : t.open[w] = s.open[w]
      /\ n \in Opens
      /\ n.version = o.version /\ n.focus = o.focus
      /\ \/ /\ n.snapshot = None
            /\ n.failure \in {0, o.version}
         \/ /\ n.snapshot \in Snapshots /\ n.snapshot.version = o.version
            /\ n.base \in Bases /\ n.base.generation = n.snapshot.generation
            /\ n.base.types = <<o.version>> /\ n.base.stamps = Stamps(s, u)
            /\ n.failure = 0
  BY <1>1, AnalyzeFields
<1> HIDE DEF t
<1>3. \A w \in Docs : IsOpen(t, w) <=> IsOpen(s, w)
  BY <1>2, Distinct DEF IsOpen
<1>4. \A w \in Docs : IsOpen(s, w) => t.open[w].version = s.open[w].version
  BY <1>2
<1>5. DocOK(n, t.published[u], t.saved[u], editor.version[u])
  <2>1. DocOK(o, s.published[u], s.saved[u], editor.version[u])
    BY DEF SrvOK
  <2>2. o.version \in Nat /\ s.saved[u] \in Nat
    BY <1>1 DEF Opens, Servers
  <2>3. s.published[u] # None => s.published[u].version \in Nat
    BY <1>1 DEF Servers, Publications
  <2> HIDE DEF n, o
  <2>4. n.version = o.version /\ n.focus = o.focus
    BY <1>2 DEF n, o
  <2>5. CASE n.snapshot = None /\ n.failure \in {0, o.version}
    BY <1>2, <2>1, <2>2, <2>3, <2>4, <2>5 DEF DocOK
  <2>6. CASE /\ n.snapshot # None /\ n.snapshot.version = o.version /\ n.failure = 0
             /\ n.base # None /\ n.base.generation = n.snapshot.generation /\ n.base.types = <<o.version>>
    BY <1>2, <2>1, <2>2, <2>3, <2>4, <2>6 DEF DocOK
  <2> QED
    BY <1>2, <2>5, <2>6, Distinct DEF n, o
<1>6. \A w \in Docs : IsOpen(t, w) => DocOK(t.open[w], t.published[w], t.saved[w], editor.version[w])
  BY <1>2, <1>3, <1>5 DEF SrvOK
<1>7. SeenBy(t, Docs)
  <2> SUFFICES ASSUME NEW x \in Docs, NEW w \in Docs, IsOpen(t, x), t.open[x].snapshot # None, x # w
               PROVE  t.open[x].base.stamps[w].version >= t.saved[w] \/ x \in ToSet(t.dirty)
    BY DEF SeenBy
  <2>1. CASE x # u
    <3>1. t.open[x] = s.open[x] /\ IsOpen(s, x) /\ x \in Docs \ {u}
      BY <1>2, <1>3, <2>1
    <3> QED
      BY <1>2, <3>1 DEF SrvOK, SeenBy
  <2>2. CASE x = u
    <3>1. n.base.stamps = Stamps(s, u)
      BY <1>2, <2>2
    <3>2. n.base.stamps[w].version = Overlay(s, w)
      BY <1>1, <2>2, <3>1, StampsType
    <3>3. Overlay(s, w) >= s.saved[w]
      <4>1. s.saved[w] \in Nat /\ editor.disk[w] \in Nat
        BY <1>1 DEF Servers, Editors
      <4>2. CASE IsOpen(s, w)
        <5>1. s.saved[w] <= s.open[w].version
          BY <4>2 DEF SrvOK, DocOK
        <5>2. s.open[w].version \in Nat
          BY <1>1, <4>2, OpenType DEF Opens
        <5> QED
          BY <4>1, <4>2, <5>1, <5>2 DEF Overlay
      <4>3. CASE ~IsOpen(s, w)
        <5>1. s.saved[w] <= editor.disk[w]
          BY DEF SrvOK
        <5> QED
          BY <4>1, <4>3, <5>1 DEF Overlay
      <4> QED
        BY <4>2, <4>3
    <3> QED
      BY <1>2, <2>2, <3>2, <3>3
  <2> QED
    BY <2>1, <2>2
<1>8. SrvOK(t, editor, Docs)
  <2>1. \A x \in ToSet(s.dirty) : IsOpen(t, x)
    BY <1>3, QueuedDocs DEF SrvOK
  <2> QED
    BY <1>2, <1>3, <1>6, <1>7, <2>1 DEF SrvOK
<1> QED
  BY <1>2, <1>3, <1>4, <1>8 DEF t

LEMMA PublishKeeps ==
  ASSUME NEW s, NEW ed, SrvOK(s, ed, Docs), NEW u \in Docs
  PROVE  LET t == publish(s, u)
         IN  /\ SrvOK(t, ed, Docs) /\ Forward(s, t)
             /\ t.dirty = s.dirty /\ t.open = s.open /\ t.saved = s.saved
<1> DEFINE t == publish(s, u)
           o == s.open[u]
           p == t.published[u]
<1>1. s \in Servers
  BY DEF SrvOK
<1>2. CASE ~IsOpen(s, u)
  <2>1. t = s
    BY <1>2 DEF publish
  <2>2. Forward(s, s)
    BY <1>1, SameForward
  <2> QED
    BY <2>1, <2>2
<1>3. CASE IsOpen(s, u)
  <2>1. /\ t \in Servers
        /\ t.dirty = s.dirty /\ t.open = s.open /\ t.saved = s.saved
        /\ \A w \in Docs \ {u} : t.published[w] = s.published[w]
        /\ \/ p = s.published[u]
           \/ /\ o.snapshot # None /\ p \in Publications
              /\ p.version = o.snapshot.version
           \/ /\ o.snapshot = None /\ o.failure # 0 /\ p \in Publications
              /\ p.version = o.failure
    BY <1>1, <1>3, PublishFields
  <2> HIDE DEF t
  <2>2. o \in Opens
    BY <1>1, <1>3, OpenType
  <2>3. DocOK(o, s.published[u], s.saved[u], ed.version[u])
    BY <1>3 DEF SrvOK
  <2>4. s.published[u] \in Publications \cup {None}
    BY <1>1 DEF Servers
  <2>5. o.failure \in Nat /\ o.version \in Nat /\ (o.snapshot # None => o.snapshot.version \in Nat)
    BY <2>2 DEF Opens, Snapshots
  <2>6. /\ DocOK(o, p, s.saved[u], ed.version[u])
        /\ s.published[u] # None /\ p # None => p.version >= s.published[u].version
    <3> HIDE DEF o, p
    <3>1. CASE p = s.published[u]
      <4>1. s.published[u] # None => s.published[u].version \in Nat
        BY <2>4 DEF Publications
      <4> QED
        BY <2>3, <3>1, <4>1
    <3>2. CASE o.snapshot # None /\ p.version = o.snapshot.version
      BY <2>3, <2>5, <3>2 DEF DocOK
    <3>3. CASE o.snapshot = None /\ o.failure # 0 /\ p.version = o.failure
      BY <2>3, <2>5, <3>3 DEF DocOK
    <3> QED
      BY <2>1, <3>1, <3>2, <3>3 DEF o, p
  <2>7. \A w \in Docs : IsOpen(t, w) <=> IsOpen(s, w)
    BY <2>1 DEF IsOpen
  <2>8. \A w \in Docs : IsOpen(t, w) => DocOK(t.open[w], t.published[w], t.saved[w], ed.version[w])
    BY <2>1, <2>6, <2>7 DEF SrvOK
  <2>9. \A w \in Docs : ~IsOpen(t, w) => t.published[w] = None
    BY <1>3, <2>1, <2>7 DEF SrvOK
  <2>10. SeenBy(t, Docs)
    BY <2>1, <2>7 DEF SrvOK, SeenBy
  <2>11. SrvOK(t, ed, Docs)
    <3>1. \A x \in ToSet(s.dirty) : IsOpen(t, x)
      BY <2>7, QueuedDocs DEF SrvOK
    <3> QED
      BY <2>1, <2>8, <2>9, <2>10, <3>1 DEF SrvOK
  <2>12. Forward(s, t)
    <3>1. \A w \in Docs : s.published[w] # None => s.published[w].version \in Nat
      BY <1>1 DEF Servers, Publications
    <3> QED
      BY <2>1, <2>6, <3>1 DEF Forward
  <2> QED
    BY <2>1, <2>11, <2>12 DEF t
<1> QED
  BY <1>2, <1>3

\* Trials over the base of a held snapshot change nothing.
LEMMA TrialsLeave ==
  ASSUME NEW s, NEW ed, SrvOK(s, ed, Docs), NEW u \in Docs, IsOpen(s, u), s.open[u].snapshot # None
  PROVE  /\ trial(s.open[u].base) = s.open[u].base
         /\ [s EXCEPT !.open[u].base = trial(@)] = s
<1>1. s \in Servers /\ s.open[u] \in Opens
  BY OpenType DEF SrvOK
<1>2. s.open[u].base # None
  BY DEF SrvOK, DocOK
<1>3. s.open[u].base \in Bases
  BY <1>1, <1>2 DEF Opens
<1>4. trial(s.open[u].base) = s.open[u].base
  BY <1>3, TrialLeaves
<1> DEFINE o == s.open[u]
           b == s.open[u].base
<1>5. [o EXCEPT !.base = b] = o
  BY <1>1 DEF Opens
<1>6. [s EXCEPT !.open[u].base = trial(@)] = [s EXCEPT !.open = [s.open EXCEPT ![u] = [o EXCEPT !.base = b]]]
  BY <1>1, <1>4 DEF Servers
<1>7. [s.open EXCEPT ![u] = [o EXCEPT !.base = b]] = s.open
  BY <1>1, <1>5 DEF Servers
<1>8. [s EXCEPT !.open = s.open] = s
  BY <1>1 DEF Servers
<1> QED
  BY <1>4, <1>6, <1>7, <1>8

\* Documents' records change in `typing` and `focus` only.
LEMMA RecordsKeep ==
  ASSUME NEW s, NEW ed, SrvOK(s, ed, Docs), NEW t \in Servers,
         t.dirty = s.dirty, t.published = s.published, t.saved = s.saved,
         \A w \in Docs : \/ t.open[w] = s.open[w]
                         \/ /\ IsOpen(s, w) /\ t.open[w] \in Opens
                            /\ t.open[w].version = s.open[w].version
                            /\ t.open[w].snapshot = s.open[w].snapshot
                            /\ t.open[w].base = s.open[w].base
                            /\ t.open[w].failure = s.open[w].failure
                            /\ t.open[w].focus \in 0 .. s.open[w].version
  PROVE  SrvOK(t, ed, Docs)
<1>1. \A w \in Docs : IsOpen(t, w) <=> IsOpen(s, w)
  BY Distinct DEF IsOpen
<1>2. ASSUME NEW w \in Docs, IsOpen(t, w)
      PROVE  DocOK(t.open[w], t.published[w], t.saved[w], ed.version[w])
  <2>1. DocOK(s.open[w], s.published[w], s.saved[w], ed.version[w])
    BY <1>1, <1>2 DEF SrvOK
  <2> QED
    BY <2>1 DEF DocOK
<1>3. \A w \in ToSet(s.dirty) : IsOpen(t, w)
  BY <1>1, QueuedDocs DEF SrvOK
<1>4. SeenBy(t, Docs)
  BY <1>1 DEF SrvOK, SeenBy
<1> QED
  BY <1>1, <1>2, <1>3, <1>4 DEF SrvOK

LEMMA PublishAllKeeps ==
  ASSUME NEW s, NEW ed, SrvOK(s, ed, Docs), NEW us, us \subseteq Docs
  PROVE  /\ SrvOK(PublishAll(s, us), ed, Docs) /\ Forward(s, PublishAll(s, us))
         /\ PublishAll(s, us).open = s.open /\ PublishAll(s, us).saved = s.saved
<1> DEFINE pub == [u \in Docs |-> IF u \in us THEN publish(s, u).published[u] ELSE s.published[u]]
           grace == [u \in Docs |-> IF u \in us THEN publish(s, u).grace_due[u] ELSE s.grace_due[u]]
           t == PublishAll(s, us)
<1>1. s \in Servers
  BY DEF SrvOK
<1>2. \A u \in Docs : /\ SrvOK(publish(s, u), ed, Docs) /\ Forward(s, publish(s, u))
                      /\ publish(s, u).open = s.open /\ publish(s, u).saved = s.saved
  BY PublishKeeps
<1>3. \A u \in Docs : publish(s, u) \in Servers
  BY <1>2 DEF SrvOK
<1>4. pub \in [Docs -> Publications \cup {None}]
  BY <1>1, <1>3 DEF Servers
<1>5. grace \in [Docs -> Graces \cup {None}]
  BY <1>1, <1>3 DEF Servers
<1>6. t = [s EXCEPT !.published = pub, !.grace_due = grace]
  BY DEF PublishAll
<1>7. \A u \in Docs : pub[u] = IF u \in us THEN publish(s, u).published[u] ELSE s.published[u]
  OBVIOUS
<1> HIDE DEF pub, grace
<1>8. /\ t \in Servers /\ t.open = s.open /\ t.dirty = s.dirty /\ t.saved = s.saved
      /\ t.published = pub
  BY <1>1, <1>4, <1>5, <1>6 DEF Servers
<1> HIDE DEF t
<1>9. \A u \in Docs : /\ IsOpen(t, u) <=> IsOpen(s, u)
                      /\ IsOpen(publish(s, u), u) <=> IsOpen(s, u)
  BY <1>2, <1>8 DEF IsOpen
<1>10. ASSUME NEW u \in Docs, IsOpen(t, u)
       PROVE  DocOK(t.open[u], t.published[u], t.saved[u], ed.version[u])
  <2>1. DocOK(s.open[u], s.published[u], s.saved[u], ed.version[u])
    BY <1>9, <1>10 DEF SrvOK
  <2>2. DocOK(publish(s, u).open[u], publish(s, u).published[u], publish(s, u).saved[u], ed.version[u])
    BY <1>2, <1>9, <1>10 DEF SrvOK
  <2>3. DocOK(s.open[u], publish(s, u).published[u], s.saved[u], ed.version[u])
    BY <1>2, <2>2
  <2> QED
    BY <1>7, <1>8, <2>1, <2>3
<1>11. ASSUME NEW u \in Docs, ~IsOpen(t, u)
       PROVE  t.published[u] = None
  <2>1. s.published[u] = None /\ publish(s, u).published[u] = None
    BY <1>2, <1>9, <1>11 DEF SrvOK
  <2> QED
    BY <1>7, <1>8, <2>1
<1>12. \A u \in ToSet(s.dirty) : IsOpen(t, u)
  BY <1>9, QueuedDocs DEF SrvOK
<1>13. SeenBy(t, Docs)
  BY <1>8, <1>9 DEF SrvOK, SeenBy
<1>14. SrvOK(t, ed, Docs)
  BY <1>8, <1>10, <1>11, <1>12, <1>13 DEF SrvOK
<1>15. Forward(s, t)
  <2>1. \A u \in Docs : s.published[u] # None => s.published[u].version \in Nat
    BY <1>1 DEF Servers, Publications
  <2> QED
    BY <1>2, <1>7, <1>8, <2>1 DEF Forward
<1> QED
  BY <1>8, <1>14, <1>15 DEF t

-----------------------------------------------------------------------------
(***************************************************************************)
(* The messages.                                                           *)
(***************************************************************************)
NeedOpen == {"didChange", "didSave", "didClose", "hover", "codeAction"}
Toggles(m, u) == m.uri = u /\ m.method \in {"didOpen", "didClose"}

\* The versions a message finds when it arrives.
Fits(s, ed, m) ==
  /\ m.version <= ed.version[m.uri]
  /\ m.method \in {"didOpen", "didChange"} => m.version >= 1
  /\ s.saved[m.uri] <= m.version
  /\ IsOpen(s, m.uri) => s.open[m.uri].version <= m.version
  /\ m.method = "didSave" => m.version <= ed.disk[m.uri]

\* What handling a message does to the versions and to what is open.
Effect(s, m, t) ==
  \A u \in Docs :
    /\ IsOpen(t, u) <=> IF Toggles(m, u) THEN m.method = "didOpen" ELSE IsOpen(s, u)
    /\ IsOpen(t, u) => \/ IsOpen(s, u) /\ t.open[u].version = s.open[u].version
                       \/ u = m.uri /\ t.open[u].version = m.version
    /\ t.saved[u] = s.saved[u] \/ (u = m.uri /\ t.saved[u] <= m.version)

Handled(s, m, t) == SrvOK(t, editor, Docs) /\ Forward(s, t) /\ Effect(s, m, t)

LEMMA OpenHandled ==
  ASSUME editor \in Editors, NEW s, SrvOK(s, editor, Docs), NEW m \in Messages, Fits(s, editor, m),
         m.method = "didOpen"
  PROVE  Handled(s, m, did_open(s, m))
<1> DEFINE u == m.uri
           o == [version |-> m.version, kind |-> m.kind, base |-> None, snapshot |-> None,
                 typing |-> FALSE, focus |-> 0, failure |-> 0]
           r == [s EXCEPT !.open[u] = o]
           t == mark_dirty(r, u, FALSE)
<1>1. s \in Servers /\ u \in Docs /\ m.version \in Nat /\ m.kind \in TextKinds
  BY DEF SrvOK, Messages
<1>2. o \in Opens /\ o.version = m.version /\ o.snapshot = None /\ o.focus = 0 /\ o.failure = 0
  BY <1>1 DEF Opens
<1>3. did_open(s, m) = t
  BY DEF did_open
<1> HIDE DEF o, u
<1>4. /\ r \in Servers /\ r.open[u] = o /\ r.dirty = s.dirty
      /\ r.published = s.published /\ r.saved = s.saved
      /\ \A w \in Docs \ {u} : r.open[w] = s.open[w]
  BY <1>1, <1>2 DEF Servers
<1> HIDE DEF r
<1>5. IsOpen(r, u) /\ \A w \in Docs \ {u} : IsOpen(r, w) <=> IsOpen(s, w)
  BY <1>1, <1>2, <1>4, Distinct DEF IsOpen
<1>6. DocOK(o, s.published[u], s.saved[u], editor.version[u])
  <2>1. m.version \in 1 .. editor.version[u] /\ s.saved[u] <= m.version
    BY <1>1 DEF Fits, Editors, u
  <2>2. s.published[u] # None => s.published[u].version <= m.version
    <3> SUFFICES ASSUME s.published[u] # None
                 PROVE  s.published[u].version <= m.version
      OBVIOUS
    <3>1. IsOpen(s, u)
      BY <1>1 DEF SrvOK
    <3>2. s.published[u].version <= s.open[u].version /\ s.open[u].version <= m.version
      BY <1>1, <3>1 DEF SrvOK, DocOK, Fits, u
    <3>3. s.published[u].version \in Nat /\ s.open[u].version \in Nat
      BY <1>1, <3>1, OpenType DEF Servers, Publications, Opens
    <3> QED
      BY <1>1, <3>2, <3>3
  <2> QED
    BY <1>1, <1>2, <2>1, <2>2 DEF DocOK
<1>7. SrvOK(r, editor, Docs)
  <2>1. \A w \in Docs : IsOpen(r, w) => DocOK(r.open[w], r.published[w], r.saved[w], editor.version[w])
    BY <1>4, <1>5, <1>6 DEF SrvOK
  <2>2. \A w \in Docs : ~IsOpen(r, w) => r.published[w] = None
    BY <1>4, <1>5 DEF SrvOK
  <2>3. SeenBy(r, Docs)
    BY <1>2, <1>4, <1>5 DEF SrvOK, SeenBy
  <2>4. \A w \in ToSet(s.dirty) : IsOpen(r, w)
    BY <1>5, QueuedDocs DEF SrvOK
  <2> QED
    BY <1>4, <2>1, <2>2, <2>3, <2>4 DEF SrvOK
<1>8. /\ SrvOK(t, editor, Docs)
      /\ t.open = r.open /\ t.published = r.published /\ t.saved = r.saved
  BY <1>1, <1>5, <1>7, MarkKeeps
<1> HIDE DEF t
<1>9. Forward(s, t)
  BY <1>1, <1>4, <1>8, SameForward
<1>10. \A w \in Docs : IsOpen(t, w) <=> IsOpen(r, w)
  BY <1>8 DEF IsOpen
<1>11. Effect(s, m, t)
  BY <1>2, <1>4, <1>5, <1>8, <1>10 DEF Effect, Toggles, u
<1> QED
  BY <1>3, <1>8, <1>9, <1>11 DEF Handled

LEMMA ChangeHandled ==
  ASSUME editor \in Editors, NEW s, SrvOK(s, editor, Docs), NEW m \in Messages, Fits(s, editor, m),
         m.method = "didChange", IsOpen(s, m.uri)
  PROVE  Handled(s, m, did_change(s, m))
<1> DEFINE u == m.uri
           n == [s.open[u] EXCEPT !.version = m.version, !.kind = m.kind, !.typing = TRUE]
           r == [s EXCEPT !.open[u] = [@ EXCEPT !.version = m.version, !.kind = m.kind, !.typing = TRUE]]
<1>1. s \in Servers /\ u \in Docs /\ m.version \in Nat /\ m.kind \in TextKinds /\ IsOpen(s, u)
  BY DEF SrvOK, Messages
<1>2. s.open[u] \in Opens
  BY <1>1, OpenType
<1>3. did_change(s, m) = IF CheckAs[u] = "type" THEN mark_dirty(r, u, TRUE) ELSE r
  BY DEF did_change
<1>4. r = [s EXCEPT !.open[u] = n]
  BY <1>1 DEF Servers
<1> HIDE DEF r, u
<1>5. /\ n \in Opens /\ n.version = m.version /\ n.snapshot = s.open[u].snapshot
      /\ n.base = s.open[u].base
      /\ n.focus = s.open[u].focus /\ n.failure = s.open[u].failure
  BY <1>1, <1>2 DEF Opens
<1> HIDE DEF n
<1>6. /\ r \in Servers /\ r.open[u] = n /\ r.dirty = s.dirty
      /\ r.published = s.published /\ r.saved = s.saved
      /\ \A w \in Docs \ {u} : r.open[w] = s.open[w]
  BY <1>1, <1>4, <1>5 DEF Servers
<1>7. IsOpen(r, u) /\ \A w \in Docs : IsOpen(r, w) <=> IsOpen(s, w)
  BY <1>1, <1>5, <1>6, Distinct DEF IsOpen
<1>8. DocOK(n, s.published[u], s.saved[u], editor.version[u])
  <2>1. m.version \in 1 .. editor.version[u] /\ s.saved[u] <= m.version /\ s.open[u].version <= m.version
    BY <1>1 DEF Fits, Editors, u
  <2>2. DocOK(s.open[u], s.published[u], s.saved[u], editor.version[u])
    BY <1>1 DEF SrvOK
  <2>3. s.published[u] # None => s.published[u].version \in Nat
    BY <1>1 DEF Servers, Publications
  <2>4. s.open[u].version \in Nat /\ (s.open[u].snapshot # None => s.open[u].snapshot.version \in Nat)
    BY <1>2 DEF Opens, Snapshots
  <2>5. n.focus \in 0 .. n.version /\ n.failure \in 0 .. n.version
    BY <1>1, <1>5, <2>1, <2>2, <2>4 DEF DocOK
  <2> QED
    BY <1>1, <1>5, <2>1, <2>2, <2>3, <2>4, <2>5 DEF DocOK
<1>9. SrvOK(r, editor, Docs)
  <2>1. \A w \in Docs : IsOpen(r, w) => DocOK(r.open[w], r.published[w], r.saved[w], editor.version[w])
    BY <1>6, <1>7, <1>8 DEF SrvOK
  <2>2. \A w \in Docs : ~IsOpen(r, w) => r.published[w] = None
    BY <1>6, <1>7 DEF SrvOK
  <2>3. SeenBy(r, Docs)
    BY <1>5, <1>6, <1>7 DEF SrvOK, SeenBy
  <2>4. \A w \in ToSet(s.dirty) : IsOpen(r, w)
    BY <1>7, QueuedDocs DEF SrvOK
  <2> QED
    BY <1>6, <2>1, <2>2, <2>3, <2>4 DEF SrvOK
<1>10. ASSUME NEW t, SrvOK(t, editor, Docs),
              t.open = r.open, t.published = r.published, t.saved = r.saved
       PROVE  Handled(s, m, t)
  <2>1. Forward(s, t)
    BY <1>1, <1>6, <1>10, SameForward
  <2>2. \A w \in Docs : IsOpen(t, w) <=> IsOpen(s, w)
    BY <1>7, <1>10 DEF IsOpen
  <2>3. \A w \in Docs : ~Toggles(m, w)
    BY DEF Toggles
  <2>4. Effect(s, m, t)
    BY <1>5, <1>6, <1>10, <2>2, <2>3 DEF Effect, u
  <2> QED
    BY <1>10, <2>1, <2>4 DEF Handled
<1>11. Handled(s, m, mark_dirty(r, u, TRUE))
  BY <1>1, <1>7, <1>9, <1>10, MarkKeeps
<1> QED
  BY <1>3, <1>9, <1>10, <1>11

LEMMA SaveHandled ==
  ASSUME editor \in Editors, NEW s, SrvOK(s, editor, Docs), NEW m \in Messages, Fits(s, editor, m),
         m.method = "didSave", IsOpen(s, m.uri)
  PROVE  Handled(s, m, did_save(s, m))
<1> DEFINE u == m.uri
           v == s.open[u].version
           n == [s.open[u] EXCEPT !.typing = FALSE]
           r == [s EXCEPT !.open[u].typing = FALSE, !.saved[u] = s.open[u].version]
           q == mark_dirty(r, u, FALSE)
           others == {w \in Docs : IsOpen(s, w)} \ {u}
           t == MarkAll(q, others, TRUE)
<1>1. s \in Servers /\ u \in Docs /\ m.version \in Nat /\ IsOpen(s, u)
  BY DEF SrvOK, Messages
<1>2. s.open[u] \in Opens /\ v \in Nat
  BY <1>1, OpenType DEF Opens
<1>3. did_save(s, m) = t
  BY DEF did_save
<1>4. r = [s EXCEPT !.open[u] = n, !.saved[u] = v]
  BY <1>1 DEF Servers
<1> HIDE DEF r, u
<1>5. /\ n \in Opens /\ n.version = v /\ n.snapshot = s.open[u].snapshot
      /\ n.base = s.open[u].base
      /\ n.focus = s.open[u].focus /\ n.failure = s.open[u].failure
  BY <1>1, <1>2 DEF Opens
<1> HIDE DEF n, v
<1>6. /\ r \in Servers /\ r.open[u] = n /\ r.dirty = s.dirty
      /\ r.published = s.published /\ r.saved[u] = v
      /\ \A w \in Docs \ {u} : r.open[w] = s.open[w] /\ r.saved[w] = s.saved[w]
  BY <1>1, <1>2, <1>4, <1>5 DEF Servers
<1>7. IsOpen(r, u) /\ \A w \in Docs : IsOpen(r, w) <=> IsOpen(s, w)
  BY <1>1, <1>5, <1>6, Distinct DEF IsOpen
<1>8. v <= m.version /\ m.version <= editor.disk[u] /\ editor.disk[u] \in Nat
  BY <1>1 DEF Fits, v, u, Editors
<1>9. DocOK(n, s.published[u], v, editor.version[u])
  <2>1. DocOK(s.open[u], s.published[u], s.saved[u], editor.version[u])
    BY <1>1 DEF SrvOK
  <2> QED
    BY <1>2, <1>5, <2>1 DEF DocOK, v
\* The snapshots of the others may miss this save until all are queued.
<1>10. SrvOK(r, editor, {u})
  <2>1. \A w \in Docs : IsOpen(r, w) => DocOK(r.open[w], r.published[w], r.saved[w], editor.version[w])
    BY <1>6, <1>7, <1>9 DEF SrvOK
  <2>2. \A w \in Docs : ~IsOpen(r, w) => r.published[w] = None
    BY <1>6, <1>7 DEF SrvOK
  <2>3. SeenBy(r, {u})
    BY <1>1, <1>5, <1>6, <1>7 DEF SrvOK, SeenBy
  <2>4. \A w \in ToSet(s.dirty) : IsOpen(r, w)
    BY <1>7, QueuedDocs DEF SrvOK
  <2>5. \A w \in Docs : r.saved[w] <= editor.disk[w] /\ editor.disk[w] <= editor.version[w]
    BY <1>1, <1>2, <1>6, <1>8 DEF SrvOK
  <2> QED
    BY <1>6, <2>1, <2>2, <2>3, <2>4, <2>5 DEF SrvOK
<1>11. /\ SrvOK(q, editor, {u}) /\ ToSet(q.dirty) = ToSet(r.dirty) \cup {u}
       /\ q.open = r.open /\ q.published = r.published /\ q.saved = r.saved
  BY <1>1, <1>7, <1>10, MarkKeeps
<1> HIDE DEF q
<1>12. others \subseteq {w \in Docs : IsOpen(q, w)}
  BY <1>7, <1>11 DEF IsOpen
<1> HIDE DEF others
<1>13. /\ SrvOK(t, editor, {u}) /\ ToSet(t.dirty) = ToSet(q.dirty) \cup others
       /\ t.open = q.open /\ t.published = q.published /\ t.saved = q.saved
  BY ZenonT(40), <1>11, <1>12, MarkAllKeeps
<1> HIDE DEF t
<1>14. \A w \in Docs : IsOpen(t, w) <=> IsOpen(s, w)
  BY <1>7, <1>11, <1>13 DEF IsOpen
<1>15. \A w \in Docs : IsOpen(t, w) => w = u \/ w \in ToSet(t.dirty)
  BY <1>13, <1>14 DEF others
<1>16. SeenBy(t, Docs)
  BY <1>13, <1>15 DEF SrvOK, SeenBy
<1>17. SrvOK(t, editor, Docs)
  BY <1>13, <1>16 DEF SrvOK
<1>18. Forward(s, t)
  BY <1>1, <1>6, <1>11, <1>13, SameForward
<1>19. \A w \in Docs : ~Toggles(m, w)
  BY DEF Toggles
<1>20. ASSUME NEW w \in Docs
       PROVE  /\ IsOpen(t, w) <=> IsOpen(s, w)
              /\ IsOpen(t, w) => t.open[w].version = s.open[w].version
              /\ t.saved[w] = s.saved[w] \/ (w = u /\ t.saved[w] <= m.version)
  <2>1. CASE w = u
    BY <1>5, <1>6, <1>8, <1>11, <1>13, <1>14, <2>1 DEF v
  <2>2. CASE w # u
    BY <1>6, <1>11, <1>13, <1>14, <2>2
  <2> QED
    BY <2>1, <2>2
<1>21. Effect(s, m, t)
  BY <1>19, <1>20 DEF Effect, u
<1> QED
  BY <1>3, <1>17, <1>18, <1>21 DEF Handled

LEMMA CloseHandled ==
  ASSUME editor \in Editors, NEW s, SrvOK(s, editor, Docs), NEW m \in Messages,
         m.method = "didClose"
  PROVE  Handled(s, m, did_close(s, m))
<1> DEFINE u == m.uri
           q == Without(s.dirty, u)
           t == did_close(s, m)
<1>1. s \in Servers /\ u \in Docs /\ s.dirty \in Queues
  BY DEF SrvOK, Messages
<1>2. q \in Queues /\ ToSet(q) = ToSet(s.dirty) \ {u}
  BY <1>1, QueueWithout
<1>3. q \in Seq(Docs)
  BY <1>2 DEF Queues
<1>4. t = [s EXCEPT !.open[u] = Closed, !.dirty = q, !.published[u] = None]
  BY DEF did_close
<1> HIDE DEF q, u
<1>5. /\ t \in Servers /\ t.open[u] = Closed /\ t.dirty = q /\ t.published[u] = None
      /\ t.saved = s.saved
      /\ \A w \in Docs \ {u} : t.open[w] = s.open[w] /\ t.published[w] = s.published[w]
  <2> DEFINE op == [s.open EXCEPT ![u] = Closed]
             pb == [s.published EXCEPT ![u] = None]
  <2>1. s.open \in [Docs -> Opens \cup {Closed}] /\ s.published \in [Docs -> Publications \cup {None}]
    BY <1>1 DEF Servers
  <2>2. /\ op \in [Docs -> Opens \cup {Closed}] /\ op[u] = Closed
        /\ \A w \in Docs \ {u} : op[w] = s.open[w]
    BY <1>1, <2>1
  <2>3. /\ pb \in [Docs -> Publications \cup {None}] /\ pb[u] = None
        /\ \A w \in Docs \ {u} : pb[w] = s.published[w]
    BY <1>1, <2>1
  <2>4. t = [s EXCEPT !.open = op, !.dirty = q, !.published = pb]
    BY <1>1, <1>4 DEF Servers
  <2> HIDE DEF op, pb, t
  <2>5. t \in Servers /\ t.open = op /\ t.dirty = q /\ t.published = pb /\ t.saved = s.saved
    BY <1>1, <1>3, <2>2, <2>3, <2>4 DEF Servers
  <2> QED
    BY <2>2, <2>3, <2>5
<1> HIDE DEF t
<1>6. ~IsOpen(t, u) /\ \A w \in Docs \ {u} : IsOpen(t, w) <=> IsOpen(s, w)
  BY <1>5 DEF IsOpen
<1>7. \A w \in Docs : IsOpen(t, w) => DocOK(t.open[w], t.published[w], t.saved[w], editor.version[w])
  BY <1>5, <1>6 DEF SrvOK
<1>8. \A w \in Docs : ~IsOpen(t, w) => t.published[w] = None
  BY <1>5, <1>6 DEF SrvOK
<1>9. \A w \in ToSet(q) : IsOpen(t, w)
  BY <1>1, <1>2, <1>6, QueuedDocs DEF SrvOK
<1>10. SeenBy(t, Docs)
  BY <1>2, <1>5, <1>6 DEF SrvOK, SeenBy
<1>11. SrvOK(t, editor, Docs)
  BY <1>2, <1>5, <1>7, <1>8, <1>9, <1>10 DEF SrvOK
<1>12. \A w \in Docs : s.published[w] # None => s.published[w].version \in Nat
  BY <1>1 DEF Servers, Publications
<1>13. Forward(s, t)
  BY <1>5, <1>12 DEF Forward
<1>14. Effect(s, m, t)
  BY <1>5, <1>6 DEF Effect, Toggles, u
<1> QED
  BY <1>11, <1>13, <1>14 DEF Handled, t

\* Nothing but the queue, or the check of an open document.
LEMMA OtherHandled ==
  ASSUME editor \in Editors, NEW s, SrvOK(s, editor, Docs), NEW m \in Messages
  PROVE  /\ ~(m.method \in {"didOpen", "didClose"}) =>
              /\ Handled(s, m, s)
              /\ Handled(s, m, MarkAll(s, {u \in Docs : IsOpen(s, u)}, FALSE))
              /\ Handled(s, m, current(s, m.uri)) /\ Handled(s, m, code_actions(s, m.uri))
<1> SUFFICES ASSUME ~(m.method \in {"didOpen", "didClose"})
             PROVE  /\ Handled(s, m, s)
                    /\ Handled(s, m, MarkAll(s, {u \in Docs : IsOpen(s, u)}, FALSE))
                    /\ Handled(s, m, current(s, m.uri)) /\ Handled(s, m, code_actions(s, m.uri))
  OBVIOUS
<1>1. s \in Servers /\ m.uri \in Docs
  BY DEF SrvOK, Messages
<1>2. \A u \in Docs : ~Toggles(m, u)
  BY DEF Toggles
<1>3. Handled(s, m, s)
  <2>1. Forward(s, s) /\ Effect(s, m, s)
    BY <1>1, <1>2, SameForward DEF Effect
  <2> QED
    BY <2>1 DEF Handled
<1>4. Handled(s, m, MarkAll(s, {u \in Docs : IsOpen(s, u)}, FALSE))
  <2> DEFINE t == MarkAll(s, {u \in Docs : IsOpen(s, u)}, FALSE)
  <2>1. /\ SrvOK(t, editor, Docs)
        /\ t.open = s.open /\ t.published = s.published /\ t.saved = s.saved
    BY MarkAllKeeps
  <2> HIDE DEF t
  <2>2. Forward(s, t) /\ Effect(s, m, t)
    BY <1>1, <1>2, <2>1, SameForward DEF Effect, IsOpen
  <2> QED
    BY <2>1, <2>2 DEF Handled, t
<1>5. Handled(s, m, current(s, m.uri))
  <2> DEFINE u == m.uri
             a == analyze(s, u)
             t == publish(a, u)
  <2>1. CASE /\ IsOpen(s, u)
             /\ s.open[u].snapshot = None \/ s.open[u].snapshot.version # s.open[u].version
    <3>0. SrvOK(s, editor, Docs \ {u})
      BY DEF SrvOK, SeenBy
    <3>1. /\ SrvOK(a, editor, Docs)
          /\ a.published = s.published /\ a.saved = s.saved
          /\ \A w \in Docs : IsOpen(a, w) <=> IsOpen(s, w)
          /\ \A w \in Docs : IsOpen(s, w) => a.open[w].version = s.open[w].version
      BY <1>1, <2>1, <3>0, AnalyzeKeeps
    <3>2. current(s, u) = t
      BY <2>1 DEF current
    <3> HIDE DEF a
    <3>3. SrvOK(t, editor, Docs) /\ Forward(a, t) /\ t.open = a.open /\ t.saved = a.saved
      BY <1>1, <3>1, PublishKeeps
    <3> HIDE DEF t
    <3>4. Forward(s, t)
      BY <3>1, <3>3 DEF Forward
    <3>5. \A w \in Docs : IsOpen(t, w) <=> IsOpen(s, w)
      BY <3>1, <3>3 DEF IsOpen
    <3>6. Effect(s, m, t)
      BY <1>2, <3>1, <3>3, <3>5 DEF Effect
    <3> QED
      BY <3>2, <3>3, <3>4, <3>6 DEF Handled
  <2>2. CASE ~(/\ IsOpen(s, u)
               /\ s.open[u].snapshot = None \/ s.open[u].snapshot.version # s.open[u].version)
    BY <1>3, <2>2 DEF current
  <2> QED
    BY <2>1, <2>2
<1>6. code_actions(s, m.uri) = current(s, m.uri)
  <2> DEFINE u == m.uri
             t == current(s, u)
  <2>1. SrvOK(t, editor, Docs)
    BY <1>5 DEF Handled
  <2>2. code_actions(s, u) =
          IF IsOpen(t, u) /\ t.open[u].snapshot # None THEN [t EXCEPT !.open[u].base = trial(@)] ELSE t
    BY DEF code_actions
  <2> HIDE DEF t, u
  <2>3. IsOpen(t, u) /\ t.open[u].snapshot # None => [t EXCEPT !.open[u].base = trial(@)] = t
    BY <1>1, <2>1, TrialsLeave DEF u
  <2> QED
    BY <2>2, <2>3 DEF t, u
<1> QED
  BY <1>3, <1>4, <1>5, <1>6

LEMMA HandleHandled ==
  ASSUME editor \in Editors, NEW s, SrvOK(s, editor, Docs), NEW m \in Messages, Fits(s, editor, m),
         m.method \in NeedOpen => IsOpen(s, m.uri)
  PROVE  Handled(s, m, handle(s, m))
<1>1. CASE m.method = "didOpen"
  BY <1>1, OpenHandled DEF handle
<1>2. CASE m.method = "didChange"
  BY <1>2, ChangeHandled DEF handle, NeedOpen
<1>3. CASE m.method = "didSave"
  BY <1>3, SaveHandled DEF handle, NeedOpen
<1>4. CASE m.method = "didClose"
  BY <1>4, CloseHandled DEF handle
<1>5. CASE m.method = "didChangeConfiguration"
  BY <1>5, OtherHandled DEF handle
<1>6. CASE m.method = "hover"
  BY <1>6, OtherHandled DEF handle
<1>7. CASE m.method = "exit"
  BY <1>7, OtherHandled DEF handle
<1>8. CASE m.method = "codeAction"
  BY <1>8, OtherHandled DEF handle
<1>9. m.method \in MethodNames
  BY DEF Messages
<1> QED
  BY <1>1, <1>2, <1>3, <1>4, <1>5, <1>6, <1>7, <1>8, <1>9 DEF MethodNames

-----------------------------------------------------------------------------
(***************************************************************************)
(* The messages on their way, and what they will find.                     *)
(***************************************************************************)
\* Document u is open when the messages before the i-th have been handled.
OpenBefore(s, ms, i, u) ==
  \/ IsOpen(s, u) /\ \A j \in 1 .. i - 1 : ~Toggles(ms[j], u)
  \/ \E j \in 1 .. i - 1 : /\ ms[j].uri = u /\ ms[j].method = "didOpen"
                           /\ \A k \in j + 1 .. i - 1 : ~Toggles(ms[k], u)

Protocol(s, ed, ms) ==
  /\ \A i \in 1 .. Len(ms) : ms[i].method \in NeedOpen => OpenBefore(s, ms, i, ms[i].uri)
  /\ \A u \in ed.open : OpenBefore(s, ms, Len(ms) + 1, u)

Versions(s, ed, ms) ==
  /\ \A i \in 1 .. Len(ms) : Fits(s, ed, ms[i])
  /\ \A i, j \in 1 .. Len(ms) : i <= j /\ ms[i].uri = ms[j].uri => ms[i].version <= ms[j].version

Coming(s, ed, ms) ==
  /\ ms \in Seq(Messages) /\ Protocol(s, ed, ms) /\ Versions(s, ed, ms)

\* The first message has been handled.
LEMMA ComingTail ==
  ASSUME NEW s \in Servers, NEW t \in Servers, NEW ed \in Editors, NEW ms, ms # <<>>,
         Coming(s, ed, ms), Effect(s, Head(ms), t)
  PROVE  Coming(t, ed, Tail(ms))
<1> DEFINE m == Head(ms)
           r == Tail(ms)
           n == Len(ms)
<1>1. /\ ms \in Seq(Messages) /\ n \in Nat /\ n > 0 /\ m = ms[1] /\ m \in Messages
      /\ \A i \in 1 .. n : ms[i] \in Messages
  BY EmptySeq, HeadTailProperties, ElementOfSeq, LenProperties DEF Coming
<1>2. r \in Seq(Messages) /\ Len(r) = n - 1 /\ \A i \in 1 .. n - 1 : r[i] = ms[i + 1]
  BY <1>1, HeadTailProperties
<1> HIDE DEF m, r, n
<1>3. \A i \in 1 .. n - 1 : i + 1 \in 1 .. n /\ i \in Nat
  BY <1>1
<1>4. ASSUME NEW i \in 1 .. n, NEW u \in Docs, OpenBefore(s, ms, i + 1, u)
      PROVE  OpenBefore(t, r, i, u)
  <2>0. i \in Nat /\ i + 1 - 1 = i /\ i <= n
    BY <1>1
  <2>1. \A k \in 1 .. i - 1 : r[k] = ms[k + 1] /\ k + 1 \in 2 .. i
    BY <1>1, <1>2, <2>0
  <2>2. CASE IsOpen(s, u) /\ \A j \in 1 .. i : ~Toggles(ms[j], u)
    <3>1. ~Toggles(m, u)
      BY <1>1, <2>0, <2>2
    <3>2. IsOpen(t, u)
      BY <2>2, <3>1 DEF Effect, m
    <3>3. \A k \in 1 .. i - 1 : ~Toggles(r[k], u)
      BY <2>0, <2>1, <2>2
    <3> QED
      BY <3>2, <3>3 DEF OpenBefore
  <2>3. ASSUME NEW j \in 1 .. i, ms[j].uri = u, ms[j].method = "didOpen",
               \A k \in j + 1 .. i : ~Toggles(ms[k], u)
        PROVE  OpenBefore(t, r, i, u)
    <3>1. CASE j = 1
      <4>1. IsOpen(t, u)
        BY <1>1, <2>3, <3>1 DEF Effect, Toggles, m
      <4>2. \A k \in 1 .. i - 1 : ~Toggles(r[k], u)
        BY <2>0, <2>1, <2>3, <3>1
      <4> QED
        BY <4>1, <4>2 DEF OpenBefore
    <3>2. CASE j # 1
      <4>1. j - 1 \in 1 .. i - 1 /\ r[j - 1] = ms[j]
        <5>1. j - 1 \in 1 .. i - 1 /\ (j - 1) + 1 = j
          BY <2>0, <3>2
        <5> QED
          BY <2>1, <5>1
      <4>2. ASSUME NEW k \in (j - 1) + 1 .. i - 1
            PROVE  ~Toggles(r[k], u)
        <5>1. k \in 1 .. i - 1 /\ k + 1 \in j + 1 .. i
          BY <2>0
        <5> QED
          BY <2>1, <2>3, <5>1
      <4> QED
        BY <2>3, <4>1, <4>2 DEF OpenBefore
    <3> QED
      BY <3>1, <3>2
  <2> QED
    BY <1>4, <2>0, <2>2, <2>3 DEF OpenBefore
<1>5. Protocol(t, ed, r)
  <2>1. ASSUME NEW i \in 1 .. Len(r), r[i].method \in NeedOpen
        PROVE  OpenBefore(t, r, i, r[i].uri)
    <3>1. i \in 1 .. n /\ i + 1 \in 1 .. n /\ r[i] = ms[i + 1] /\ i \in 1 .. n - 1
      BY <1>1, <1>2, <1>3
    <3>2. r[i].uri \in Docs
      BY <1>1, <3>1 DEF Messages
    <3>3. OpenBefore(s, ms, i + 1, r[i].uri)
      BY <2>1, <3>1 DEF Coming, Protocol, n
    <3> QED
      BY <1>4, <3>1, <3>2, <3>3
  <2>2. ASSUME NEW u \in ed.open
        PROVE  OpenBefore(t, r, Len(r) + 1, u)
    <3>1. u \in Docs
      BY DEF Editors
    <3>2. OpenBefore(s, ms, n + 1, u)
      BY DEF Coming, Protocol, n
    <3>3. Len(r) + 1 = n /\ n \in 1 .. n
      BY <1>1, <1>2
    <3> QED
      BY <1>4, <3>1, <3>2, <3>3
  <2> QED
    BY <2>1, <2>2 DEF Protocol
<1>6. Versions(t, ed, r)
  <2>1. ASSUME NEW i \in 1 .. n - 1
        PROVE  Fits(t, ed, r[i])
    <3> DEFINE x == ms[i + 1]
               u == x.uri
    <3>1. r[i] = x /\ i + 1 \in 1 .. n /\ 1 \in 1 .. n /\ 1 <= i + 1
      BY <1>1, <1>2, <1>3
    <3>2. x \in Messages /\ Fits(s, ed, x) /\ u \in Docs /\ x.version \in Nat
      BY <1>1, <3>1 DEF Coming, Versions, n, Messages
    <3>3. u = m.uri => m.version <= x.version
      BY <1>1, <3>1 DEF Coming, Versions, n
    <3>4. m.version \in Nat
      BY <1>1 DEF Messages
    <3> HIDE DEF x
    <3>5. s.saved[u] \in Nat /\ t.saved[u] \in Nat
      BY <3>2 DEF Servers
    <3>6. t.saved[u] <= x.version
      BY <3>2, <3>3, <3>4, <3>5 DEF Effect, m, Fits
    <3>7. IsOpen(t, u) => t.open[u].version <= x.version
      BY <3>2, <3>3 DEF Effect, m, Fits
    <3> QED
      BY <3>1, <3>2, <3>6, <3>7 DEF Fits
  <2>2. ASSUME NEW i \in 1 .. n - 1, NEW j \in 1 .. n - 1, i <= j, r[i].uri = r[j].uri
        PROVE  r[i].version <= r[j].version
    <3>1. i + 1 \in 1 .. n /\ j + 1 \in 1 .. n /\ i + 1 <= j + 1 /\ r[i] = ms[i + 1] /\ r[j] = ms[j + 1]
      BY <1>2, <1>3, <2>2
    <3> QED
      BY <2>2, <3>1 DEF Coming, Versions, n
  <2> QED
    BY <1>2, <2>1, <2>2 DEF Versions
<1> QED
  BY <1>2, <1>5, <1>6 DEF Coming, r

\* t has the documents of s open, at the same versions and with the same saves.
Agree(s, t) ==
  \A u \in Docs : /\ IsOpen(t, u) <=> IsOpen(s, u)
                  /\ IsOpen(t, u) => t.open[u].version = s.open[u].version
                  /\ t.saved[u] = s.saved[u]

LEMMA ComingAgrees ==
  ASSUME NEW s, NEW t, NEW ed \in Editors, NEW ms, Coming(s, ed, ms), Agree(s, t)
  PROVE  Coming(t, ed, ms)
<1>1. \A i \in 1 .. Len(ms) : ms[i].uri \in Docs
  <2>1. \A i \in 1 .. Len(ms) : ms[i] \in Messages
    BY ElementOfSeq DEF Coming
  <2> QED
    BY <2>1 DEF Messages
<1>2. \A u \in Docs, i \in Int : OpenBefore(s, ms, i, u) => OpenBefore(t, ms, i, u)
  BY DEF OpenBefore, Agree
<1>3. Protocol(t, ed, ms)
  <2>1. \A i \in 1 .. Len(ms) : i \in Int
    OBVIOUS
  <2>2. Len(ms) + 1 \in Int /\ ed.open \subseteq Docs
    BY LenProperties DEF Coming, Editors
  <2> QED
    BY <1>1, <1>2, <2>1, <2>2 DEF Coming, Protocol
<1>4. Versions(t, ed, ms)
  <2>1. ASSUME NEW i \in 1 .. Len(ms)
        PROVE  Fits(t, ed, ms[i])
    <3>1. ms[i].uri \in Docs /\ Fits(s, ed, ms[i])
      BY <1>1 DEF Coming, Versions
    <3> QED
      BY <3>1 DEF Fits, Agree
  <2> QED
    BY <2>1 DEF Coming, Versions
<1> QED
  BY <1>3, <1>4 DEF Coming

\* What sending m makes of the editor.
Sends(ed, m, next) ==
  /\ m \in Messages /\ next \in Editors
  /\ next.version[m.uri] = m.version /\ ed.version[m.uri] <= m.version
  /\ m.method \in {"didOpen", "didChange"} => m.version >= 1
  /\ \A u \in Docs \ {m.uri} : next.version[u] = ed.version[u]
  /\ \A u \in Docs : next.disk[u] = IF u = m.uri /\ m.method = "didSave" THEN m.version ELSE ed.disk[u]
  /\ m.method \in NeedOpen => m.uri \in ed.open
  /\ \A u \in next.open : \/ u \in ed.open /\ ~Toggles(m, u)
                          \/ u = m.uri /\ m.method = "didOpen"

\* The server's part does not mind an editor that goes on.
LEMMA SrvOKSends ==
  ASSUME NEW ed \in Editors, NEW m, NEW next, Sends(ed, m, next), NEW s, SrvOK(s, ed, Docs)
  PROVE  SrvOK(s, next, Docs)
<1>1. s \in Servers /\ m.uri \in Docs /\ m.version \in Nat
  BY DEF SrvOK, Sends, Messages
<1>2. \A u \in Docs : ed.version[u] \in Nat /\ next.version[u] \in Nat
  BY DEF Sends, Editors
<1>3. \A u \in Docs : ed.disk[u] \in Nat /\ next.disk[u] \in Nat /\ s.saved[u] \in Nat
  BY <1>1 DEF Sends, Editors, Servers
<1>4. \A u \in Docs : ed.version[u] <= next.version[u]
  BY <1>2 DEF Sends
<1>5. \A u \in Docs : s.saved[u] <= ed.disk[u] /\ ed.disk[u] <= ed.version[u]
  BY DEF SrvOK
<1>6. \A u \in Docs : s.saved[u] <= next.disk[u] /\ next.disk[u] <= next.version[u]
  BY <1>1, <1>2, <1>3, <1>4, <1>5 DEF Sends
<1>7. ASSUME NEW u \in Docs, IsOpen(s, u)
      PROVE  DocOK(s.open[u], s.published[u], s.saved[u], next.version[u])
  <2>1. DocOK(s.open[u], s.published[u], s.saved[u], ed.version[u])
    BY <1>7 DEF SrvOK
  <2>2. s.open[u].version \in 1 .. next.version[u]
    BY <1>2, <1>4, <2>1 DEF DocOK
  <2> QED
    BY <2>1, <2>2 DEF DocOK
<1> QED
  BY <1>6, <1>7 DEF SrvOK

\* What the k-th message leaves open.
LEMMA OpenAfter ==
  ASSUME NEW s, NEW ms, NEW k \in Nat \ {0}, NEW u
  PROVE  /\ OpenBefore(s, ms, k, u) /\ ~Toggles(ms[k], u) => OpenBefore(s, ms, k + 1, u)
         /\ ms[k].uri = u /\ ms[k].method = "didOpen" => OpenBefore(s, ms, k + 1, u)
<1>1. k + 1 - 1 = k /\ k \in 1 .. k
  OBVIOUS
<1>2. \A j \in 1 .. k : j \in 1 .. k - 1 \/ j = k
  OBVIOUS
<1>3. ASSUME IsOpen(s, u), \A j \in 1 .. k - 1 : ~Toggles(ms[j], u), ~Toggles(ms[k], u)
      PROVE  OpenBefore(s, ms, k + 1, u)
  <2>1. \A j \in 1 .. k : ~Toggles(ms[j], u)
    BY <1>2, <1>3
  <2> QED
    BY <1>1, <1>3, <2>1 DEF OpenBefore
<1>4. ASSUME NEW j \in 1 .. k, ms[j].uri = u, ms[j].method = "didOpen",
             \A i \in j + 1 .. k : ~Toggles(ms[i], u)
      PROVE  OpenBefore(s, ms, k + 1, u)
  BY <1>1, <1>4 DEF OpenBefore
<1>5. ASSUME NEW j \in 1 .. k - 1, ms[j].uri = u, ms[j].method = "didOpen",
             \A i \in j + 1 .. k - 1 : ~Toggles(ms[i], u), ~Toggles(ms[k], u)
      PROVE  OpenBefore(s, ms, k + 1, u)
  <2>1. \A i \in j + 1 .. k : i \in j + 1 .. k - 1 \/ i = k
    OBVIOUS
  <2>2. j \in 1 .. k /\ \A i \in j + 1 .. k : ~Toggles(ms[i], u)
    BY <1>5, <2>1
  <2> QED
    BY <1>4, <1>5, <2>2
<1>6. ASSUME OpenBefore(s, ms, k, u), ~Toggles(ms[k], u)
      PROVE  OpenBefore(s, ms, k + 1, u)
  BY <1>3, <1>5, <1>6 DEF OpenBefore
<1>7. ASSUME ms[k].uri = u, ms[k].method = "didOpen"
      PROVE  OpenBefore(s, ms, k + 1, u)
  <2>1. \A i \in k + 1 .. k : ~Toggles(ms[i], u)
    OBVIOUS
  <2> QED
    BY <1>1, <1>4, <1>7, <2>1
<1> QED
  BY <1>6, <1>7

\* One more message is on its way.
LEMMA ComingAppend ==
  ASSUME NEW ed \in Editors, NEW m, NEW next, Sends(ed, m, next), NEW s, SrvOK(s, ed, Docs),
         NEW ms, Coming(s, ed, ms)
  PROVE  Coming(s, next, Append(ms, m))
<1> DEFINE n == Len(ms)
           r == Append(ms, m)
<1>1. m \in Messages /\ m.uri \in Docs /\ m.version \in Nat /\ next \in Editors
  BY DEF Sends, Messages
<1>2. ms \in Seq(Messages) /\ n \in Nat /\ \A i \in 1 .. n : ms[i] \in Messages
  BY ElementOfSeq, LenProperties DEF Coming
<1>3. r \in Seq(Messages) /\ Len(r) = n + 1 /\ r[n + 1] = m /\ \A i \in 1 .. n : r[i] = ms[i]
  BY <1>1, <1>2, AppendProperties
<1> HIDE DEF n, r
<1>4. ASSUME NEW i \in 1 .. n + 1, NEW u \in Docs, OpenBefore(s, ms, i, u)
      PROVE  OpenBefore(s, r, i, u)
  <2>1. \A k \in 1 .. i - 1 : r[k] = ms[k]
    BY <1>2, <1>3
  <2>2. CASE IsOpen(s, u) /\ \A j \in 1 .. i - 1 : ~Toggles(ms[j], u)
    BY <2>1, <2>2 DEF OpenBefore
  <2>3. ASSUME NEW j \in 1 .. i - 1, ms[j].uri = u, ms[j].method = "didOpen",
               \A k \in j + 1 .. i - 1 : ~Toggles(ms[k], u)
        PROVE  OpenBefore(s, r, i, u)
    <3>1. \A k \in j + 1 .. i - 1 : k \in 1 .. i - 1
      OBVIOUS
    <3> QED
      BY <2>1, <2>3, <3>1 DEF OpenBefore
  <2> QED
    BY <1>4, <2>2, <2>3 DEF OpenBefore
<1>5. Protocol(s, next, r)
  <2>1. ASSUME NEW i \in 1 .. n + 1, r[i].method \in NeedOpen
        PROVE  OpenBefore(s, r, i, r[i].uri)
    <3>1. CASE i = n + 1
      <4>1. m.uri \in ed.open
        BY <1>3, <2>1, <3>1 DEF Sends
      <4>2. OpenBefore(s, ms, n + 1, m.uri)
        BY <4>1 DEF Coming, Protocol, n
      <4> QED
        BY <1>1, <1>3, <1>4, <3>1, <4>2
    <3>2. CASE i \in 1 .. n
      <4>1. r[i] = ms[i] /\ r[i].uri \in Docs
        BY <1>2, <1>3, <3>2 DEF Messages
      <4>2. OpenBefore(s, ms, i, r[i].uri)
        BY <2>1, <3>2, <4>1 DEF Coming, Protocol, n
      <4> QED
        BY <1>4, <4>1, <4>2
    <3> QED
      BY <1>2, <3>1, <3>2
  <2>2. ASSUME NEW u \in next.open
        PROVE  OpenBefore(s, r, n + 2, u)
    <3>0. u \in Docs /\ n + 1 \in Nat \ {0} /\ n + 1 + 1 = n + 2 /\ n + 1 \in 1 .. n + 1
      BY <1>1, <1>2 DEF Editors
    <3>1. CASE u = m.uri /\ m.method = "didOpen"
      BY <1>3, <3>0, <3>1, OpenAfter
    <3>2. CASE u \in ed.open /\ ~Toggles(m, u)
      <4>1. OpenBefore(s, ms, n + 1, u)
        BY <3>2 DEF Coming, Protocol, n
      <4>2. OpenBefore(s, r, n + 1, u)
        BY <1>4, <3>0, <4>1
      <4> QED
        BY <1>3, <3>0, <3>2, <4>2, OpenAfter
    <3> QED
      BY <3>1, <3>2 DEF Sends
  <2>3. Len(r) + 1 = n + 2
    BY <1>2, <1>3
  <2> QED
    BY <1>3, <2>1, <2>2, <2>3 DEF Protocol
<1>6. \A u \in Docs : /\ ed.version[u] \in Nat /\ next.version[u] \in Nat
                      /\ ed.version[u] <= next.version[u]
  <2>1. \A u \in Docs : ed.version[u] \in Nat /\ next.version[u] \in Nat
    BY <1>1 DEF Editors
  <2> QED
    BY <2>1 DEF Sends
<1>7. \A u \in Docs : /\ ed.disk[u] \in Nat /\ next.disk[u] \in Nat /\ ed.disk[u] <= next.disk[u]
                      /\ s.saved[u] <= ed.disk[u] /\ ed.disk[u] <= ed.version[u]
  <2>1. \A u \in Docs : ed.disk[u] \in Nat /\ next.disk[u] \in Nat
    BY <1>1 DEF Editors
  <2>2. \A u \in Docs : s.saved[u] <= ed.disk[u] /\ ed.disk[u] <= ed.version[u]
    BY DEF SrvOK
  <2>3. \A u \in Docs : ed.disk[u] <= next.disk[u]
    BY <1>1, <1>6, <2>1, <2>2 DEF Sends
  <2> QED
    BY <2>1, <2>2, <2>3
<1>8. \A i \in 1 .. n : ms[i].version \in Nat /\ ms[i].uri \in Docs /\ Fits(s, ed, ms[i])
  BY <1>2 DEF Messages, Coming, Versions, n
<1>9. Versions(s, next, r)
  <2>1. ASSUME NEW i \in 1 .. n + 1
        PROVE  Fits(s, next, r[i])
    <3>1. CASE i \in 1 .. n
      <4> DEFINE x == ms[i]
      <4>1. x.version \in Nat /\ x.uri \in Docs /\ Fits(s, ed, x) /\ r[i] = x
        BY <1>3, <1>8, <3>1
      <4> HIDE DEF x
      <4>2. Fits(s, next, x)
        BY <1>6, <1>7, <4>1 DEF Fits
      <4> QED
        BY <4>1, <4>2
    <3>2. CASE i = n + 1
      <4>1. s.saved[m.uri] \in Nat
        BY <1>1 DEF SrvOK, Servers
      <4>2. s.saved[m.uri] <= m.version
        BY <1>1, <1>6, <1>7, <4>1 DEF Sends
      <4>3. IsOpen(s, m.uri) => s.open[m.uri].version <= m.version
        <5>1. IsOpen(s, m.uri) => s.open[m.uri].version \in 1 .. ed.version[m.uri]
          BY <1>1 DEF SrvOK, DocOK
        <5> QED
          BY <1>1, <1>6, <5>1 DEF Sends
      <4>4. Fits(s, next, m)
        BY <1>1, <4>2, <4>3 DEF Fits, Sends
      <4> QED
        BY <1>3, <3>2, <4>4
    <3> QED
      BY <1>2, <3>1, <3>2
  <2>2. ASSUME NEW i \in 1 .. n + 1, NEW j \in 1 .. n + 1, i <= j, r[i].uri = r[j].uri
        PROVE  r[i].version <= r[j].version
    <3>1. CASE j \in 1 .. n
      <4>1. i \in 1 .. n /\ r[i] = ms[i] /\ r[j] = ms[j]
        BY <1>2, <1>3, <2>2, <3>1
      <4> QED
        BY <2>2, <3>1, <4>1 DEF Coming, Versions, n
    <3>2. CASE j = n + 1 /\ i = n + 1
      BY <1>1, <1>3, <3>2
    <3>3. CASE j = n + 1 /\ i \in 1 .. n
      <4>1. r[i] = ms[i] /\ r[j] = m
        BY <1>3, <3>3
      <4>2. ms[i].version <= ed.version[m.uri]
        BY <1>8, <2>2, <3>3, <4>1 DEF Fits
      <4>3. ms[i].version \in Nat
        BY <1>8, <3>3
      <4> QED
        BY <1>1, <1>6, <4>1, <4>2, <4>3 DEF Sends
    <3> QED
      BY <1>2, <3>1, <3>2, <3>3
  <2> QED
    BY <1>3, <2>1, <2>2 DEF Versions
<1> QED
  BY <1>3, <1>5, <1>9 DEF Coming, r

-----------------------------------------------------------------------------
(***************************************************************************)
(* The inductive invariant: the server's part, and the protocol of the     *)
(* messages between the editor and the server, in the order the server     *)
(* will handle them.                                                       *)
(***************************************************************************)
Places == {"wait", "handle", "check", "grace", "rank", "gone"}

LInv ==
  /\ editor \in Editors /\ inbox \in Seq(Messages) /\ batch \in Seq(Messages) /\ pc \in Places
  /\ pc \notin {"handle", "gone"} => batch = <<>>
  /\ SrvOK(srv, editor, Docs)
  /\ Coming(srv, editor, batch \o inbox)

LEMMA InitInv == Init => LInv
<1> SUFFICES ASSUME Init PROVE LInv
  OBVIOUS
<1>1. editor \in Editors /\ editor.open = {} /\ \A u \in Docs : editor.disk[u] = 0 /\ editor.version[u] = 0
  BY DEF Init, Editors
<1>2. /\ srv \in Servers /\ srv.dirty = <<>> /\ \A u \in Docs : srv.open[u] = Closed
      /\ \A u \in Docs : srv.published[u] = None /\ srv.saved[u] = 0
  <2> DEFINE op == [u \in Docs |-> Closed]
             gr == [u \in Docs |-> None]
             rk == [u \in Docs |-> NoDue]
             pb == [u \in Docs |-> None]
             sv == [u \in Docs |-> 0]
  <2>1. /\ op \in [Docs -> Opens \cup {Closed}] /\ gr \in [Docs -> Graces \cup {None}]
        /\ rk \in [Docs -> Deadlines] /\ pb \in [Docs -> Publications \cup {None}] /\ sv \in [Docs -> Nat]
    BY DEF Deadlines, NoDue
  <2>2. \A u \in Docs : op[u] = Closed /\ pb[u] = None /\ sv[u] = 0
    OBVIOUS
  <2>3. srv = [open |-> op, dirty |-> <<>>, due |-> NoDue, grace_due |-> gr, rank_due |-> rk,
               published |-> pb, saved |-> sv]
    BY DEF Init
  <2>4. <<>> \in Seq(Docs) /\ NoDue \in Deadlines
    BY DEF NoDue, Deadlines
  <2> HIDE DEF op, gr, rk, pb, sv
  <2>5. /\ srv \in Servers /\ srv.dirty = <<>> /\ srv.open = op /\ srv.published = pb /\ srv.saved = sv
    BY <2>1, <2>3, <2>4 DEF Servers
  <2> QED
    BY <2>2, <2>5
<1>3. \A u \in Docs : ~IsOpen(srv, u)
  BY <1>2 DEF IsOpen
<1>4. <<>> \in Queues /\ ToSet(<<>>) = {}
  BY DEF Queues, IsInjective, ToSet
<1>5. SrvOK(srv, editor, Docs)
  BY <1>1, <1>2, <1>3, <1>4 DEF SrvOK, SeenBy
<1>6. inbox = <<>> /\ batch = <<>> /\ pc = "wait" /\ <<>> \in Seq(Messages) /\ <<>> \o <<>> = <<>>
  BY DEF Init
<1>7. Coming(srv, editor, <<>>)
  BY <1>1, <1>6 DEF Coming, Protocol, Versions
<1> QED
  BY <1>1, <1>5, <1>6, <1>7 DEF LInv, Places

\* A message joins the inbox.
LEMMA SendStep ==
  ASSUME LInv, NEW u \in Docs, NEW method \in MethodNames, NEW kind \in TextKinds, Send(method, u, kind)
  PROVE  LInv' /\ Forward(srv, srv')
<1> DEFINE v == editor.version[u] + (IF method \in {"didOpen", "didChange"} THEN 1 ELSE 0)
           m == [method |-> method, uri |-> u, version |-> v, kind |-> kind]
<1>1. editor \in Editors /\ SrvOK(srv, editor, Docs) /\ inbox \in Seq(Messages) /\ batch \in Seq(Messages)
  BY DEF LInv
<1>2. /\ editor.version[u] \in Nat /\ v \in Nat /\ editor.version[u] <= v
      /\ method \in {"didOpen", "didChange"} => v >= 1
  BY <1>1 DEF Editors
<1>3. /\ inbox' = Append(inbox, m) /\ pc' = pc /\ batch' = batch /\ srv' = srv
      /\ (method = "didOpen") = (u \notin editor.open) \/ method \in {"didChangeConfiguration", "exit"}
      /\ editor' = [editor EXCEPT !.sent = @ + 1, !.version[u] = v,
                                  !.open = IF method = "didOpen" THEN @ \cup {u}
                                           ELSE IF method = "didClose" THEN @ \ {u} ELSE @,
                                  !.disk[u] = IF method = "didSave" THEN v ELSE @]
  BY DEF Send
<1> HIDE DEF v
<1>4. m \in Messages /\ m.uri = u /\ m.version = v /\ m.method = method
  BY <1>2 DEF Messages
<1> HIDE DEF m
<1>5. /\ editor' \in Editors /\ editor'.version[u] = v
      /\ \A w \in Docs \ {u} : editor'.version[w] = editor.version[w]
      /\ \A w \in Docs : editor'.disk[w] = IF w = u /\ method = "didSave" THEN v ELSE editor.disk[w]
      /\ editor'.open = IF method = "didOpen" THEN editor.open \cup {u}
                        ELSE IF method = "didClose" THEN editor.open \ {u} ELSE editor.open
  <2> DEFINE ver == [editor.version EXCEPT ![u] = v]
             dsk == [editor.disk EXCEPT ![u] = IF method = "didSave" THEN v ELSE @]
             opn == IF method = "didOpen" THEN editor.open \cup {u}
                    ELSE IF method = "didClose" THEN editor.open \ {u} ELSE editor.open
  <2>1. /\ editor.version \in [Docs -> Nat] /\ editor.disk \in [Docs -> Nat]
        /\ editor.open \subseteq Docs /\ editor.sent \in Nat
    BY <1>1 DEF Editors
  <2>2. /\ ver \in [Docs -> Nat] /\ ver[u] = v
        /\ \A w \in Docs \ {u} : ver[w] = editor.version[w]
    BY <1>2, <2>1
  <2>3. /\ dsk \in [Docs -> Nat]
        /\ \A w \in Docs : dsk[w] = IF w = u /\ method = "didSave" THEN v ELSE editor.disk[w]
    BY <1>2, <2>1
  <2>4. opn \in SUBSET Docs
    BY <2>1
  <2>5. editor' = [editor EXCEPT !.sent = @ + 1, !.version = ver, !.open = opn, !.disk = dsk]
    BY <1>1, <1>3 DEF Editors
  <2>6. editor.sent + 1 \in Nat
    BY <2>1
  <2> HIDE DEF ver, dsk, opn
  <2>7. editor' \in Editors /\ editor'.version = ver /\ editor'.disk = dsk /\ editor'.open = opn
    BY <1>1, <2>2, <2>3, <2>4, <2>5, <2>6 DEF Editors
  <2> QED
    BY <2>2, <2>3, <2>7 DEF opn
<1>6. method \in NeedOpen => u \in editor.open
  BY <1>3 DEF NeedOpen
<1>7. \A w \in editor'.open : \/ w \in editor.open /\ ~Toggles(m, w)
                              \/ w = u /\ method = "didOpen"
  BY <1>3, <1>4, <1>5 DEF Toggles
<1>8. Sends(editor, m, editor')
  BY <1>2, <1>4, <1>5, <1>6, <1>7 DEF Sends
<1>9. SrvOK(srv, editor', Docs)
  BY <1>1, <1>8, SrvOKSends
<1>10. batch \o Append(inbox, m) = Append(batch \o inbox, m)
  BY <1>1, <1>4
<1>11. Coming(srv, editor', batch \o Append(inbox, m))
  BY <1>1, <1>8, <1>10, ComingAppend DEF LInv
<1>12. inbox' \in Seq(Messages)
  BY <1>1, <1>3, <1>4
<1>13. Forward(srv, srv')
  BY <1>1, <1>3, SameForward DEF SrvOK
<1> QED
  BY <1>1, <1>3, <1>5, <1>9, <1>11, <1>12, <1>13 DEF LInv

\* A step of the server that handles no message.
LEMMA OwnStep ==
  ASSUME LInv, SrvOK(srv', editor, Docs), Forward(srv, srv'), Agree(srv, srv'),
         editor' = editor, inbox' = inbox, batch' = batch, pc' \in Places,
         pc' \notin {"handle", "gone"} => batch = <<>>
  PROVE  LInv' /\ Forward(srv, srv')
<1>1. Coming(srv', editor, batch \o inbox)
  BY ComingAgrees DEF LInv
<1> QED
  BY <1>1 DEF LInv

\* A step that changes deadlines, or the marks of open documents, only.
LEMMA MarksStep ==
  ASSUME LInv, srv' \in Servers,
         srv'.dirty = srv.dirty, srv'.published = srv.published, srv'.saved = srv.saved,
         \A w \in Docs : \/ srv'.open[w] = srv.open[w]
                         \/ /\ IsOpen(srv, w) /\ srv'.open[w] \in Opens
                            /\ srv'.open[w].version = srv.open[w].version
                            /\ srv'.open[w].snapshot = srv.open[w].snapshot
                            /\ srv'.open[w].base = srv.open[w].base
                            /\ srv'.open[w].failure = srv.open[w].failure
                            /\ srv'.open[w].focus \in 0 .. srv.open[w].version,
         editor' = editor, inbox' = inbox, batch' = batch, pc' \in Places,
         pc' \notin {"handle", "gone"} => batch = <<>>
  PROVE  LInv' /\ Forward(srv, srv')
<1>1. SrvOK(srv, editor, Docs) /\ srv \in Servers
  BY DEF LInv, SrvOK
<1>2. SrvOK(srv', editor, Docs)
  BY <1>1, RecordsKeep
<1>3. Forward(srv, srv')
  BY <1>1, SameForward
<1>4. Agree(srv, srv')
  BY Distinct DEF Agree, IsOpen
<1> QED
  BY <1>2, <1>3, <1>4, OwnStep

\* Deadlines pass.
LEMMA DueStep ==
  ASSUME LInv, ExpireDue
  PROVE  LInv' /\ Forward(srv, srv')
<1>1. /\ srv \in Servers /\ srv' = [srv EXCEPT !.due = "ready"]
      /\ editor' = editor /\ inbox' = inbox /\ batch' = batch /\ pc' \in Places
      /\ pc' \notin {"handle", "gone"} => batch = <<>>
  BY DEF LInv, SrvOK, ExpireDue
<1>2. srv' \in Servers /\ srv'.dirty = srv.dirty /\ srv'.published = srv.published
      /\ srv'.saved = srv.saved /\ srv'.open = srv.open
  BY <1>1 DEF Servers, Deadlines
<1> QED
  BY <1>1, <1>2, MarksStep

LEMMA TimeStep ==
  ASSUME LInv, NEW u \in Docs, ExpireRank(u) \/ PauseEnds(u) \/ ExpireGrace(u)
  PROVE  LInv' /\ Forward(srv, srv')
<1>1. srv \in Servers /\ pc \in Places /\ (pc \notin {"handle", "gone"} => batch = <<>>)
  BY DEF LInv, SrvOK
<1>2. editor' = editor /\ inbox' = inbox /\ batch' = batch /\ pc' = pc
  BY DEF ExpireRank, PauseEnds, ExpireGrace
<1>3. CASE ExpireRank(u)
  <2>1. srv' = [srv EXCEPT !.rank_due[u] = "ready"]
    BY <1>3 DEF ExpireRank
  <2>2. srv' \in Servers /\ srv'.dirty = srv.dirty /\ srv'.published = srv.published
        /\ srv'.saved = srv.saved /\ srv'.open = srv.open
    BY <1>1, <2>1 DEF Servers, Deadlines
  <2> QED
    BY <1>1, <1>2, <2>2, MarksStep
<1>4. CASE PauseEnds(u)
  <2> DEFINE o == srv.open[u]
             n == [o EXCEPT !.typing = FALSE]
  <2>1. IsOpen(srv, u) /\ srv' = [srv EXCEPT !.open[u].typing = FALSE]
    BY <1>4 DEF PauseEnds
  <2>2. o \in Opens
    BY <1>1, <2>1, OpenType
  <2>3. /\ n \in Opens /\ n.version = o.version /\ n.snapshot = o.snapshot /\ n.failure = o.failure
        /\ n.focus = o.focus /\ n.base = o.base
    BY <2>2 DEF Opens
  <2>4. srv' = [srv EXCEPT !.open[u] = n]
    BY <1>1, <2>1 DEF Servers
  <2> HIDE DEF n
  <2>5. /\ srv' \in Servers /\ srv'.dirty = srv.dirty /\ srv'.published = srv.published
        /\ srv'.saved = srv.saved /\ srv'.open[u] = n
        /\ \A w \in Docs \ {u} : srv'.open[w] = srv.open[w]
    BY <1>1, <2>3, <2>4 DEF Servers
  <2>6. o.focus \in 0 .. o.version
    BY <2>1 DEF LInv, SrvOK, DocOK
  <2> QED
    BY <1>1, <1>2, <2>1, <2>3, <2>5, <2>6, MarksStep
<1>5. CASE ExpireGrace(u)
  <2> DEFINE g == srv.grace_due[u]
             h == [g EXCEPT !.ready = TRUE]
  <2>1. g # None /\ srv' = [srv EXCEPT !.grace_due[u].ready = TRUE]
    BY <1>5 DEF ExpireGrace
  <2>2. g \in Graces
    BY <1>1, <2>1 DEF Servers
  <2>3. h \in Graces
    BY <2>2 DEF Graces
  <2>4. srv' = [srv EXCEPT !.grace_due[u] = h]
    BY <1>1, <2>1 DEF Servers
  <2> HIDE DEF h, g
  <2>5. srv' \in Servers /\ srv'.dirty = srv.dirty /\ srv'.published = srv.published
        /\ srv'.saved = srv.saved /\ srv'.open = srv.open
    BY <1>1, <2>3, <2>4 DEF Servers
  <2> QED
    BY <1>1, <1>2, <2>5, MarksStep
<1> QED
  BY <1>3, <1>4, <1>5

\* The server takes what has arrived.
LEMMA TakeStep ==
  ASSUME LInv, Take
  PROVE  LInv' /\ Forward(srv, srv')
<1>1. /\ batch = <<>> /\ inbox \in Seq(Messages) /\ batch' = inbox /\ inbox' = <<>> /\ pc' = "handle"
      /\ editor' = editor /\ srv' = srv
  BY DEF LInv, Take
<1>2. batch' \o inbox' = batch \o inbox
  BY <1>1
<1>3. Forward(srv, srv')
  BY <1>1, SameForward DEF LInv, SrvOK
<1>4. <<>> \in Seq(Messages)
  OBVIOUS
<1> QED
  BY <1>1, <1>2, <1>3, <1>4 DEF LInv, Places

\* It handles one message.
LEMMA HandleStep ==
  ASSUME LInv, Handle
  PROVE  LInv' /\ Forward(srv, srv')
<1> DEFINE ms == batch \o inbox
           m == Head(batch)
<1>1. /\ batch \in Seq(Messages) /\ inbox \in Seq(Messages) /\ batch # <<>>
      /\ editor \in Editors /\ SrvOK(srv, editor, Docs) /\ Coming(srv, editor, ms)
      /\ srv' = handle(srv, m) /\ batch' = Tail(batch) /\ editor' = editor /\ inbox' = inbox
      /\ pc' \in {"handle", "gone"}
  BY DEF LInv, Handle
<1>2. /\ ms \in Seq(Messages) /\ ms # <<>> /\ Head(ms) = m /\ Tail(ms) = Tail(batch) \o inbox
      /\ m \in Messages /\ Tail(batch) \in Seq(Messages) /\ Len(ms) >= 1 /\ ms[1] = m
  BY <1>1
<1> HIDE DEF ms, m
<1>3. Fits(srv, editor, m)
  BY <1>1, <1>2 DEF Coming, Versions
<1>4. m.method \in NeedOpen => IsOpen(srv, m.uri)
  <2>1. 1 \in 1 .. Len(ms)
    BY <1>2
  <2>2. m.method \in NeedOpen => OpenBefore(srv, ms, 1, m.uri)
    BY <1>1, <1>2, <2>1 DEF Coming, Protocol
  <2>3. 1 .. 1 - 1 = {}
    OBVIOUS
  <2> QED
    BY <2>2, <2>3 DEF OpenBefore
<1>5. SrvOK(srv', editor, Docs) /\ Forward(srv, srv') /\ Effect(srv, m, srv')
  BY <1>1, <1>2, <1>3, <1>4, HandleHandled DEF Handled
<1>6. Coming(srv', editor, Tail(ms))
  BY <1>1, <1>2, <1>5, ComingTail DEF SrvOK
<1> QED
  BY <1>1, <1>2, <1>5, <1>6 DEF LInv, Places

\* The checks begin, if they are due, and end.
LEMMA TickStep ==
  ASSUME LInv, TickChecks \/ ChecksDone
  PROVE  LInv' /\ Forward(srv, srv')
<1>1. srv \in Servers /\ (pc \notin {"handle", "gone"} => batch = <<>>)
  BY DEF LInv, SrvOK
<1>2. /\ editor' = editor /\ inbox' = inbox /\ batch' = batch /\ batch = <<>> /\ pc' \in Places
      /\ srv' = [srv EXCEPT !.due = NoDue] \/ srv' = srv
  BY <1>1 DEF TickChecks, ChecksDone, Places
<1>3. srv' \in Servers /\ srv'.dirty = srv.dirty /\ srv'.published = srv.published
      /\ srv'.saved = srv.saved /\ srv'.open = srv.open
  BY <1>1, <1>2 DEF Servers, Deadlines, NoDue
<1> QED
  BY <1>2, <1>3, MarksStep

\* The first document of the queue is checked.
LEMMA CheckStep ==
  ASSUME LInv, CheckOne
  PROVE  LInv' /\ Forward(srv, srv')
<1> DEFINE u == Head(srv.dirty)
           s0 == [srv EXCEPT !.dirty = Tail(srv.dirty)]
           a == analyze(s0, u)
           p == publish(a, u)
           r == schedule_rank(p, u)
<1>1. /\ editor \in Editors /\ SrvOK(srv, editor, Docs) /\ srv \in Servers /\ batch = <<>>
      /\ srv.dirty \in Queues /\ srv.dirty # <<>> /\ pc' \in Places
      /\ editor' = editor /\ inbox' = inbox /\ batch' = batch
      /\ srv' = r \/ srv' = [r EXCEPT !.due = "ready"]
  BY DEF LInv, SrvOK, CheckOne, Places
<1>2. /\ u \in Docs /\ u \in ToSet(srv.dirty) /\ Tail(srv.dirty) \in Queues
      /\ ToSet(Tail(srv.dirty)) = ToSet(srv.dirty) \ {u}
  BY <1>1, QueueTail
<1>3. Tail(srv.dirty) \in Seq(Docs)
  BY <1>2 DEF Queues
<1>4. IsOpen(srv, u)
  BY <1>1, <1>2 DEF SrvOK
<1> HIDE DEF u
<1>5. /\ s0 \in Servers /\ s0.dirty = Tail(srv.dirty) /\ s0.open = srv.open
      /\ s0.published = srv.published /\ s0.saved = srv.saved
  BY <1>1, <1>3 DEF Servers
<1> HIDE DEF s0
<1>6. \A w \in Docs : IsOpen(s0, w) <=> IsOpen(srv, w)
  BY <1>5 DEF IsOpen
<1>7. SrvOK(s0, editor, Docs \ {u})
  <2>1. \A w \in Docs : IsOpen(s0, w) => DocOK(s0.open[w], s0.published[w], s0.saved[w], editor.version[w])
    BY <1>1, <1>5, <1>6 DEF SrvOK
  <2>2. \A w \in Docs : ~IsOpen(s0, w) => s0.published[w] = None
    BY <1>1, <1>5, <1>6 DEF SrvOK
  <2>3. \A w \in ToSet(s0.dirty) : IsOpen(s0, w)
    BY <1>1, <1>2, <1>5, <1>6, QueuedDocs DEF SrvOK
  <2>4. SeenBy(s0, Docs \ {u})
    BY <1>1, <1>2, <1>5, <1>6 DEF SrvOK, SeenBy
  <2> QED
    BY <1>1, <1>2, <1>5, <2>1, <2>2, <2>3, <2>4 DEF SrvOK
<1>8. /\ SrvOK(a, editor, Docs) /\ a.published = s0.published /\ a.saved = s0.saved
      /\ \A w \in Docs : IsOpen(a, w) <=> IsOpen(s0, w)
      /\ \A w \in Docs : IsOpen(s0, w) => a.open[w].version = s0.open[w].version
  BY <1>1, <1>2, <1>4, <1>6, <1>7, AnalyzeKeeps
<1> HIDE DEF a
<1>9. SrvOK(p, editor, Docs) /\ Forward(a, p) /\ p.open = a.open /\ p.saved = a.saved
  BY <1>2, <1>8, PublishKeeps
<1> HIDE DEF p
<1>10. p \in Servers
  BY <1>9 DEF SrvOK
<1>11. r \in Servers /\ r.dirty = p.dirty /\ r.published = p.published /\ r.saved = p.saved /\ r.open = p.open
  BY <1>2, <1>10 DEF schedule_rank, Servers, Deadlines
<1>12. srv' \in Servers /\ srv'.dirty = p.dirty /\ srv'.published = p.published /\ srv'.saved = p.saved
       /\ srv'.open = p.open
  <2> HIDE DEF r
  <2> QED
    BY <1>1, <1>11 DEF Servers, Deadlines
<1>13. SrvOK(srv', editor, Docs)
  BY <1>9, <1>12, RecordsKeep
<1>14. Forward(srv, srv')
  BY <1>5, <1>8, <1>9, <1>12 DEF Forward
<1>15. Agree(srv, srv')
  BY <1>5, <1>6, <1>8, <1>9, <1>12 DEF Agree, IsOpen
<1> QED
  BY <1>1, <1>13, <1>14, <1>15, OwnStep

\* Held-back errors are shown.
LEMMA GraceStep ==
  ASSUME LInv, TickGrace
  PROVE  LInv' /\ Forward(srv, srv')
<1> DEFINE ready == {u \in Docs : srv.grace_due[u] # None /\ srv.grace_due[u].ready}
           gr == [u \in Docs |-> IF u \in ready THEN None ELSE srv.grace_due[u]]
           rest == [srv EXCEPT !.grace_due = gr]
<1>1. /\ SrvOK(srv, editor, Docs) /\ srv \in Servers /\ batch = <<>> /\ pc' \in Places
      /\ editor' = editor /\ inbox' = inbox /\ batch' = batch /\ srv' = PublishAll(rest, ready)
  BY DEF LInv, SrvOK, TickGrace, Places
<1>2. gr \in [Docs -> Graces \cup {None}]
  BY <1>1 DEF Servers
<1>3. ready \subseteq Docs
  OBVIOUS
<1> HIDE DEF ready, gr
<1>4. rest \in Servers /\ rest.dirty = srv.dirty /\ rest.published = srv.published
      /\ rest.saved = srv.saved /\ rest.open = srv.open
  BY <1>1, <1>2 DEF Servers
<1> HIDE DEF rest
<1>5. SrvOK(rest, editor, Docs)
  BY <1>1, <1>4, RecordsKeep
<1>6. SrvOK(srv', editor, Docs) /\ Forward(rest, srv') /\ srv'.open = rest.open /\ srv'.saved = rest.saved
  BY <1>1, <1>3, <1>5, PublishAllKeeps
<1>7. Forward(srv, srv') /\ Agree(srv, srv')
  BY <1>4, <1>6 DEF Forward, Agree, IsOpen
<1> QED
  BY <1>1, <1>6, <1>7, OwnStep

\* Documents are ranked.
LEMMA RankStep ==
  ASSUME LInv, TickRank
  PROVE  LInv' /\ Forward(srv, srv')
<1> DEFINE ready == {u \in Docs : srv.rank_due[u] = "ready"}
           rk == [u \in Docs |-> IF u \in ready THEN NoDue ELSE srv.rank_due[u]]
           rest == [srv EXCEPT !.rank_due = rk]
           ranked == {u \in ready : rest.dirty = <<>> /\ Rankable(rest, u)}
           op == [u \in Docs |-> IF u \in ranked THEN rank(rest, u).open[u] ELSE rest.open[u]]
           focused == [rest EXCEPT !.open = op]
<1>1. /\ SrvOK(srv, editor, Docs) /\ srv \in Servers /\ batch = <<>> /\ pc' \in Places
      /\ editor' = editor /\ inbox' = inbox /\ batch' = batch /\ srv' = PublishAll(focused, ranked)
  BY DEF LInv, SrvOK, TickRank, Places
<1>2. rk \in [Docs -> Deadlines]
  BY <1>1 DEF Servers, Deadlines, NoDue
<1>3. ranked \subseteq Docs /\ \A u \in ranked : IsOpen(rest, u) /\ Rankable(rest, u)
  BY DEF Rankable
<1> HIDE DEF ready, rk, ranked
<1>4. rest \in Servers /\ rest.dirty = srv.dirty /\ rest.published = srv.published
      /\ rest.saved = srv.saved /\ rest.open = srv.open
  BY <1>1, <1>2 DEF Servers
<1> HIDE DEF rest
<1>5. SrvOK(rest, editor, Docs)
  BY <1>1, <1>4, RecordsKeep
<1>6. ASSUME NEW u \in ranked
      PROVE  LET n == rank(rest, u).open[u]
                 o == rest.open[u]
             IN  /\ IsOpen(rest, u) /\ n \in Opens
                 /\ n.version = o.version /\ n.snapshot = o.snapshot /\ n.failure = o.failure
                 /\ n.focus \in 0 .. o.version /\ n.base = o.base
  <2> DEFINE o == rest.open[u]
             n == [o EXCEPT !.focus = o.version, !.base = trial(trial(o.base))]
  <2>1. u \in Docs /\ IsOpen(rest, u) /\ Rankable(rest, u)
    BY <1>3
  <2>2. o \in Opens /\ o.version \in Nat
    BY <1>4, <2>1, OpenType DEF Opens
  <2>3. rank(rest, u) = [rest EXCEPT !.open[u] = n]
    BY <1>4, <2>1 DEF rank, Servers
  <2>7. trial(trial(o.base)) = o.base
    BY <1>5, <2>1, TrialsLeave DEF Rankable
  <2>4. rank(rest, u).open[u] = n
    BY <1>4, <2>1, <2>3 DEF Servers
  <2> HIDE DEF o
  <2>5. n \in Opens /\ n.version = o.version /\ n.snapshot = o.snapshot /\ n.failure = o.failure
        /\ n.focus = o.version /\ n.base = o.base
    BY <2>2, <2>7 DEF Opens
  <2>6. o.version \in 0 .. o.version
    BY <2>2
  <2> QED
    BY <2>1, <2>4, <2>5, <2>6 DEF o
<1>7. /\ op \in [Docs -> Opens \cup {Closed}]
      /\ \A u \in Docs : op[u] = IF u \in ranked THEN rank(rest, u).open[u] ELSE rest.open[u]
  BY <1>4, <1>6 DEF Servers
<1> HIDE DEF op
<1>8. focused \in Servers /\ focused.dirty = rest.dirty /\ focused.published = rest.published
      /\ focused.saved = rest.saved /\ focused.open = op
  BY <1>4, <1>7 DEF Servers
<1> HIDE DEF focused
<1>9. \A w \in Docs : \/ focused.open[w] = rest.open[w]
                      \/ /\ IsOpen(rest, w) /\ focused.open[w] \in Opens
                         /\ focused.open[w].version = rest.open[w].version
                         /\ focused.open[w].snapshot = rest.open[w].snapshot
                         /\ focused.open[w].base = rest.open[w].base
                         /\ focused.open[w].failure = rest.open[w].failure
                         /\ focused.open[w].focus \in 0 .. rest.open[w].version
  BY <1>6, <1>7, <1>8
<1>10. SrvOK(focused, editor, Docs)
  BY <1>5, <1>8, <1>9, RecordsKeep
<1>11. /\ SrvOK(srv', editor, Docs) /\ Forward(focused, srv')
       /\ srv'.open = focused.open /\ srv'.saved = focused.saved
  BY <1>1, <1>3, <1>10, PublishAllKeeps
<1>12. Forward(srv, srv')
  BY <1>4, <1>8, <1>11 DEF Forward
<1>13. Agree(srv, srv')
  BY <1>4, <1>8, <1>9, <1>11, Distinct DEF Agree, IsOpen
<1> QED
  BY <1>1, <1>11, <1>12, <1>13, OwnStep

LEMMA StepInv ==
  ASSUME LInv, [Next]_vars
  PROVE  LInv' /\ ((\A u \in Docs : srv.published[u] # None /\ srv'.published[u] # None
                       => srv'.published[u].version >= srv.published[u].version) \/ vars' = vars)
<1>1. CASE EditText
  <2>1. PICK u \in Docs, kind \in Kinds, method \in {"didOpen", "didChange"} : Send(method, u, kind)
    BY <1>1 DEF EditText
  <2>2. kind \in TextKinds /\ method \in MethodNames
    BY LspAssumption DEF TextKinds, MethodNames
  <2> QED
    BY <2>1, <2>2, SendStep DEF Forward
<1>2. CASE Notify
  <2>1. PICK u \in Docs, method \in {"didSave", "didClose", "hover", "codeAction"} : Send(method, u, "none")
    BY <1>2 DEF Notify
  <2>2. "none" \in TextKinds /\ method \in MethodNames
    BY DEF TextKinds, MethodNames
  <2> QED
    BY <2>1, <2>2, SendStep DEF Forward
<1>3. CASE Tell
  <2>1. PICK u \in Docs, method \in {"didChangeConfiguration", "exit"} : Send(method, u, "none")
    BY <1>3 DEF Tell
  <2>2. "none" \in TextKinds /\ method \in MethodNames
    BY DEF TextKinds, MethodNames
  <2> QED
    BY <2>1, <2>2, SendStep DEF Forward
<1>4. CASE ExpireDue
  BY <1>4, DueStep DEF Forward
<1>5. ASSUME NEW u \in Docs, ExpireRank(u) \/ Time(u)
      PROVE  LInv' /\ Forward(srv, srv')
  BY <1>5, TimeStep DEF Time
<1>6. CASE Loop
  <2>1. LInv' /\ Forward(srv, srv')
    BY <1>6, TakeStep, HandleStep, TickStep, CheckStep, GraceStep, RankStep DEF Loop
  <2> QED
    BY <2>1 DEF Forward
<1>7. CASE UNCHANGED vars
  BY <1>7 DEF vars, LInv
<1> QED
  BY <1>1, <1>2, <1>3, <1>4, <1>5, <1>6, <1>7 DEF Next, Forward

LEMMA InvAlways == Spec => []LInv
<1>1. LInv /\ [Next]_vars => LInv'
  BY StepInv
<1> QED
  BY InitInv, <1>1, PTL DEF Spec

-----------------------------------------------------------------------------
(***************************************************************************)
(* The server is type correct: each open document's versions are ones the  *)
(* editor sent, and a document waits for its check at most once, and only  *)
(* while it is open (mark_dirty, and the didClose arm of handle).          *)
(***************************************************************************)
THEOREM LspTypeCorrect == Spec => []TypeOK
<1>1. LInv => TypeOK
  <2> SUFFICES ASSUME LInv PROVE TypeOK
    OBVIOUS
  <2>1. srv \in Servers /\ srv.dirty \in Queues /\ pc \in Places
    BY DEF LInv, SrvOK
  <2>2. srv.due \in {"none", "waits", "ready"}
    BY <2>1 DEF Servers, Deadlines
  <2>3. IsInjective(srv.dirty)
    BY <2>1 DEF Queues
  <2>4. ToSet(srv.dirty) \subseteq {u \in Docs : IsOpen(srv, u)}
    BY <2>1, QueuedDocs DEF LInv, SrvOK
  <2>5. \A u \in Docs : IsOpen(srv, u) =>
          /\ srv.open[u].version \in 1 .. editor.version[u]
          /\ srv.open[u].failure \in 0 .. srv.open[u].version
          /\ srv.open[u].focus \in 0 .. srv.open[u].version
    BY DEF LInv, SrvOK, DocOK
  <2> QED
    BY <2>1, <2>2, <2>3, <2>4, <2>5 DEF TypeOK, Places
<1> QED
  BY InvAlways, <1>1, PTL

(***************************************************************************)
(* A held snapshot can be asked for types at any time: it is of the newest *)
(* generation of its base, so the assertion of Snapshot::checker never     *)
(* fires, and the type store holds its types and none of the trials that   *)
(* rankings and code actions make over the same base (check_root, trial).  *)
(***************************************************************************)
THEOREM SnapshotTypesStay == Spec => []SnapshotTypesLive
<1>1. LInv => SnapshotTypesLive
  BY DEF LInv, SrvOK, DocOK, SnapshotTypesLive
<1> QED
  BY InvAlways, <1>1, PTL

(***************************************************************************)
(* A closed document shows no diagnostics, whatever deadlines set while it *)
(* was open pass afterwards (the didClose arm of handle, and publish).     *)
(***************************************************************************)
THEOREM ClosedShowsNothing == Spec => []ClosedIsCleared
<1>1. LInv => ClosedIsCleared
  BY DEF LInv, SrvOK, ClosedIsCleared
<1> QED
  BY InvAlways, <1>1, PTL

(***************************************************************************)
(* Once a didSave has been handled, every other open document's snapshot   *)
(* reflects the saved file or waits to be checked again (did_save).        *)
(***************************************************************************)
THEOREM SavesAreSeen == Spec => []SavedIsSeen
<1>1. LInv => SavedIsSeen
  <2> SUFFICES ASSUME LInv PROVE SavedIsSeen
    OBVIOUS
  <2>1. SeenBy(srv, Docs) /\ srv.dirty \in Seq(Docs)
    BY DEF LInv, SrvOK, Servers
  <2>2. \A u \in Docs : u \in ToSet(srv.dirty) => Contains(srv.dirty, u)
    BY <2>1, QueueDef
  <2> QED
    BY <2>1, <2>2 DEF SeenBy, SavedIsSeen
<1> QED
  BY InvAlways, <1>1, PTL

(***************************************************************************)
(* What is published of a document that stays open never goes back to an   *)
(* earlier version, whether a check, a request, a grace or a ranking       *)
(* publishes it (publish and publish_failure).                             *)
(***************************************************************************)
THEOREM PublishesForward == Spec => PublishedForward
<1>1. LInv /\ [Next]_vars =>
        [\A u \in Docs : srv.published[u] # None /\ srv'.published[u] # None
           => srv'.published[u].version >= srv.published[u].version]_vars
  BY StepInv
<1> QED
  BY InvAlways, <1>1, PTL DEF Spec, PublishedForward

=============================================================================
