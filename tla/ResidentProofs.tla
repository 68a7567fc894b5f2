--------------------------- MODULE ResidentProofs ---------------------------
(***************************************************************************)
(* Proofs about the modules a process keeps between compiles, for any      *)
(* modules and texts whose imports form no cycle.                          *)
(***************************************************************************)
EXTENDS Resident, TLAPS, SequenceTheorems, FiniteSetTheorems, FunctionTheorems, WellFoundedInduction

-----------------------------------------------------------------------------
(***************************************************************************)
(* Numbers and iterations.                                                 *)
(***************************************************************************)
LEMMA Least ==
  ASSUME NEW T \in SUBSET Nat, T # {}
  PROVE  \E x \in T : \A y \in T : x <= y
<1> DEFINE R == OpToRel(<, Nat)
<1>1. IsWellFoundedOn(R, Nat)
  BY NatLessThanWellFounded
<1>2. \A x, y \in Nat : <<y, x>> \in R <=> y < x
  BY DEF OpToRel
<1> HIDE DEF R
<1>3. PICK x \in T : \A y \in T : <<y, x>> \notin R
  BY <1>1, WFMin
<1>4. ASSUME NEW y \in T
      PROVE  x <= y
  <2>1. x \in Nat /\ y \in Nat /\ <<y, x>> \notin R
    BY <1>3
  <2> QED
    BY <1>2, <2>1
<1> QED
  BY <1>4

\* A number that has a property has a first one at or below it.
LEMMA FirstFailure ==
  ASSUME NEW n \in Nat, NEW T \in SUBSET (0 .. n), T # {}
  PROVE  \E x \in T : x = 0 \/ (x > 0 /\ x - 1 \in 0 .. n /\ x - 1 \notin T)
<1>1. T \in SUBSET Nat
  OBVIOUS
<1>2. PICK x \in T : \A y \in T : x <= y
  BY <1>1, Least
<1>3. x \in 0 .. n
  OBVIOUS
<1>4. CASE x = 0
  BY <1>4
<1>5. CASE x # 0
  <2>1. x > 0 /\ x - 1 \in 0 .. n /\ ~(x <= x - 1)
    BY <1>3, <1>5
  <2> QED
    BY <1>2, <2>1
<1> QED
  BY <1>4, <1>5

\* The largest and the least element of a set of numbers below a bound.
LEMMA MaxIn ==
  ASSUME NEW n \in Nat, NEW T \in SUBSET (0 .. n), T # {}
  PROVE  Max(T) \in T /\ \A y \in T : y <= Max(T)
<1> DEFINE U == {n - x : x \in T}
<1>1. U \in SUBSET Nat /\ U # {}
  OBVIOUS
<1> HIDE DEF U
<1>2. PICK u \in U : \A v \in U : u <= v
  BY <1>1, Least
<1>3. PICK x \in T : u = n - x
  BY DEF U
<1>4. ASSUME NEW y \in T
      PROVE  x >= y
  <2>1. n - y \in U
    BY DEF U
  <2>2. n - x <= n - y /\ x \in 0 .. n /\ y \in 0 .. n
    BY <1>2, <1>3, <2>1
  <2> QED
    BY <2>2
<1>5. \E z \in T : \A y \in T : z >= y
  BY <1>4
<1>6. Max(T) \in T /\ \A y \in T : Max(T) >= y
  BY <1>5, Zenon DEF Max
<1>7. \A y \in T : y <= Max(T)
  <2>1. SUFFICES ASSUME NEW y \in T PROVE y <= Max(T)
    OBVIOUS
  <2>2. y \in 0 .. n /\ Max(T) \in 0 .. n /\ Max(T) >= y
    BY <1>6
  <2> QED
    BY <2>2
<1> QED
  BY <1>6, <1>7

LEMMA MinIn ==
  ASSUME NEW n \in Nat, NEW T \in SUBSET (0 .. n), T # {}
  PROVE  Min(T) \in T
<1>1. T \in SUBSET Nat
  OBVIOUS
<1>2. \E z \in T : \A y \in T : z <= y
  BY <1>1, Least
<1> QED
  BY <1>2, Zenon DEF Min

\* A function defined by what comes next at each number is that function.
IsIterate(g, n, x0, F) == g = [i \in 0 .. n |-> IF i = 0 THEN x0 ELSE F[i][g[i - 1]]]

\* A function on 0..n given step by step exists: what the recursive operators
\* of the model need to have the value they seem to have.
LEMMA Iterates ==
  ASSUME NEW n \in Nat, NEW S, NEW x0 \in S, NEW F \in [0 .. n -> [S -> S]]
  PROVE  \E g \in [0 .. n -> S] : IsIterate(g, n, x0, F)
<1> DEFINE T == {m \in 0 .. n : ~\E g \in [0 .. m -> S] : IsIterate(g, m, x0, F)}
<1>1. SUFFICES ASSUME T # {} PROVE FALSE
  <2>1. n \in 0 .. n
    OBVIOUS
  <2> QED
    BY <1>1, <2>1
<1>2. PICK x \in T : x = 0 \/ (x > 0 /\ x - 1 \in 0 .. n /\ x - 1 \notin T)
  <2>1. T \in SUBSET (0 .. n)
    OBVIOUS
  <2> HIDE DEF T
  <2> QED
    BY <1>1, <2>1, FirstFailure
<1>3. x \in 0 .. n /\ ~\E g \in [0 .. x -> S] : IsIterate(g, x, x0, F)
  OBVIOUS
<1>4. CASE x = 0
  <2> DEFINE g == [i \in 0 .. 0 |-> x0]
  <2>1. g \in [0 .. 0 -> S] /\ g = [i \in 0 .. 0 |-> IF i = 0 THEN x0 ELSE F[i][g[i - 1]]]
    OBVIOUS
  <2> HIDE DEF g
  <2>2. g \in [0 .. x -> S] /\ IsIterate(g, x, x0, F)
    BY <1>4, <2>1 DEF IsIterate
  <2> QED
    BY <1>3, <2>2
<1>5. CASE x > 0 /\ x - 1 \in 0 .. n /\ x - 1 \notin T
  <2>1. PICK g \in [0 .. x - 1 -> S] : IsIterate(g, x - 1, x0, F)
    BY <1>5
  <2> DEFINE h == [i \in 0 .. x |-> IF i = x THEN F[x][g[x - 1]] ELSE g[i]]
  <2>0. x \in Nat /\ x \in 0 .. n /\ x - 1 \in 0 .. x - 1
    BY <1>3, <1>5
  <2>2. ASSUME NEW i \in 0 .. x
        PROVE  h[i] \in S /\ h[i] = IF i = 0 THEN x0 ELSE F[i][h[i - 1]]
    <3>0. i \in Nat /\ i <= x
      BY <2>0
    <3>1. CASE i = x
      <4>1. h[i] = F[x][g[x - 1]] /\ i # 0
        BY <1>5, <3>1
      <4>2. x - 1 \in 0 .. x /\ x - 1 # x
        BY <1>5, <2>0
      <4>3. h[x - 1] = g[x - 1] /\ g[x - 1] \in S
        BY <2>0, <4>2
      <4> QED
        BY <2>0, <3>1, <4>1, <4>3
    <3>2. CASE i = 0
      <4>1. 0 \in 0 .. x - 1 /\ i # x
        BY <1>5, <3>0, <3>2
      <4>2. g[0] = x0
        BY <2>1, <4>1 DEF IsIterate
      <4>3. h[i] = g[0]
        BY <3>2, <4>1
      <4> QED
        BY <3>2, <4>2, <4>3
    <3>3. CASE i # x /\ i # 0
      <4>1. i \in 0 .. x - 1 /\ i - 1 \in 0 .. x /\ i - 1 # x
        BY <2>0, <3>0, <3>3
      <4>2. g[i] = F[i][g[i - 1]] /\ g[i] \in S
        BY <2>1, <3>3, <4>1 DEF IsIterate
      <4>3. h[i] = g[i] /\ h[i - 1] = g[i - 1]
        BY <3>3, <4>1
      <4> QED
        BY <3>3, <4>2, <4>3
    <3> QED
      BY <3>1, <3>2, <3>3
  <2>3. h = [i \in 0 .. x |-> h[i]]
    OBVIOUS
  <2> HIDE DEF h
  <2>4. h \in [0 .. x -> S]
    BY <2>2, <2>3
  <2>5. IsIterate(h, x, x0, F)
    BY <2>2, <2>3 DEF IsIterate
  <2> QED
    BY <1>3, <2>4, <2>5
<1> QED
  BY <1>2, <1>4, <1>5

\* Whatever the iteration starts with and keeps holds all along.
LEMMA AllAlong ==
  ASSUME NEW n \in Nat, NEW P, 0 \in P,
         \A i \in 1 .. n : i - 1 \in P => i \in P
  PROVE  \A i \in 0 .. n : i \in P
<1> DEFINE T == {i \in 0 .. n : i \notin P}
<1>1. SUFFICES ASSUME T # {} PROVE FALSE
  OBVIOUS
<1>2. PICK x \in T : x = 0 \/ (x > 0 /\ x - 1 \in 0 .. n /\ x - 1 \notin T)
  BY <1>1, FirstFailure
<1>3. x # 0 /\ x \in 0 .. n /\ x \notin P
  OBVIOUS
<1>4. x \in 1 .. n /\ x - 1 \in P
  BY <1>2, <1>3
<1> QED
  BY <1>3, <1>4

-----------------------------------------------------------------------------
(***************************************************************************)
(* Sequences: what is found in one, what is kept of one.                   *)
(***************************************************************************)
\* No element comes twice.
Once(s) == \A i, j \in 1 .. Len(s) : s[i] = s[j] => i = j

\* The elements of a sequence are those at its places.
LEMMA ToSetIs ==
  ASSUME NEW S, NEW s \in Seq(S)
  PROVE  /\ ToSet(s) \subseteq S
         /\ \A x : x \in ToSet(s) <=> \E i \in 1 .. Len(s) : s[i] = x
         /\ \A x : Contains(s, x) <=> x \in ToSet(s)
<1>1. DOMAIN s = 1 .. Len(s) /\ \A i \in 1 .. Len(s) : s[i] \in S
  BY ElementOfSeq
<1> QED
  BY <1>1 DEF ToSet, Contains

LEMMA ToSetAppend ==
  ASSUME NEW S, NEW s \in Seq(S), NEW x \in S
  PROVE  /\ Append(s, x) \in Seq(S)
         /\ ToSet(Append(s, x)) = ToSet(s) \cup {x}
         /\ Once(s) /\ x \notin ToSet(s) => Once(Append(s, x))
<1> DEFINE t == Append(s, x)
<1>1. /\ t \in Seq(S) /\ Len(t) = Len(s) + 1 /\ Len(s) \in Nat
      /\ \A i \in 1 .. Len(s) : t[i] = s[i]
      /\ t[Len(s) + 1] = x
  BY AppendProperties, LenProperties
<1> HIDE DEF t
<1>2. ToSet(t) = ToSet(s) \cup {x}
  <2>1. ASSUME NEW y PROVE y \in ToSet(t) <=> y \in ToSet(s) \cup {x}
    <3>1. y \in ToSet(t) <=> \E i \in 1 .. Len(s) + 1 : t[i] = y
      BY <1>1, ToSetIs
    <3>2. y \in ToSet(s) <=> \E i \in 1 .. Len(s) : s[i] = y
      BY ToSetIs
    <3>3. \A i : i \in 1 .. Len(s) + 1 <=> i \in 1 .. Len(s) \/ i = Len(s) + 1
      BY <1>1
    <3> QED
      BY <1>1, <3>1, <3>2, <3>3
  <2> QED
    BY <2>1
<1>3. ASSUME Once(s), x \notin ToSet(s) PROVE Once(t)
  <2>1. \A i \in 1 .. Len(s) : s[i] # x
    BY <1>3, ToSetIs
  <2>2. ASSUME NEW i \in 1 .. Len(t), NEW j \in 1 .. Len(t), t[i] = t[j]
        PROVE  i = j
    <3>1. (i \in 1 .. Len(s) \/ i = Len(s) + 1) /\ (j \in 1 .. Len(s) \/ j = Len(s) + 1)
      BY <1>1
    <3> QED
      BY <1>1, <1>3, <2>1, <2>2, <3>1 DEF Once
  <2> QED
    BY <2>2 DEF Once
<1> QED
  BY <1>1, <1>2, <1>3 DEF t

LEMMA ToSetConcat ==
  ASSUME NEW S, NEW s \in Seq(S), NEW t \in Seq(S)
  PROVE  s \o t \in Seq(S) /\ ToSet(s \o t) = ToSet(s) \cup ToSet(t)
<1> DEFINE u == s \o t
<1>1. /\ u \in Seq(S) /\ Len(u) = Len(s) + Len(t) /\ Len(s) \in Nat /\ Len(t) \in Nat
      /\ \A i \in 1 .. Len(s) + Len(t) : u[i] = IF i <= Len(s) THEN s[i] ELSE t[i - Len(s)]
  BY ConcatProperties, LenProperties
<1> HIDE DEF u
<1>2. ASSUME NEW y PROVE y \in ToSet(u) <=> y \in ToSet(s) \cup ToSet(t)
  <2>1. y \in ToSet(u) <=> \E i \in 1 .. Len(s) + Len(t) : u[i] = y
    BY <1>1, ToSetIs
  <2>2. y \in ToSet(s) <=> \E i \in 1 .. Len(s) : s[i] = y
    BY ToSetIs
  <2>3. y \in ToSet(t) <=> \E i \in 1 .. Len(t) : t[i] = y
    BY ToSetIs
  <2>4. ASSUME NEW i \in 1 .. Len(s) PROVE i \in 1 .. Len(s) + Len(t) /\ u[i] = s[i]
    BY <1>1
  <2>5. ASSUME NEW i \in 1 .. Len(t)
        PROVE  Len(s) + i \in 1 .. Len(s) + Len(t) /\ u[Len(s) + i] = t[i]
    <3>1. Len(s) + i \in 1 .. Len(s) + Len(t) /\ ~(Len(s) + i <= Len(s)) /\ Len(s) + i - Len(s) = i
      BY <1>1
    <3> QED
      BY <1>1, <3>1
  <2>6. ASSUME NEW i \in 1 .. Len(s) + Len(t)
        PROVE  \/ i \in 1 .. Len(s) /\ u[i] = s[i]
               \/ i - Len(s) \in 1 .. Len(t) /\ u[i] = t[i - Len(s)]
    BY <1>1
  <2>7. ASSUME y \in ToSet(u) PROVE y \in ToSet(s) \cup ToSet(t)
    <3>1. PICK i \in 1 .. Len(s) + Len(t) : u[i] = y
      BY <2>1, <2>7
    <3> QED
      BY <2>2, <2>3, <2>6, <3>1
  <2>8. y \in ToSet(s) => y \in ToSet(u)
    BY <2>1, <2>2, <2>4
  <2>9. y \in ToSet(t) => y \in ToSet(u)
    BY <2>1, <2>3, <2>5
  <2> QED
    BY <2>7, <2>8, <2>9
<1> QED
  BY <1>1, <1>2 DEF u

\* What is sifted out of a sequence is what the set has of it, none twice if
\* none was.
LEMMA SiftKeeps ==
  ASSUME NEW S, NEW s \in Seq(S), NEW T
  PROVE  /\ Sift(s, T) \in Seq(S)
         /\ ToSet(Sift(s, T)) = ToSet(s) \cap T
         /\ Once(s) => Once(Sift(s, T))
<1> DEFINE n == Len(s)
           F == [i \in 0 .. n |-> [r \in Seq(S) |-> IF s[i] \in T /\ i \in 1 .. n THEN Append(r, s[i]) ELSE r]]
           IsIt(g) == g = [i \in 0 .. n |->
                             IF i = 0 THEN <<>>
                             ELSE IF s[i] \in T THEN Append(g[i - 1], s[i]) ELSE g[i - 1]]
           kept == CHOOSE g : IsIt(g)
<1>1. n \in Nat /\ \A i \in 1 .. n : s[i] \in S
  BY ElementOfSeq, LenProperties
<1>2. \E g : g \in [0 .. n -> Seq(S)] /\ IsIt(g)
  <2>1. F \in [0 .. n -> [Seq(S) -> Seq(S)]]
    BY <1>1, AppendProperties
  <2>2. <<>> \in Seq(S)
    BY EmptySeq
  <2> HIDE DEF F
  <2>3. PICK g \in [0 .. n -> Seq(S)] : IsIterate(g, n, <<>>, F)
    BY <1>1, <2>1, <2>2, Iterates
  <2>4. \A i \in 0 .. n : g[i] = IF i = 0 THEN <<>> ELSE F[i][g[i - 1]]
    BY <2>3 DEF IsIterate
  <2>5. ASSUME NEW i \in 0 .. n, i # 0
        PROVE  F[i][g[i - 1]] = IF s[i] \in T THEN Append(g[i - 1], s[i]) ELSE g[i - 1]
    <3>1. i \in 1 .. n /\ g[i - 1] \in Seq(S)
      BY <1>1, <2>5
    <3> QED
      BY <3>1 DEF F
  <2>6. g = [i \in 0 .. n |-> IF i = 0 THEN <<>>
                             ELSE IF s[i] \in T THEN Append(g[i - 1], s[i]) ELSE g[i - 1]]
    BY <2>4, <2>5
  <2> QED
    BY <2>6
<1>3. IsIt(kept)
  BY <1>2
<1>4. Sift(s, T) = kept[n]
  BY Zenon DEF Sift
<1> HIDE DEF kept
<1>5. /\ kept[0] = <<>>
      /\ \A i \in 1 .. n : kept[i] = IF s[i] \in T THEN Append(kept[i - 1], s[i]) ELSE kept[i - 1]
  <2>1. \A i \in 0 .. n : kept[i] = IF i = 0 THEN <<>>
                             ELSE IF s[i] \in T THEN Append(kept[i - 1], s[i]) ELSE kept[i - 1]
    BY <1>3
  <2> HIDE DEF IsIt
  <2> QED
    BY <1>1, <2>1
<1> HIDE DEF IsIt, F
<1> DEFINE Upto(i) == {s[j] : j \in 1 .. i}
           P == {i \in 0 .. n : /\ kept[i] \in Seq(S)
                                /\ ToSet(kept[i]) = Upto(i) \cap T
                                /\ Once(s) => Once(kept[i])}
<1>6. 0 \in P
  <2>1. <<>> \in Seq(S) /\ ToSet(<<>>) = {} /\ Once(<<>>)
    BY EmptySeq DEF ToSet, Once
  <2>2. Upto(0) = {}
    OBVIOUS
  <2> HIDE DEF Upto
  <2>3. 0 \in 0 .. n /\ kept[0] \in Seq(S) /\ ToSet(kept[0]) = Upto(0) \cap T /\ Once(kept[0])
    BY <1>1, <1>5, <2>1, <2>2
  <2> QED
    BY <2>3
<1>7. ASSUME NEW i \in 1 .. n, i - 1 \in P PROVE i \in P
  <2>1. i \in 0 .. n /\ s[i] \in S /\ Upto(i) = Upto(i - 1) \cup {s[i]}
    <3>1. \A j : j \in 1 .. i <=> j \in 1 .. i - 1 \/ j = i
      BY <1>1
    <3> QED
      BY <1>1, <3>1
  <2>2. Once(s) => s[i] \notin Upto(i - 1)
    <3>1. \A j \in 1 .. i - 1 : j \in 1 .. n /\ j # i
      BY <1>1
    <3> QED
      BY <3>1 DEF Once
  <2>3. kept[i - 1] \in Seq(S) /\ ToSet(kept[i - 1]) = Upto(i - 1) \cap T /\ (Once(s) => Once(kept[i - 1]))
    BY <1>7
  <2> HIDE DEF Upto
  <2>4. CASE s[i] \in T
    <3>1. kept[i] = Append(kept[i - 1], s[i])
      BY <1>5, <2>4
    <3>2. /\ kept[i] \in Seq(S)
          /\ ToSet(kept[i]) = ToSet(kept[i - 1]) \cup {s[i]}
          /\ Once(kept[i - 1]) /\ s[i] \notin ToSet(kept[i - 1]) => Once(kept[i])
      BY <2>1, <2>3, <3>1, ToSetAppend
    <3>3. ToSet(kept[i]) = Upto(i) \cap T
      BY <2>1, <2>3, <2>4, <3>2
    <3>4. Once(s) => Once(kept[i])
      BY <2>2, <2>3, <3>2
    <3> QED
      BY <2>1, <3>2, <3>3, <3>4
  <2>5. CASE s[i] \notin T
    <3>1. kept[i] = kept[i - 1]
      BY <1>5, <2>5
    <3> QED
      BY <2>1, <2>3, <2>5, <3>1
  <2> QED
    BY <2>4, <2>5
<1>8. n \in P
  <2>1. \A i \in 0 .. n : i \in P
    <3> HIDE DEF P
    <3> QED
      BY <1>1, <1>6, <1>7, AllAlong
  <2> HIDE DEF P
  <2> QED
    BY <1>1, <2>1
<1>9. Upto(n) = ToSet(s)
  BY ToSetIs
<1> QED
  BY <1>4, <1>8, <1>9

-----------------------------------------------------------------------------
(***************************************************************************)
(* Loading: all that is needed is there, nothing comes twice.              *)
(***************************************************************************)
DiskOK == \A m \in Names : disk[m] \in Texts[m]

\* A text on disk imports modules, the prelude none.
LEMMA DiskFacts ==
  ASSUME DiskOK, NEW m \in Names
  PROVE  /\ Imports(m) \in Seq(Names) /\ ToSet(Imports(m)) \subseteq Names
         /\ disk[m] \in Texts[m] /\ Deps(m) \subseteq Names
         /\ m \in Prelude => Imports(m) = <<>>
<1>1. /\ disk[m] \in Texts[m] /\ Prelude \subseteq Names
      /\ \A t \in Texts[m] : t.imports \in Seq(Names)
      /\ m \in Prelude => \A t \in Texts[m] : t.imports = <<>>
  BY ResidentAssumption DEF DiskOK
<1>2. Imports(m) \in Seq(Names) /\ (m \in Prelude => Imports(m) = <<>>)
  BY <1>1 DEF Imports
<1>3. ToSet(Imports(m)) \subseteq Names
  BY <1>2, ToSetIs
<1> QED
  BY <1>1, <1>2, <1>3 DEF Deps, Needs, Imports

\* All of a module's imports are in the queue, loaded, or the module.
LEMMA PushedAll ==
  ASSUME DiskOK, NEW name \in Names, NEW rest \in Seq(Names), NEW sources \in Seq(Names)
  PROVE  /\ Pushed(name, rest, sources) \in Seq(Names)
         /\ ToSet(rest) \subseteq ToSet(Pushed(name, rest, sources))
         /\ ToSet(Imports(name)) \subseteq
              ToSet(Pushed(name, rest, sources)) \cup ToSet(sources) \cup {name}
<1> DEFINE s == Imports(name)
           n == Len(s)
           Out(d, q) == d = name \/ Contains(sources, d) \/ Contains(q, d)
           F == [i \in 0 .. n |-> [q \in Seq(Names) |->
                   IF Out(s[i], q) \/ i \notin 1 .. n THEN q ELSE Append(q, s[i])]]
           IsIt(g) == g = [i \in 0 .. n |->
                             IF i = 0 THEN rest
                             ELSE IF Out(s[i], g[i - 1]) THEN g[i - 1] ELSE Append(g[i - 1], s[i])]
           pushed == CHOOSE g : IsIt(g)
<1>1. n \in Nat /\ (\A i \in 1 .. n : s[i] \in Names) /\ s \in Seq(Names)
  BY DiskFacts, ElementOfSeq, LenProperties
<1>2. \E g : IsIt(g)
  <2>1. F \in [0 .. n -> [Seq(Names) -> Seq(Names)]]
    <3> HIDE DEF Out, s, n
    <3> QED
      BY <1>1, AppendProperties
  <2> HIDE DEF F
  <2>3. PICK g \in [0 .. n -> Seq(Names)] : IsIterate(g, n, rest, F)
    BY <1>1, <2>1, Iterates
  <2>4. \A i \in 0 .. n : g[i] = IF i = 0 THEN rest ELSE F[i][g[i - 1]]
    BY <2>3 DEF IsIterate
  <2>5. ASSUME NEW i \in 0 .. n, i # 0
        PROVE  F[i][g[i - 1]] = IF Out(s[i], g[i - 1]) THEN g[i - 1] ELSE Append(g[i - 1], s[i])
    <3> HIDE DEF Out, s, n
    <3>1. i \in 1 .. n /\ g[i - 1] \in Seq(Names)
      BY <1>1, <2>5
    <3> QED
      BY <3>1 DEF F
  <2>6. g = [i \in 0 .. n |->
               IF i = 0 THEN rest
               ELSE IF Out(s[i], g[i - 1]) THEN g[i - 1] ELSE Append(g[i - 1], s[i])]
    <3> HIDE DEF Out, s, n
    <3> QED
      BY <2>4, <2>5
  <2> QED
    BY <2>6
<1>3. IsIt(pushed)
  <2> HIDE DEF IsIt
  <2> QED
    BY <1>2
<1>4. Pushed(name, rest, sources) = pushed[n]
  BY Zenon DEF Pushed
<1> HIDE DEF pushed, s, Out
<1>5. /\ pushed[0] = rest
      /\ \A i \in 1 .. n : pushed[i] = IF Out(s[i], pushed[i - 1]) THEN pushed[i - 1]
                                       ELSE Append(pushed[i - 1], s[i])
  <2>1. \A i \in 0 .. n : pushed[i] = IF i = 0 THEN rest
                             ELSE IF Out(s[i], pushed[i - 1]) THEN pushed[i - 1]
                                  ELSE Append(pushed[i - 1], s[i])
    BY <1>3
  <2> HIDE DEF IsIt, n
  <2> QED
    BY <1>1, <2>1
<1> HIDE DEF IsIt, F, n
<1> DEFINE In(x, q) == x \in ToSet(q) \/ x \in ToSet(sources) \/ x = name
           P == {i \in 0 .. n : /\ pushed[i] \in Seq(Names)
                                /\ ToSet(rest) \subseteq ToSet(pushed[i])
                                /\ \A j \in 1 .. i : In(s[j], pushed[i])}
<1>6. 0 \in P
  <2>1. 0 \in 0 .. n /\ \A j : j \notin 1 .. 0
    BY <1>1
  <2> QED
    BY <1>5, <2>1
<1>7. ASSUME NEW i \in 1 .. n, i - 1 \in P PROVE i \in P
  <2>1. i \in 0 .. n /\ s[i] \in Names /\ \A j \in 1 .. i : j \in 1 .. i - 1 \/ j = i
    BY <1>1
  <2>2. /\ pushed[i - 1] \in Seq(Names) /\ ToSet(rest) \subseteq ToSet(pushed[i - 1])
        /\ \A j \in 1 .. i - 1 : In(s[j], pushed[i - 1])
    BY <1>7
  <2>3. CASE Out(s[i], pushed[i - 1])
    <3>1. pushed[i] = pushed[i - 1]
      BY <1>5, <2>3
    <3>2. In(s[i], pushed[i - 1])
      BY <2>2, <2>3, ToSetIs DEF Out
    <3> QED
      BY <2>1, <2>2, <3>1, <3>2
  <2>4. CASE ~Out(s[i], pushed[i - 1])
    <3>1. pushed[i] = Append(pushed[i - 1], s[i])
      BY <1>5, <2>4
    <3>2. pushed[i] \in Seq(Names) /\ ToSet(pushed[i]) = ToSet(pushed[i - 1]) \cup {s[i]}
      BY <2>1, <2>2, <3>1, ToSetAppend
    <3> QED
      BY <2>1, <2>2, <3>2
  <2> QED
    BY <2>3, <2>4
<1>8. n \in P
  <2> HIDE DEF P
  <2>1. \A i \in 0 .. n : i \in P
    BY <1>1, <1>6, <1>7, AllAlong
  <2> QED
    BY <1>1, <2>1
<1>9. \A x \in ToSet(s) : \E j \in 1 .. n : s[j] = x
  BY <1>1, ToSetIs DEF n
<1> QED
  BY <1>4, <1>8, <1>9 DEF s

\* Where a loading stands: what is in the queue or loaded has the root, CORE
\* and all that a loaded module imports.
LoadStates == [queue : Seq(Names), sources : Seq(Names)]
Known(at) == ToSet(at.queue) \cup ToSet(at.sources)
LoadOK(at, root) ==
  /\ at \in LoadStates /\ Once(at.sources)
  /\ root \in Known(at) /\ "CORE" \in Known(at)
  /\ \A m \in ToSet(at.sources) : ToSet(Imports(m)) \subseteq Known(at)
AllLoaded(at) == ToSet(at.queue) \subseteq ToSet(at.sources)

\* One more load keeps the loading in order, and loads a module unless all of
\* the queue is.
LEMMA LoadNextOK ==
  ASSUME DiskOK, NEW root, NEW at, LoadOK(at, root)
  PROVE  /\ LoadOK(LoadNext(at), root)
         /\ AllLoaded(at) => LoadNext(at) = at
         /\ ~AllLoaded(at) => Len(LoadNext(at).sources) = Len(at.sources) + 1
<1> DEFINE q == at.queue
           loaded == at.sources
           I == {i \in 1 .. Len(q) : ~Contains(loaded, q[i])}
           i == IF I # {} THEN Max(I) ELSE 0
           rest == SubSeq(q, 1, i - 1)
           pushed == Pushed(q[i], rest, loaded)
           next == LoadNext(at)
<1>1. q \in Seq(Names) /\ loaded \in Seq(Names) /\ Len(q) \in Nat /\ Len(loaded) \in Nat
  BY LenProperties DEF LoadOK, LoadStates
<1>2. next = IF i = 0 THEN at ELSE [queue |-> pushed, sources |-> Append(loaded, q[i])]
  BY DEF LoadNext, SelectLastInSeq
<1>3. \A x : Contains(loaded, x) <=> x \in ToSet(loaded)
  BY <1>1, ToSetIs
<1>4. \A x : x \in ToSet(q) <=> \E j \in 1 .. Len(q) : q[j] = x
  BY <1>1, ToSetIs
<1>5. AllLoaded(at) <=> I = {}
  BY <1>3, <1>4 DEF AllLoaded
<1>6. CASE I = {}
  <2>1. next = at
    BY <1>2, <1>6
  <2> QED
    BY <1>5, <1>6, <2>1
<1>7. CASE I # {}
  <2>1. I \in SUBSET (0 .. Len(q)) /\ \A j \in I : j # 0
    BY <1>1
  <2>2. i \in I /\ (\A j \in I : j <= i) /\ i # 0
    <3>1. Max(I) \in I /\ \A j \in I : j <= Max(I)
      <4> HIDE DEF I
      <4> QED
        BY <1>1, <1>7, <2>1, MaxIn
    <3> HIDE DEF I
    <3> QED
      BY <1>7, <2>1, <3>1
  <2> HIDE DEF i
  <2>3. i \in 1 .. Len(q) /\ q[i] \notin ToSet(loaded) /\ q[i] \in Names
    <3>1. i \in 1 .. Len(q) /\ ~Contains(loaded, q[i])
      BY <2>2
    <3> QED
      BY <1>1, <1>3, <3>1, ElementOfSeq
  <2>4. \A j \in 1 .. Len(q) : j > i => q[j] \in ToSet(loaded)
    <3>1. SUFFICES ASSUME NEW j \in 1 .. Len(q), j > i, ~Contains(loaded, q[j]) PROVE FALSE
      BY <1>3
    <3>2. j \in I
      BY <3>1
    <3>3. j <= i /\ i \in Nat /\ j \in Nat
      BY <2>2, <2>3, <3>2
    <3> QED
      BY <3>1, <3>3
  <2> HIDE DEF I
  <2>5. rest \in Seq(Names) /\ ToSet(q) \subseteq ToSet(rest) \cup {q[i]} \cup ToSet(loaded)
    <3>1. /\ rest \in Seq(Names) /\ Len(rest) = i - 1
          /\ \A j \in 1 .. i - 1 : rest[j] = q[j]
      <4>1. 1 \in 1 .. Len(q) + 1 /\ i - 1 \in 0 .. Len(q) /\ i \in Nat
        BY <1>1, <2>3
      <4>2. \A j \in 1 .. i - 1 : j \in 1 .. Len(q)
        BY <1>1, <4>1
      <4> QED
        BY <1>1, <4>1, <4>2, SubSeqProperties, Z3
    <3>2. ASSUME NEW j \in 1 .. Len(q)
          PROVE  q[j] \in ToSet(rest) \cup {q[i]} \cup ToSet(loaded)
      <4>1. CASE j < i
        <5>1. j \in 1 .. Len(rest) /\ rest[j] = q[j]
          BY <2>3, <3>1, <4>1
        <5>2. rest[j] \in ToSet(rest)
          BY <3>1, <5>1, ToSetIs
        <5> QED
          BY <5>1, <5>2
      <4>2. CASE j > i
        BY <2>4, <4>2
      <4>3. j < i \/ j = i \/ j > i
        BY <1>1, <2>3
      <4> QED
        BY <4>1, <4>2, <4>3
    <3> QED
      BY <1>4, <3>1, <3>2
  <2> HIDE DEF rest
  <2>6. /\ pushed \in Seq(Names) /\ ToSet(rest) \subseteq ToSet(pushed)
        /\ ToSet(Imports(q[i])) \subseteq ToSet(pushed) \cup ToSet(loaded) \cup {q[i]}
    BY <1>1, <2>3, <2>5, PushedAll
  <2> HIDE DEF pushed
  <2>7. /\ Append(loaded, q[i]) \in Seq(Names) /\ Once(Append(loaded, q[i]))
        /\ ToSet(Append(loaded, q[i])) = ToSet(loaded) \cup {q[i]}
        /\ Len(Append(loaded, q[i])) = Len(loaded) + 1
    <3>1. Once(loaded)
      BY DEF LoadOK
    <3> QED
      BY <1>1, <2>3, <3>1, ToSetAppend, AppendProperties
  <2>8. next.queue = pushed /\ next.sources = Append(loaded, q[i]) /\ next \in LoadStates
    BY <1>2, <2>2, <2>6, <2>7 DEF LoadStates
  <2> HIDE DEF next
  <2>9. Known(at) \subseteq Known(next)
    BY <2>5, <2>6, <2>7, <2>8 DEF Known
  <2>10. ASSUME NEW m \in ToSet(next.sources) PROVE ToSet(Imports(m)) \subseteq Known(next)
    <3>1. CASE m \in ToSet(loaded)
      BY <2>9, <3>1 DEF LoadOK
    <3>2. CASE m = q[i]
      BY <2>6, <2>7, <2>8, <3>2 DEF Known
    <3> QED
      BY <2>7, <2>8, <3>1, <3>2
  <2>11. LoadOK(next, root)
    BY <2>7, <2>8, <2>9, <2>10 DEF LoadOK
  <2> QED
    BY <1>5, <1>7, <2>7, <2>8, <2>11 DEF next
<1> QED
  BY <1>6, <1>7

\* A sequence over the modules in which none comes twice is no longer than
\* there are modules, and has them all if it is as long.
LEMMA OnceIsShort ==
  ASSUME NEW s \in Seq(Names), Once(s)
  PROVE  Len(s) <= Cardinality(Names) /\ (Len(s) = Cardinality(Names) => ToSet(s) = Names)
<1>1. IsFiniteSet(Names) /\ Len(s) \in Nat /\ Cardinality(Names) \in Nat
  BY ResidentAssumption, FS_CardinalityType, LenProperties
<1>2. ToSet(s) \subseteq Names /\ \A x : x \in ToSet(s) <=> \E i \in 1 .. Len(s) : s[i] = x
  BY ToSetIs
<1>3. IsFiniteSet(ToSet(s)) /\ Cardinality(ToSet(s)) <= Cardinality(Names)
      /\ (Cardinality(ToSet(s)) = Cardinality(Names) => ToSet(s) = Names)
  BY <1>1, <1>2, FS_Subset
<1>4. Cardinality(ToSet(s)) = Len(s)
  <2> DEFINE f == [i \in 1 .. Len(s) |-> s[i]]
  <2>1. f \in [1 .. Len(s) -> ToSet(s)]
    BY <1>2
  <2>2. \A i, j \in 1 .. Len(s) : f[i] = f[j] => i = j
    BY DEF Once
  <2>3. \A x \in ToSet(s) : \E i \in 1 .. Len(s) : f[i] = x
    BY <1>2
  <2>4. f \in Bijection(1 .. Len(s), ToSet(s))
    <3> HIDE DEF f
    <3> QED
      BY <2>1, <2>2, <2>3, Fun_IsBij
  <2>5. IsFiniteSet(1 .. Len(s)) /\ Cardinality(1 .. Len(s)) = Len(s)
    <3>1. 1 \in Int /\ Len(s) \in Int
      BY <1>1
    <3>2. /\ IsFiniteSet(1 .. Len(s))
          /\ Cardinality(1 .. Len(s)) = IF 1 > Len(s) THEN 0 ELSE Len(s) - 1 + 1
      BY <3>1, FS_Interval
    <3> QED
      BY <1>1, <3>2
  <2>6. Cardinality(1 .. Len(s)) = Cardinality(ToSet(s))
    BY <1>3, <2>4, <2>5, FS_Bijection DEF ExistsBijection
  <2> QED
    BY <2>5, <2>6
<1> QED
  BY <1>3, <1>4

\* A load has its root, the prelude, and all that any of its modules needs,
\* each once (load_core).
LEMMA LoadFacts ==
  ASSUME DiskOK, NEW root \in Names
  PROVE  /\ Load(root) \in Seq(Names) /\ Once(Load(root))
         /\ root \in ToSet(Load(root)) /\ Prelude \subseteq ToSet(Load(root))
         /\ \A m \in ToSet(Load(root)) : m \in Names /\ Deps(m) \subseteq ToSet(Load(root))
<1> DEFINE n == Cardinality(Names)
           start == [queue |-> <<root, "CORE">>, sources |-> <<>>]
           S == {at \in LoadStates : LoadOK(at, root)}
           F == [i \in 0 .. n |-> [at \in S |-> LoadNext(at)]]
           IsIt(g) == g = [i \in 0 .. n |-> IF i = 0 THEN start ELSE LoadNext(g[i - 1])]
           load == CHOOSE g : IsIt(g)
           found == load[n].sources
<1>1. n \in Nat /\ "CORE" \in Names /\ "C" \in Names
  BY ResidentAssumption, FS_CardinalityType DEF Prelude
<1>2. start \in S
  <2>1. <<root, "CORE">> \in Seq(Names) /\ <<>> \in Seq(Names)
    BY <1>1
  <2>2. start \in LoadStates
    BY <2>1 DEF LoadStates
  <2>3. ToSet(<<>>) = {} /\ Once(<<>>)
    BY DEF ToSet, Once
  <2>4. root \in ToSet(<<root, "CORE">>) /\ "CORE" \in ToSet(<<root, "CORE">>)
    <3> DEFINE q == <<root, "CORE">>
    <3>1. 1 \in 1 .. Len(q) /\ 2 \in 1 .. Len(q) /\ q[1] = root /\ q[2] = "CORE"
      OBVIOUS
    <3> HIDE DEF q
    <3>2. q[1] \in ToSet(q) /\ q[2] \in ToSet(q)
      BY <2>1, <3>1, ToSetIs DEF q
    <3> QED
      BY <3>1, <3>2 DEF q
  <2>5. LoadOK(start, root)
    BY <2>2, <2>3, <2>4 DEF LoadOK, Known
  <2> QED
    BY <2>2, <2>5
<1> HIDE DEF start
<1>3. \A at \in S : LoadNext(at) \in S
  BY LoadNextOK DEF LoadOK
<1>4. \E g : IsIt(g)
  <2>1. F \in [0 .. n -> [S -> S]]
    <3> HIDE DEF S, n
    <3> QED
      BY <1>3
  <2> HIDE DEF F, S, n
  <2>2. PICK g \in [0 .. n -> S] : IsIterate(g, n, start, F)
    BY <1>1, <1>2, <2>1, Iterates
  <2>3. \A i \in 0 .. n : g[i] = IF i = 0 THEN start ELSE F[i][g[i - 1]]
    BY <2>2 DEF IsIterate
  <2>4. ASSUME NEW i \in 0 .. n, i # 0
        PROVE  F[i][g[i - 1]] = LoadNext(g[i - 1])
    <3>1. i - 1 \in 0 .. n /\ g[i - 1] \in S
      BY <1>1, <2>4
    <3> QED
      BY <3>1 DEF F
  <2>5. g = [i \in 0 .. n |-> IF i = 0 THEN start ELSE LoadNext(g[i - 1])]
    BY <2>3, <2>4
  <2> QED
    BY <2>5
<1>5. IsIt(load)
  <2> HIDE DEF IsIt
  <2> QED
    BY <1>4
<1>6. Load(root) = IF Contains(found, "C") THEN found ELSE Append(found, "C")
  BY Zenon DEF Load, start
<1> HIDE DEF load, n
<1>7. load[0] = start /\ \A i \in 1 .. n : load[i] = LoadNext(load[i - 1])
  <2>1. \A i \in 0 .. n : load[i] = IF i = 0 THEN start ELSE LoadNext(load[i - 1])
    BY <1>5
  <2> HIDE DEF IsIt
  <2> QED
    BY <1>1, <2>1
<1> HIDE DEF IsIt
<1> DEFINE P == {i \in 0 .. n : /\ load[i] \in S
                                /\ AllLoaded(load[i]) \/ Len(load[i].sources) >= i}
<1>8. 0 \in P
  <2>1. 0 \in 0 .. n /\ Len(start.sources) = 0
    BY <1>1 DEF start
  <2> HIDE DEF S
  <2> QED
    BY <1>2, <1>7, <2>1
<1>9. ASSUME NEW i \in 1 .. n, i - 1 \in P PROVE i \in P
  <2>1. /\ load[i - 1] \in S /\ i \in 0 .. n /\ load[i] = LoadNext(load[i - 1])
        /\ AllLoaded(load[i - 1]) \/ Len(load[i - 1].sources) >= i - 1
    BY <1>1, <1>7, <1>9
  <2>2. load[i] \in S
    BY <1>3, <2>1
  <2>3. Len(load[i - 1].sources) \in Nat /\ LoadOK(load[i - 1], root)
    BY <2>1, LenProperties DEF LoadStates
  <2>4. /\ AllLoaded(load[i - 1]) => load[i] = load[i - 1]
        /\ ~AllLoaded(load[i - 1]) => Len(load[i].sources) = Len(load[i - 1].sources) + 1
    BY <2>1, <2>3, LoadNextOK
  <2> HIDE DEF S
  <2>5. AllLoaded(load[i]) \/ Len(load[i].sources) >= i
    BY <1>1, <2>1, <2>3, <2>4
  <2> QED
    BY <2>1, <2>2, <2>5
<1>10. n \in P
  <2> HIDE DEF P
  <2>1. \A i \in 0 .. n : i \in P
    BY <1>1, <1>8, <1>9, AllAlong
  <2> QED
    BY <1>1, <2>1
<1>11. LoadOK(load[n], root) /\ (AllLoaded(load[n]) \/ Len(found) >= n)
  BY <1>10
<1>12. found \in Seq(Names) /\ Once(found) /\ load[n].queue \in Seq(Names)
  BY <1>11 DEF LoadOK, LoadStates
<1> HIDE DEF S, P, found
<1>13. Known(load[n]) = ToSet(found)
  <2>1. CASE AllLoaded(load[n])
    BY <2>1 DEF AllLoaded, Known, found
  <2>2. CASE Len(found) >= n
    <3>1. Len(found) <= n /\ (Len(found) = n => ToSet(found) = Names) /\ Len(found) \in Nat
      BY <1>12, OnceIsShort, LenProperties DEF n
    <3>2. ToSet(found) = Names
      BY <1>1, <2>2, <3>1
    <3>3. ToSet(load[n].queue) \subseteq Names
      BY <1>12, ToSetIs
    <3> QED
      BY <3>2, <3>3 DEF Known, found
  <2> QED
    BY <1>11, <2>1, <2>2
<1>14. /\ root \in ToSet(found) /\ "CORE" \in ToSet(found)
       /\ \A m \in ToSet(found) : ToSet(Imports(m)) \subseteq ToSet(found)
  BY <1>11, <1>13 DEF LoadOK, found
<1> DEFINE L == Load(root)
<1>15. L \in Seq(Names) /\ Once(L) /\ ToSet(L) = ToSet(found) \cup {"C"}
  <2>1. Contains(found, "C") <=> "C" \in ToSet(found)
    BY <1>12, ToSetIs
  <2>2. CASE "C" \in ToSet(found)
    BY <1>6, <1>12, <2>1, <2>2
  <2>3. CASE "C" \notin ToSet(found)
    <3>1. L = Append(found, "C")
      BY <1>6, <2>1, <2>3
    <3> QED
      BY <1>1, <1>12, <2>3, <3>1, ToSetAppend
  <2> QED
    BY <2>2, <2>3
<1> HIDE DEF L
<1>16. Prelude \subseteq ToSet(L) /\ ToSet(L) \subseteq Names
  BY <1>14, <1>15, ToSetIs DEF Prelude
<1>17. ASSUME NEW m \in ToSet(L) PROVE m \in Names /\ Deps(m) \subseteq ToSet(L)
  <2>1. m \in Names
    BY <1>16
  <2>2. ToSet(Imports(m)) \subseteq ToSet(L)
    <3>1. CASE m \in ToSet(found)
      BY <1>14, <1>15, <3>1
    <3>2. CASE m = "C"
      <4>1. Imports(m) = <<>>
        BY <2>1, <3>2, DiskFacts DEF Prelude
      <4> QED
        BY <4>1 DEF ToSet
    <3> QED
      BY <1>15, <3>1, <3>2
  <2> QED
    BY <1>16, <2>1, <2>2 DEF Deps, Needs, Imports
<1> QED
  BY <1>14, <1>15, <1>16, <1>17 DEF L

-----------------------------------------------------------------------------
(***************************************************************************)
(* The order modules are checked in.  All the proofs need of it is that it *)
(* is a sequence.                                                          *)
(***************************************************************************)
LEMMA FirstLeft ==
  ASSUME NEW S, NEW s \in Seq(S), NEW done
  PROVE  LET i == SelectInSeq(s, LAMBDA w : ~Contains(done, w))
         IN i = 0 \/ (i \in 1 .. Len(s) /\ s[i] \in S)
<1> DEFINE I == {i \in 1 .. Len(s) : ~Contains(done, s[i])}
<1>1. SelectInSeq(s, LAMBDA w : ~Contains(done, w)) = IF I # {} THEN Min(I) ELSE 0
  BY DEF SelectInSeq
<1>2. I \in SUBSET (0 .. Len(s)) /\ Len(s) \in Nat
  BY LenProperties
<1>3. I # {} => Min(I) \in I
  <2> HIDE DEF I
  <2> QED
    BY <1>2, MinIn
<1>4. \A i \in I : i \in 1 .. Len(s) /\ s[i] \in S
  BY ElementOfSeq
<1> QED
  BY <1>1, <1>3, <1>4

\* Going down the imports stays among the modules.
LEMMA DeepestIsModule ==
  ASSUME DiskOK, NEW m \in Names, NEW done
  PROVE  Deepest(done, m) \in Names
<1> DEFINE n == Cardinality(Names)
           at(v) == SelectInSeq(Imports(v), LAMBDA w : ~Contains(done, w))
           Below(v) == IF at(v) = 0 THEN v ELSE Imports(v)[at(v)]
           F == [i \in 0 .. n |-> [v \in Names |-> Below(v)]]
           IsIt(g) == g = [i \in 0 .. n |-> IF i = 0 THEN m ELSE Below(g[i - 1])]
           down == CHOOSE g : IsIt(g)
<1>1. n \in Nat
  BY ResidentAssumption, FS_CardinalityType
<1>2. ASSUME NEW v \in Names PROVE Below(v) \in Names
  <2>1. Imports(v) \in Seq(Names)
    BY DiskFacts
  <2>2. at(v) = 0 \/ Imports(v)[at(v)] \in Names
    BY <2>1, FirstLeft DEF SelectInSeq
  <2> HIDE DEF at
  <2> QED
    BY <2>2
<1>3. \E g : IsIt(g)
  <2>1. F \in [0 .. n -> [Names -> Names]]
    <3> HIDE DEF Below, n
    <3> QED
      BY <1>2
  <2> HIDE DEF F, n, Below
  <2>2. PICK g \in [0 .. n -> Names] : IsIterate(g, n, m, F)
    BY <1>1, <2>1, Iterates
  <2>3. \A i \in 0 .. n : g[i] = IF i = 0 THEN m ELSE F[i][g[i - 1]]
    BY <2>2 DEF IsIterate
  <2>4. ASSUME NEW i \in 0 .. n, i # 0
        PROVE  F[i][g[i - 1]] = Below(g[i - 1])
    <3>1. i - 1 \in 0 .. n /\ g[i - 1] \in Names
      BY <1>1, <2>4
    <3> QED
      BY <3>1 DEF F
  <2>5. g = [i \in 0 .. n |-> IF i = 0 THEN m ELSE Below(g[i - 1])]
    BY <2>3, <2>4
  <2> QED
    BY <2>5
<1>4. IsIt(down)
  <2> HIDE DEF IsIt
  <2> QED
    BY <1>3
<1>5. Deepest(done, m) = down[n]
  BY Zenon DEF Deepest
<1> HIDE DEF down, n, Below
<1>6. down[0] = m /\ \A i \in 1 .. n : down[i] = Below(down[i - 1])
  <2>1. \A i \in 0 .. n : down[i] = IF i = 0 THEN m ELSE Below(down[i - 1])
    BY <1>4
  <2> HIDE DEF IsIt
  <2> QED
    BY <1>1, <2>1
<1> HIDE DEF IsIt
<1> DEFINE P == {i \in 0 .. n : down[i] \in Names}
<1>7. 0 \in P
  BY <1>1, <1>6
<1>8. \A i \in 1 .. n : i - 1 \in P => i \in P
  BY <1>1, <1>2, <1>6
<1>9. n \in P
  <2> HIDE DEF P
  <2>1. \A i \in 0 .. n : i \in P
    BY <1>1, <1>7, <1>8, AllAlong
  <2> QED
    BY <1>1, <2>1
<1> QED
  BY <1>5, <1>9

\* The modules are checked one after the other.
LEMMA OrderIsSeq ==
  ASSUME DiskOK, NEW sources \in Seq(Names)
  PROVE  Order(sources) \in Seq(Names)
<1> DEFINE n == Len(sources)
           at(done) == SelectInSeq(sources, LAMBDA v : ~Contains(done, v))
           Then(done) == IF at(done) = 0 THEN done ELSE Append(done, Deepest(done, sources[at(done)]))
           F == [i \in 0 .. n |-> [done \in Seq(Names) |-> Then(done)]]
           IsIt(g) == g = [i \in 0 .. n |-> IF i = 0 THEN <<>> ELSE Then(g[i - 1])]
           order == CHOOSE g : IsIt(g)
<1>1. n \in Nat /\ <<>> \in Seq(Names)
  BY LenProperties, EmptySeq
<1>2. ASSUME NEW done \in Seq(Names) PROVE Then(done) \in Seq(Names)
  <2>1. at(done) = 0 \/ sources[at(done)] \in Names
    BY FirstLeft DEF SelectInSeq
  <2>2. CASE at(done) = 0
    BY <2>2
  <2>3. CASE sources[at(done)] \in Names
    <3>1. Deepest(done, sources[at(done)]) \in Names
      BY <2>3, DeepestIsModule
    <3> HIDE DEF at
    <3> QED
      BY <3>1, AppendProperties
  <2> QED
    BY <2>1, <2>2, <2>3
<1>3. \E g : IsIt(g)
  <2>1. F \in [0 .. n -> [Seq(Names) -> Seq(Names)]]
    <3> HIDE DEF Then, n
    <3> QED
      BY <1>2
  <2> HIDE DEF F, n, Then
  <2>2. PICK g \in [0 .. n -> Seq(Names)] : IsIterate(g, n, <<>>, F)
    BY <1>1, <2>1, Iterates
  <2>3. \A i \in 0 .. n : g[i] = IF i = 0 THEN <<>> ELSE F[i][g[i - 1]]
    BY <2>2 DEF IsIterate
  <2>4. ASSUME NEW i \in 0 .. n, i # 0
        PROVE  F[i][g[i - 1]] = Then(g[i - 1])
    <3>1. i - 1 \in 0 .. n /\ g[i - 1] \in Seq(Names)
      BY <1>1, <2>4
    <3> QED
      BY <3>1 DEF F
  <2>5. g = [i \in 0 .. n |-> IF i = 0 THEN <<>> ELSE Then(g[i - 1])]
    BY <2>3, <2>4
  <2> QED
    BY <2>5
<1>4. IsIt(order)
  <2> HIDE DEF IsIt
  <2> QED
    BY <1>3
<1>5. Order(sources) = <<"C", "CORE">> \o Sift(order[n], Names \ Prelude)
  BY Zenon DEF Order
<1> HIDE DEF order, n, Then
<1>6. order[0] = <<>> /\ \A i \in 1 .. n : order[i] = Then(order[i - 1])
  <2>1. \A i \in 0 .. n : order[i] = IF i = 0 THEN <<>> ELSE Then(order[i - 1])
    BY <1>4
  <2> HIDE DEF IsIt
  <2> QED
    BY <1>1, <2>1
<1> HIDE DEF IsIt
<1> DEFINE P == {i \in 0 .. n : order[i] \in Seq(Names)}
<1>7. 0 \in P
  <2>1. order[0] \in Seq(Names) /\ 0 \in 0 .. n
    BY <1>1, <1>6
  <2> QED
    BY <2>1
<1>8. ASSUME NEW i \in 1 .. n, i - 1 \in P PROVE i \in P
  BY <1>1, <1>2, <1>6, <1>8
<1>9. n \in P
  <2> HIDE DEF P
  <2>1. \A i \in 0 .. n : i \in P
    BY <1>1, <1>7, <1>8, AllAlong
  <2> QED
    BY <1>1, <2>1
<1>10. <<"C", "CORE">> \in Seq(Names)
  BY ResidentAssumption DEF Prelude
<1>11. Sift(order[n], Names \ Prelude) \in Seq(Names)
  BY <1>9, SiftKeeps
<1> QED
  BY <1>5, <1>10, <1>11, ConcatProperties

-----------------------------------------------------------------------------
(***************************************************************************)
(* Checking a module after those it imports from.                          *)
(***************************************************************************)
\* All that a module of A imports from is in A.
Closed(A) == A \subseteq Names /\ \A m \in A : Deps(m) \subseteq A

\* With no cycle among the imports, a module lies above those it imports from.
LEMMA DepthOfImports ==
  ASSUME DiskOK
  PROVE  \E depth \in [Names -> 0 .. Cardinality(Names)] :
           \A m \in Names : \A d \in Deps(m) : depth[d] < depth[m]
<1>1. PICK depth \in [Names -> 0 .. Cardinality(Names)] : \A m \in Names : \A t \in Texts[m] :
        \A d \in Needs(m, t) : depth[d] < depth[m]
  BY ResidentAssumption
<1>2. \A m \in Names : \A d \in Deps(m) : depth[d] < depth[m]
  BY <1>1 DEF DiskOK, Deps
<1> QED
  BY <1>2

\* What holds of a module whenever it holds of those it imports from.
LEMMA ByDepth ==
  ASSUME DiskOK, NEW A, Closed(A), NEW P,
         \A m \in A : Deps(m) \subseteq P => m \in P
  PROVE  A \subseteq P
<1>1. PICK depth \in [Names -> 0 .. Cardinality(Names)] :
        \A m \in Names : \A d \in Deps(m) : depth[d] < depth[m]
  BY DepthOfImports
<1> DEFINE T == {depth[m] : m \in A \ P}
<1>2. SUFFICES ASSUME A \ P # {} PROVE FALSE
  OBVIOUS
<1>3. A \subseteq Names /\ Cardinality(Names) \in Nat
  BY ResidentAssumption, FS_CardinalityType DEF Closed
<1>4. T \in SUBSET Nat /\ T # {}
  BY <1>1, <1>2, <1>3
<1> HIDE DEF T
<1>5. PICK x \in T : \A y \in T : x <= y
  BY <1>4, Least
<1>6. PICK m \in A \ P : x = depth[m]
  BY DEF T
<1>7. PICK d \in Deps(m) : d \notin P
  BY <1>6
<1>8. d \in A /\ m \in Names /\ depth[d] < depth[m]
  BY <1>1, <1>3, <1>6 DEF Closed
<1>9. depth[d] \in T /\ depth[d] \in Nat /\ depth[m] \in Nat
  BY <1>1, <1>3, <1>7, <1>8 DEF T
<1>10. depth[m] <= depth[d]
  BY <1>5, <1>6, <1>9
<1> QED
  BY <1>8, <1>9, <1>10

\* The checkers of a run are those the recursion says: the kept one of a reused
\* module, else the check of its text.
LEMMA CheckersAre ==
  ASSUME DiskOK, NEW sources, Closed(ToSet(sources)),
         NEW lenient, NEW session, NEW reused,
         NEW check, check = Checkers(sources, lenient, session, reused)
  PROVE  /\ check = [m \in ToSet(sources) |-> check[m]]
         /\ \A m \in ToSet(sources) :
              check[m] = IF m \in DOMAIN reused THEN reused[m].checker
                         ELSE Checker(m, disk[m], lenient, m \in session, [d \in Deps(m) |-> check[d]])
<1>1. PICK depth \in [Names -> 0 .. Cardinality(Names)] :
        \A m \in Names : \A d \in Deps(m) : depth[d] < depth[m]
  BY DepthOfImports
<1> DEFINE N == Cardinality(Names) + 1
           A == ToSet(sources)
           S(n) == {m \in A : depth[m] < n}
           What(h, m) == IF m \in DOMAIN reused THEN reused[m].checker
                         ELSE Checker(m, disk[m], lenient, m \in session, [d \in Deps(m) |-> h[d]])
           IsCheck(h, n) == h = [m \in S(n) |-> What(h, m)]
           T == {n \in 0 .. N : ~\E h : IsCheck(h, n)}
<1>2. N \in Nat /\ A \subseteq Names /\ S(N) = A /\ S(0) = {} /\ \A m \in A : depth[m] \in Nat
  <2>1. Cardinality(Names) \in Nat /\ A \subseteq Names
    BY ResidentAssumption, FS_CardinalityType DEF Closed
  <2>2. \A m \in A : depth[m] \in 0 .. Cardinality(Names)
    BY <1>1, <2>1
  <2> HIDE DEF A
  <2> QED
    BY <2>1, <2>2
<1>3. \E h : IsCheck(h, N)
  <2>1. SUFFICES ASSUME T # {} PROVE FALSE
    <3>1. N \in 0 .. N
      BY <1>2
    <3> HIDE DEF IsCheck
    <3> QED
      BY <2>1, <3>1
  <2>2. T \in SUBSET (0 .. N)
    OBVIOUS
  <2>3. PICK x \in T : x = 0 \/ (x > 0 /\ x - 1 \in 0 .. N /\ x - 1 \notin T)
    <3> HIDE DEF T
    <3> QED
      BY <1>2, <2>1, <2>2, FirstFailure
  <2>4. x \in 0 .. N /\ ~\E h : IsCheck(h, x)
    BY <2>3
  <2>5. CASE x = 0
    <3> DEFINE h == [m \in {} |-> 0]
    <3>1. h = [m \in S(0) |-> What(h, m)]
      <4> HIDE DEF S, What
      <4> QED
        BY <1>2
    <3> HIDE DEF h, S, What
    <3> QED
      BY <2>4, <2>5, <3>1
  <2>6. CASE x > 0 /\ x - 1 \in 0 .. N /\ x - 1 \notin T
    <3>1. PICK g : IsCheck(g, x - 1)
      BY <2>6
    <3> DEFINE h == [m \in S(x) |-> What(g, m)]
    <3>2. ASSUME NEW m \in S(x) PROVE What(g, m) = What(h, m)
      <4>1. ASSUME NEW d \in Deps(m) PROVE g[d] = h[d]
        <5>1. m \in Names /\ depth[m] < x /\ d \in A /\ depth[d] < depth[m]
          BY <1>1, <1>2 DEF Closed
        <5>2. d \in S(x - 1) /\ d \in S(x)
          BY <1>2, <2>4, <5>1
        <5>3. g[d] = What(g, d) /\ h[d] = What(g, d)
          <6> HIDE DEF S, What
          <6> QED
            BY <3>1, <5>2
        <5> QED
          BY <5>3
      <4> HIDE DEF h
      <4>2. [d \in Deps(m) |-> g[d]] = [d \in Deps(m) |-> h[d]]
        BY <4>1
      <4> QED
        BY <4>2
    <3>3. h = [m \in S(x) |-> What(h, m)]
      <4> HIDE DEF S, What
      <4> QED
        BY <3>2
    <3> HIDE DEF h, S, What
    <3> QED
      BY <2>4, <3>3
  <2> QED
    BY <2>3, <2>5, <2>6
<1>4. \E h : h = [m \in A |-> What(h, m)]
  <2> HIDE DEF A, What
  <2>1. PICK h : h = [m \in S(N) |-> What(h, m)]
    BY <1>3
  <2> QED
    BY <1>2, <2>1
<1>5. check = CHOOSE h : h = [m \in A |-> What(h, m)]
  BY Zenon DEF Checkers, PrepareChecker
<1>6. check = [m \in A |-> What(check, m)]
  <2> HIDE DEF A, What
  <2> QED
    BY <1>4, <1>5
<1>7. check = [m \in A |-> check[m]] /\ \A m \in A : check[m] = What(check, m)
  <2> HIDE DEF A, What
  <2> QED
    BY <1>6
<1> QED
  BY <1>7

\* A check that reports nothing and exports something found all it needed, or
\* deferred it: deferring nothing, it is the strict check
\* (Note [A lenient check that deferred nothing is strict]).
LEMMA StrictIsLenient ==
  ASSUME NEW m, NEW text, NEW session, NEW imported, NEW c,
         NEW lenient \in BOOLEAN, NEW other \in BOOLEAN,
         c = Checker(m, text, lenient, session, imported),
         ~c.error, ~c.hollow, lenient => ~c.deferred
  PROVE  Checker(m, text, other, session, imported) = c
<1> DEFINE missing == text.kind = "needs" /\ \A d \in ToSet(text.imports) : imported[d].text.kind # "gives"
           echo == \E d \in ToSet(text.imports) : imported[d].hollow
           failed(l) == text.kind = "fails" \/ (missing /\ ~l)
           Made(l) == [module |-> m, text |-> text, session |-> session, imported |-> imported,
                       deferred |-> missing /\ l,
                       hollow |-> failed(l) /\ (echo \/ text.kind = "fails"),
                       error |-> failed(l) /\ ~echo,
                       warning |-> text.kind = "warns"]
<1>1. c = Made(lenient) /\ Checker(m, text, other, session, imported) = Made(other)
  BY DEF Checker
<1>0. /\ ~(failed(lenient) /\ ~echo)
      /\ ~(failed(lenient) /\ (echo \/ text.kind = "fails"))
      /\ lenient => ~(missing /\ lenient)
  <2>1. c.error = (failed(lenient) /\ ~echo) /\ c.deferred = (missing /\ lenient)
    BY <1>1
  <2>2. c.hollow = (failed(lenient) /\ (echo \/ text.kind = "fails"))
    BY <1>1
  <2> HIDE DEF missing, echo, failed
  <2> QED
    BY <2>1, <2>2
<1>4. lenient \in BOOLEAN /\ other \in BOOLEAN /\ missing \in BOOLEAN /\ failed(lenient) \in BOOLEAN
      /\ failed(other) \in BOOLEAN
  OBVIOUS
<1> HIDE DEF missing, echo
<1>2. ~missing
  <2>1. ~failed(lenient)
    BY <1>0
  <2> QED
    BY <1>0, <2>1
<1>3. (missing /\ other) = (missing /\ lenient) /\ failed(other) = failed(lenient)
  BY <1>2
<1> HIDE DEF failed
<1> QED
  BY <1>1, <1>3

\* What a checker is like, whatever it checked.
LEMMA CheckerFields ==
  ASSUME NEW m, NEW text, NEW session, NEW imported, NEW lenient \in BOOLEAN, NEW c,
         c = Checker(m, text, lenient, session, imported)
  PROVE  /\ c.module = m /\ c.text = text /\ c.imported = imported /\ c.session = session
         /\ c.deferred \in BOOLEAN
         /\ c.warning = (text.kind = "warns")
         /\ (~lenient => ~c.deferred)
         /\ (~c.error /\ (\A d \in ToSet(text.imports) : ~imported[d].hollow) => ~c.hollow)
  BY DEF Checker

-----------------------------------------------------------------------------
(***************************************************************************)
(* The kept modules.                                                       *)
(***************************************************************************)
KeptFields == {"id", "name", "src", "deferred", "deps", "lowered", "checker", "top"}

\* A kept module is what a clean check of its text gave.
KeptOK(k) ==
  /\ DOMAIN k = KeptFields /\ k = [f \in KeptFields |-> k[f]]
  /\ k.name \in Names /\ k.src \in Texts[k.name] /\ k.deferred \in BOOLEAN
  /\ k.deps = Needs(k.name, k.src)
  /\ k.checker = Checker(k.name, k.src, k.deferred, FALSE, k.checker.imported)
  /\ k.deferred => k.checker.deferred
  /\ k.checker.imported = [d \in k.deps |-> k.checker.imported[d]]
  /\ ~k.checker.error /\ ~k.checker.warning /\ ~k.checker.hollow
  /\ k.lowered \in {NoCore, Core(k.checker)}

\* Modules that fit together.
Fitting(modules) ==
  /\ \A k \in modules : KeptOK(k)
  /\ \A k, j \in modules : k.name = j.name => k = j
  /\ \A k, j \in modules : k.id = j.id => k = j
  /\ \A k \in modules : \A d \in k.deps : \E j \in modules :
       j.name = d /\ j.checker = k.checker.imported[d]

ResOK(res) ==
  /\ res = [modules |-> res.modules, stale |-> res.stale, next_id |-> res.next_id, types |-> res.types]
  /\ res.stale \in Nat /\ res.next_id \in Nat /\ res.types \in Nat
  /\ IsFiniteSet(res.modules) /\ Fitting(res.modules)
  /\ \A k \in res.modules : k.id \in 1 .. res.next_id /\ k.top \in 0 .. res.types

\* An empty resident set fits together.
LEMMA FreshOK == ResOK(Fresh)
<1>1. Fresh.modules = {} /\ Fresh.stale = 0 /\ Fresh.next_id = 0 /\ Fresh.types = 0
  BY DEF Fresh
<1> QED
  BY <1>1, FS_EmptySet DEF ResOK, Fitting, Fresh

\* So does the set a run starts from: it is the one kept, or the empty one.
LEMMA TakeResidentOK ==
  ASSUME NEW res, ResOK(res)
  PROVE  ResOK(TakeResident(res)) /\ TakeResident(res) \in {res, Fresh}
  BY FreshOK DEF TakeResident

\* One clean kept module of that name and text, and its imports reused in turn.
ReusedOK(R, res, sources, lenient, session) ==
  /\ DOMAIN R \subseteq ToSet(sources)
  /\ \A m \in DOMAIN R :
       /\ R[m] \in res.modules /\ R[m].name = m /\ R[m].src = disk[m]
       /\ lenient \/ ~R[m].deferred
       /\ m \notin session
       /\ R[m].deps \subseteq DOMAIN R

\* What a run reuses is kept, current and strict enough, and so is all it
\* imported from (reusable).
LEMMA ReusableIsOK ==
  ASSUME NEW res, ResOK(res), NEW sources, NEW lenient, NEW session
  PROVE  ReusedOK(Reusable(res, sources, lenient, session), res, sources, lenient, session)
<1> DEFINE C(m) == Candidates(res, m, lenient, session)
           cand == {m \in ToSet(sources) : C(m) # {}}
           picks == {Oldest(C(m)) : m \in cand}
           holding == {R \in SUBSET cand : \A k \in picks : k.name \in R => k.deps \subseteq R}
           U == UNION holding
           R == [m \in U |-> CHOOSE k \in picks : k.name = m]
<1>1. Reusable(res, sources, lenient, session) = R
  BY Zenon DEF Reusable
<1>2. ASSUME NEW m \in cand
      PROVE  Oldest(C(m)) \in C(m)
  <2>1. PICK k : k \in C(m)
    OBVIOUS
  <2>2. \A j \in C(m) : j = k /\ k.id <= j.id
    <3>1. SUFFICES ASSUME NEW j \in C(m) PROVE j = k /\ k.id <= j.id
      OBVIOUS
    <3>2. k \in res.modules /\ j \in res.modules /\ k.name = j.name
      BY <2>1 DEF Candidates
    <3>3. k = j /\ k.id \in 1 .. res.next_id /\ res.next_id \in Nat
      BY <3>2 DEF ResOK, Fitting
    <3> QED
      BY <3>3
  <2> HIDE DEF C
  <2> QED
    BY <2>1, <2>2 DEF Oldest
<1>3. \A m : \A k \in C(m) : /\ k \in res.modules /\ k.name = m /\ k.src = disk[m]
                             /\ lenient \/ ~k.deferred
                             /\ m \notin session
  BY DEF Candidates
<1> HIDE DEF C
<1>4. U \subseteq cand
  OBVIOUS
<1>5. ASSUME NEW m \in U
      PROVE  /\ R[m] \in picks /\ R[m].name = m
             /\ R[m] = Oldest(C(m)) /\ R[m] \in C(m)
  <2>1. m \in cand
    BY <1>4
  <2>2. Oldest(C(m)) \in picks /\ Oldest(C(m)).name = m
    BY <1>2, <1>3, <2>1
  <2>3. \A k \in picks : k.name = m => k = Oldest(C(m))
    <3>1. SUFFICES ASSUME NEW n \in cand, Oldest(C(n)).name = m PROVE Oldest(C(n)) = Oldest(C(m))
      OBVIOUS
    <3>2. n = m
      BY <1>2, <1>3, <3>1
    <3> QED
      BY <3>2
  <2>4. R[m] = CHOOSE k \in picks : k.name = m
    OBVIOUS
  <2> HIDE DEF picks, R, cand
  <2>5. R[m] \in picks /\ R[m].name = m
    BY <2>2, <2>4
  <2> QED
    BY <1>2, <2>1, <2>3, <2>5
<1>6. ASSUME NEW m \in U
      PROVE  R[m].deps \subseteq U
  <2>1. PICK W \in holding : m \in W
    OBVIOUS
  <2>2. R[m] \in picks /\ R[m].name \in W
    BY <1>5, <2>1
  <2> HIDE DEF R, picks
  <2>3. R[m].deps \subseteq W
    BY <2>1, <2>2
  <2> QED
    BY <2>3
<1>7. DOMAIN R = U
  OBVIOUS
<1>8. U \subseteq ToSet(sources)
  BY <1>4
<1> HIDE DEF R, U
<1> QED
  BY <1>1, <1>3, <1>5, <1>6, <1>7, <1>8 DEF ReusedOK

\* With the reused modules' checkers in place, every checker is still the check
\* of its module against the checkers of what it imports from.
LEMMA ReusedCheckAlike ==
  ASSUME DiskOK, NEW res, ResOK(res), NEW sources, Closed(ToSet(sources)),
         NEW lenient \in BOOLEAN, NEW session,
         NEW R, ReusedOK(R, res, sources, lenient, session),
         NEW check, check = Checkers(sources, lenient, session, R)
  PROVE  \A m \in ToSet(sources) :
           check[m] = Checker(m, disk[m], lenient, m \in session, [d \in Deps(m) |-> check[d]])
<1>1. \A m \in ToSet(sources) :
        check[m] = IF m \in DOMAIN R THEN R[m].checker
                   ELSE Checker(m, disk[m], lenient, m \in session, [d \in Deps(m) |-> check[d]])
  BY CheckersAre
<1>2. SUFFICES ASSUME NEW m \in ToSet(sources), m \in DOMAIN R
               PROVE  check[m] = Checker(m, disk[m], lenient, m \in session, [d \in Deps(m) |-> check[d]])
  BY <1>1
<1> DEFINE k == R[m]
           c == k.checker
<1>3. /\ k \in res.modules /\ k.name = m /\ k.src = disk[m] /\ k.deps \subseteq DOMAIN R
      /\ lenient \/ ~k.deferred
      /\ m \notin session
  BY <1>2 DEF ReusedOK
<1>4. KeptOK(k) /\ check[m] = c
  BY <1>1, <1>2, <1>3 DEF ResOK, Fitting
<1> HIDE DEF k
<1>5. /\ k.deps = Deps(m) /\ k.deferred \in BOOLEAN
      /\ c = Checker(m, disk[m], k.deferred, FALSE, c.imported)
      /\ c.imported = [d \in k.deps |-> c.imported[d]]
      /\ ~c.error /\ ~c.hollow
  BY <1>3, <1>4 DEF KeptOK, Deps
<1>6. c.imported = [d \in Deps(m) |-> check[d]]
  <2>1. ASSUME NEW d \in Deps(m) PROVE c.imported[d] = check[d]
    <3>1. PICK j \in res.modules : j.name = d /\ j.checker = c.imported[d]
      BY <1>3, <1>5 DEF ResOK, Fitting
    <3>2. d \in DOMAIN R /\ d \in ToSet(sources) /\ R[d] \in res.modules /\ R[d].name = d
      BY <1>3, <1>5 DEF ReusedOK
    <3>3. R[d] = j
      BY <3>1, <3>2 DEF ResOK, Fitting
    <3> QED
      BY <1>1, <3>1, <3>2, <3>3
  <2> HIDE DEF c
  <2> QED
    BY <1>5, <2>1
<1> HIDE DEF c
<1>7. c = Checker(m, disk[m], lenient, FALSE, c.imported)
  <2>1. CASE k.deferred
    <3>1. lenient = TRUE /\ k.deferred = TRUE
      BY <1>3, <1>5, <2>1
    <3> QED
      BY <1>5, <3>1
  <2>2. CASE ~k.deferred
    <3> DEFINE imported == c.imported
               no == FALSE
    <3>1. k.deferred = no /\ no \in BOOLEAN /\ ~no
      BY <1>5, <2>2
    <3>2. c = Checker(m, disk[m], no, no, imported)
      BY <1>5, <3>1
    <3> HIDE DEF imported, no
    <3>3. Checker(m, disk[m], lenient, no, imported) = c
      BY <1>5, <3>1, <3>2, StrictIsLenient
    <3> QED
      BY <3>3 DEF imported, no
  <2> QED
    BY <2>1, <2>2
<1>8. (m \in session) = FALSE
  BY <1>3
<1> QED
  BY <1>4, <1>6, <1>7, <1>8

\* A load has all that its modules import from.
LEMMA LoadIsClosed ==
  ASSUME DiskOK, NEW root \in Names
  PROVE  Closed(ToSet(Load(root)))
  BY LoadFacts DEF Closed

\* What a compile gets with the kept modules is what it gets without.
LEMMA ScratchLemma ==
  ASSUME DiskOK, ResOK(resident)
  PROVE  ReuseIsScratch
<1> SUFFICES ASSUME NEW root \in Roots, NEW lenient \in BOOLEAN, NEW asSession \in BOOLEAN
             PROVE  LET sources == Load(root)
                        session == IF asSession THEN {root} ELSE {}
                        reused == Reusable(resident, sources, lenient, session)
                        scratch == Checkers(sources, lenient, session, <<>>)
                    IN /\ Checkers(sources, lenient, session, reused) = scratch
                       /\ \A m \in DOMAIN reused : ~scratch[m].error /\ ~scratch[m].warning
  BY DEF ReuseIsScratch
<1> DEFINE sources == Load(root)
           session == IF asSession THEN {root} ELSE {}
           R == Reusable(resident, sources, lenient, session)
           check == Checkers(sources, lenient, session, R)
           scratch == Checkers(sources, lenient, session, <<>>)
<1>1. root \in Names
  BY ResidentAssumption
<1>2. Closed(ToSet(sources))
  BY <1>1, LoadIsClosed
<1>3. ReusedOK(R, resident, sources, lenient, session)
  BY ReusableIsOK
<1> HIDE DEF sources, session, R, check, scratch
<1>4. \A m \in ToSet(sources) :
        check[m] = Checker(m, disk[m], lenient, m \in session, [d \in Deps(m) |-> check[d]])
  BY <1>2, <1>3, ReusedCheckAlike DEF check
<1>5. /\ check = [m \in ToSet(sources) |-> check[m]]
      /\ \A m \in ToSet(sources) : m \in DOMAIN R => check[m] = R[m].checker
  <2>1. /\ check = [m \in ToSet(sources) |-> check[m]]
        /\ \A m \in ToSet(sources) :
             check[m] = IF m \in DOMAIN R THEN R[m].checker
                        ELSE Checker(m, disk[m], lenient, m \in session, [d \in Deps(m) |-> check[d]])
    BY <1>2, CheckersAre DEF check
  <2> QED
    BY <2>1
<1>6. /\ scratch = [m \in ToSet(sources) |-> scratch[m]]
      /\ \A m \in ToSet(sources) :
           scratch[m] = Checker(m, disk[m], lenient, m \in session, [d \in Deps(m) |-> scratch[d]])
  <2>1. DOMAIN <<>> = {}
    OBVIOUS
  <2>2. /\ scratch = [m \in ToSet(sources) |-> scratch[m]]
        /\ \A m \in ToSet(sources) :
             scratch[m] = IF m \in DOMAIN <<>> THEN <<>>[m].checker
                          ELSE Checker(m, disk[m], lenient, m \in session, [d \in Deps(m) |-> scratch[d]])
    BY <1>2, CheckersAre DEF scratch
  <2> QED
    BY <2>1, <2>2
<1>7. check = scratch
  <2> DEFINE P == {m \in ToSet(sources) : check[m] = scratch[m]}
  <2>1. ASSUME NEW m \in ToSet(sources), Deps(m) \subseteq P PROVE m \in P
    <3>1. [d \in Deps(m) |-> check[d]] = [d \in Deps(m) |-> scratch[d]]
      BY <2>1
    <3> QED
      BY <1>4, <1>6, <3>1
  <2>2. ToSet(sources) \subseteq P
    <3> HIDE DEF P
    <3> QED
      BY <1>2, <2>1, ByDepth
  <2>3. \A m \in ToSet(sources) : check[m] = scratch[m]
    BY <2>2
  <2> QED
    BY <1>5, <1>6, <2>3
<1>8. ASSUME NEW m \in DOMAIN R PROVE ~scratch[m].error /\ ~scratch[m].warning
  <2>1. m \in ToSet(sources) /\ R[m] \in resident.modules
    BY <1>3 DEF ReusedOK
  <2>2. ~R[m].checker.error /\ ~R[m].checker.warning
    BY <2>1 DEF ResOK, Fitting, KeptOK
  <2> QED
    BY <1>5, <1>7, <2>1, <2>2
<1> QED
  BY <1>7, <1>8 DEF sources, session, R, check, scratch

-----------------------------------------------------------------------------
(***************************************************************************)
(* The end of a run: what is kept, what goes, what is left fits together.  *)
(***************************************************************************)
LEMMA KeepFacts ==
  ASSUME DiskOK, NEW res, ResOK(res), NEW sources, Closed(ToSet(sources)),
         NEW lenient \in BOOLEAN, NEW session,
         NEW R, ReusedOK(R, res, sources, lenient, session),
         NEW check, check = Checkers(sources, lenient, session, R),
         NEW keep, keep = Keepable(sources, session, R, check)
  PROVE  /\ keep \subseteq ToSet(sources)
         /\ \A m \in keep : /\ m \notin DOMAIN R /\ m \notin session
                            /\ ~check[m].error /\ ~check[m].warning /\ ~check[m].hollow
                            /\ Deps(m) \subseteq DOMAIN R \cup keep
<1> DEFINE A == ToSet(sources)
           clean == {m \in A : /\ m \notin DOMAIN R /\ m \notin session
                               /\ ~check[m].error /\ ~check[m].warning}
           holding == {K \in SUBSET clean : \A m \in K : Deps(m) \subseteq DOMAIN R \cup K}
<1>1. keep = UNION holding
  BY DEF Keepable
<1>2. keep \subseteq clean
  BY <1>1
<1>3. ASSUME NEW m \in keep PROVE Deps(m) \subseteq DOMAIN R \cup keep
  <2>1. PICK K \in holding : m \in K
    BY <1>1
  <2>2. Deps(m) \subseteq DOMAIN R \cup K /\ K \subseteq keep
    BY <1>1, <2>1
  <2> QED
    BY <2>2
<1>4. \A m \in A : check[m] = Checker(m, disk[m], lenient, m \in session, [d \in Deps(m) |-> check[d]])
  BY ReusedCheckAlike
<1>5. \A m \in A : m \in DOMAIN R => ~check[m].hollow
  <2>1. \A m \in A : m \in DOMAIN R => check[m] = R[m].checker /\ R[m] \in res.modules
    <3>1. \A m \in A : check[m] = IF m \in DOMAIN R THEN R[m].checker
                   ELSE Checker(m, disk[m], lenient, m \in session, [d \in Deps(m) |-> check[d]])
      BY CheckersAre
    <3> QED
      BY <3>1 DEF ReusedOK
  <2>2. \A k \in res.modules : ~k.checker.hollow
    BY DEF ResOK, Fitting, KeptOK
  <2> QED
    BY <2>1, <2>2
<1> DEFINE P == {m \in A : m \in keep \/ m \in DOMAIN R => ~check[m].hollow}
<1>6. ASSUME NEW m \in A, Deps(m) \subseteq P PROVE m \in P
  <2>1. SUFFICES ASSUME m \in keep PROVE ~check[m].hollow
    BY <1>5
  <2> DEFINE imported == [d \in Deps(m) |-> check[d]]
  <2>2. ToSet(disk[m].imports) \subseteq Deps(m)
    BY DEF Deps, Needs
  <2>3. \A d \in ToSet(disk[m].imports) : ~imported[d].hollow
    <3>1. SUFFICES ASSUME NEW d \in ToSet(disk[m].imports) PROVE ~imported[d].hollow
      OBVIOUS
    <3>2. d \in Deps(m) /\ imported[d] = check[d] /\ (d \in DOMAIN R \/ d \in keep)
      BY <1>3, <2>1, <2>2
    <3> QED
      BY <1>6, <3>2
  <2>4. ~check[m].error
    BY <1>2, <2>1
  <2>5. check[m] = Checker(m, disk[m], lenient, m \in session, imported)
    BY <1>4
  <2> HIDE DEF imported
  <2> QED
    BY <2>3, <2>4, <2>5, CheckerFields
<1>7. A \subseteq P
  <2> HIDE DEF P
  <2> QED
    BY <1>6, ByDepth
<1> QED
  BY <1>2, <1>3, <1>7

\* What goes takes along all that imported from it, and nothing else.
LEMMA GoneFacts ==
  ASSUME NEW res, NEW names, NEW gone, gone = Gone(res, names)
  PROVE  /\ gone \subseteq res.modules
         /\ \A k \in res.modules \ gone :
              k.name \notin names /\ k.deps \cap (names \cup {j.name : j \in gone}) = {}
         /\ \A G \in SUBSET res.modules :
              (\A k \in res.modules \ G :
                 k.name \notin names /\ k.deps \cap (names \cup {j.name : j \in G}) = {})
              => gone \subseteq G
<1> DEFINE staying == {S \in SUBSET res.modules : \A k \in S :
                         k.name \notin names
                         /\ k.deps \cap (names \cup {j.name : j \in res.modules \ S}) = {}}
<1>1. gone = res.modules \ UNION staying
  BY DEF Gone
<1>2. ASSUME NEW G \in SUBSET res.modules,
             \A k \in res.modules \ G :
               k.name \notin names /\ k.deps \cap (names \cup {j.name : j \in G}) = {}
      PROVE  gone \subseteq G
  <2>1. res.modules \ (res.modules \ G) = G
    OBVIOUS
  <2>2. res.modules \ G \in staying
    BY <1>2, <2>1
  <2> HIDE DEF staying
  <2> QED
    BY <1>1, <2>2
<1>3. ASSUME NEW k \in res.modules \ gone
      PROVE  k.name \notin names /\ k.deps \cap (names \cup {j.name : j \in gone}) = {}
  <2>1. PICK S \in staying : k \in S
    BY <1>1
  <2>2. k.name \notin names
        /\ k.deps \cap (names \cup {j.name : j \in res.modules \ S}) = {}
    BY <2>1
  <2>3. gone \subseteq res.modules \ S
    BY <1>1
  <2> QED
    BY <2>2, <2>3
<1>4. gone \subseteq res.modules
  BY <1>1
<1> QED
  BY <1>2, <1>3, <1>4

\* The kept module but for its lowered form.
SameKept(j, k) ==
  /\ j.id = k.id /\ j.name = k.name /\ j.src = k.src /\ j.deferred = k.deferred
  /\ j.deps = k.deps /\ j.checker = k.checker /\ j.top = k.top

\* Filling in lowered forms changes nothing that makes modules fit together.
LEMMA LoweredFits ==
  ASSUME NEW modules, Fitting(modules), IsFiniteSet(modules), NEW f,
         \A k \in modules : /\ SameKept(f[k], k) /\ f[k] = [g \in KeptFields |-> f[k][g]]
                            /\ f[k].lowered \in {NoCore, Core(k.checker)},
         f = [k \in modules |-> f[k]],
         NEW old, old = {f[k] : k \in modules}
  PROVE  Fitting(old) /\ IsFiniteSet(old)
<1>1. IsFiniteSet(old)
  <2>1. f \in [modules -> old] /\ \A j \in old : \E k \in modules : f[k] = j
    OBVIOUS
  <2>2. f \in Surjection(modules, old)
    BY <2>1, Fun_IsSurj
  <2> QED
    BY <2>2, FS_Surjection
<1>2. ASSUME NEW j \in old PROVE \E k \in modules : j = f[k]
  OBVIOUS
<1>3. ASSUME NEW k \in modules PROVE KeptOK(f[k])
  <2> DEFINE j == f[k]
  <2>1. KeptOK(k) /\ SameKept(j, k) /\ j = [g \in KeptFields |-> j[g]] /\ j.lowered \in {NoCore, Core(k.checker)}
    BY DEF Fitting
  <2> HIDE DEF j
  <2>2. DOMAIN j = KeptFields
    BY <2>1
  <2> QED
    BY <2>1, <2>2 DEF KeptOK, SameKept, j
<1>4. \A k, j \in modules : (f[k].name = f[j].name => k = j) /\ (f[k].id = f[j].id => k = j)
  BY DEF Fitting, SameKept
<1>5. ASSUME NEW k \in modules, NEW d \in f[k].deps
      PROVE  \E j \in old : j.name = d /\ j.checker = f[k].checker.imported[d]
  <2>1. d \in k.deps /\ f[k].checker = k.checker
    BY <1>5 DEF SameKept
  <2>2. PICK j \in modules : j.name = d /\ j.checker = k.checker.imported[d]
    BY <2>1 DEF Fitting
  <2>3. f[j] \in old /\ f[j].name = d /\ f[j].checker = j.checker
    BY <2>2 DEF SameKept
  <2> QED
    BY <2>1, <2>2, <2>3
<1>6. /\ \A k \in old : KeptOK(k)
      /\ \A k, j \in old : k.name = j.name => k = j
      /\ \A k, j \in old : k.id = j.id => k = j
  BY <1>2, <1>3, <1>4
<1>7. \A k \in old : \A d \in k.deps : \E j \in old : j.name = d /\ j.checker = k.checker.imported[d]
  BY <1>2, <1>5
<1> QED
  BY <1>1, <1>6, <1>7 DEF Fitting

-----------------------------------------------------------------------------
(***************************************************************************)
(* The marks of the type store.                                            *)
(***************************************************************************)
Unreused(order, R, p) == {i \in 1 .. p : order[i] \notin DOMAIN R}

\* More modules checked, more of the store in use.
LEMMA CountGrows ==
  ASSUME NEW order, NEW R, NEW p \in Nat, NEW q \in Nat, p <= q
  PROVE  /\ Cardinality(Unreused(order, R, p)) \in Nat
         /\ Cardinality(Unreused(order, R, p)) <= Cardinality(Unreused(order, R, q))
<1>1. IsFiniteSet(1 .. p) /\ IsFiniteSet(1 .. q)
  BY FS_Interval
<1>2. Unreused(order, R, p) \subseteq 1 .. p /\ Unreused(order, R, q) \subseteq 1 .. q
  BY DEF Unreused
<1>3. IsFiniteSet(Unreused(order, R, p)) /\ IsFiniteSet(Unreused(order, R, q))
  BY <1>1, <1>2, FS_Subset
<1>4. Unreused(order, R, p) \subseteq Unreused(order, R, q)
  BY DEF Unreused
<1> QED
  BY <1>3, <1>4, FS_Subset, FS_CardinalityType

\* The last place of a member of T.
LastIn(order, T) == SelectLastInSeq(order, LAMBDA x : x \in T)

\* It is a place of one, and after the places of all, if there is any.
LEMMA LastInIs ==
  ASSUME NEW order \in Seq(Names), NEW T
  PROVE  /\ LastIn(order, T) \in 0 .. Len(order) /\ Len(order) \in Nat
         /\ LastIn(order, T) # 0 => order[LastIn(order, T)] \in T
         /\ \A i \in 1 .. Len(order) : order[i] \in T => i <= LastIn(order, T)
<1> DEFINE I == {i \in 1 .. Len(order) : order[i] \in T}
<1>1. LastIn(order, T) = IF I # {} THEN Max(I) ELSE 0
  BY DEF LastIn, SelectLastInSeq
<1>2. I \in SUBSET (0 .. Len(order)) /\ Len(order) \in Nat
  BY LenProperties
<1>3. I # {} => Max(I) \in I /\ \A i \in I : i <= Max(I)
  <2> HIDE DEF I
  <2> QED
    BY <1>2, MaxIn
<1>4. \A i : i \in I <=> i \in 1 .. Len(order) /\ order[i] \in T
  OBVIOUS
<1> HIDE DEF I
<1> QED
  BY <1>1, <1>2, <1>3, <1>4

LEMMA MarkIs ==
  ASSUME NEW start, NEW order, NEW R, NEW m
  PROVE  Mark(start, order, R, m) = start + Cardinality(Unreused(order, R, LastIn(order, {m})))
<1>1. SelectLastInSeq(order, LAMBDA x : x = m) = LastIn(order, {m})
  <2>1. {i \in 1 .. Len(order) : order[i] = m} = {i \in 1 .. Len(order) : order[i] \in {m}}
    OBVIOUS
  <2> QED
    BY <2>1 DEF LastIn, SelectLastInSeq
<1> QED
  BY <1>1 DEF Mark, Unreused

\* The store is rewound to no mark below that of a module kept.
LEMMA RewindAboveMarks ==
  ASSUME NEW start \in Nat, NEW order \in Seq(Names), NEW R, NEW keep
  PROVE  /\ Rewind(start, order, R, keep) \in Nat
         /\ start <= Rewind(start, order, R, keep)
         /\ \A m \in keep : /\ Mark(start, order, R, m) \in Nat
                            /\ Mark(start, order, R, m) <= Rewind(start, order, R, keep)
<1> DEFINE q == LastIn(order, keep)
           l == LastIn(order, {order[q]})
           Count(p) == Cardinality(Unreused(order, R, p))
<1>1. Rewind(start, order, R, keep) = start + Count(l)
  BY MarkIs DEF Rewind, LastIn
<1>2. q \in 0 .. Len(order) /\ l \in 0 .. Len(order) /\ Len(order) \in Nat
  BY LastInIs
<1>3. Count(l) \in Nat
  BY <1>2, CountGrows
<1>4. ASSUME NEW m \in keep
      PROVE  LastIn(order, {m}) \in Nat /\ LastIn(order, {m}) <= l
  <2> DEFINE p == LastIn(order, {m})
  <2>1. p \in 0 .. Len(order) /\ (p # 0 => order[p] = m)
    BY LastInIs
  <2>2. CASE p = 0
    BY <1>2, <2>2
  <2>3. CASE p # 0
    <3>1. p \in 1 .. Len(order) /\ order[p] \in keep
      BY <1>2, <2>1, <2>3
    <3>2. p <= q
      BY <3>1, LastInIs
    <3>3. q \in 1 .. Len(order) /\ order[q] \in {order[q]}
      BY <1>2, <3>1, <3>2
    <3>4. q <= l
      BY <3>3, LastInIs
    <3> HIDE DEF p, q, l
    <3> QED
      BY <1>2, <2>1, <3>2, <3>4 DEF p
  <2> QED
    BY <2>2, <2>3
<1>5. ASSUME NEW m \in keep
      PROVE  /\ Mark(start, order, R, m) \in Nat
             /\ Mark(start, order, R, m) <= start + Count(l)
  <2>1. Mark(start, order, R, m) = start + Count(LastIn(order, {m}))
    BY MarkIs
  <2> DEFINE p == LastIn(order, {m})
  <2> HIDE DEF l
  <2>4. p \in Nat /\ p <= l
    BY <1>4
  <2>5. l \in Nat
    BY <1>2
  <2>2. p \in Nat /\ p <= l /\ l \in Nat
    BY <2>4, <2>5
  <2> HIDE DEF p, l
  <2>3. Count(p) \in Nat /\ Count(p) <= Count(l)
    BY <2>2, CountGrows
  <2> HIDE DEF Count
  <2> QED
    BY <1>3, <2>1, <2>3 DEF p
<1> HIDE DEF Count, l
<1> QED
  BY <1>1, <1>3, <1>5

-----------------------------------------------------------------------------
(***************************************************************************)
(* A run leaves modules that fit together.                                 *)
(***************************************************************************)
\* Whoever was kept before and still is has not been checked anew.
Descends(res2, res) ==
  /\ res2.next_id >= res.next_id
  /\ \A j \in res2.modules : j.id <= res.next_id =>
       \E k \in res.modules : k.id = j.id /\ k.checker = j.checker

\* What Drop leaves fits together: the modules that stay, their lowered form
\* filled in, and those just kept, and no id is given twice.
LEMMA DropRunOK ==
  ASSUME DiskOK, NEW res, ResOK(res),
         NEW sources \in Seq(Names), Once(sources), Closed(ToSet(sources)),
         NEW lenient \in BOOLEAN, NEW session, NEW desugared \in BOOLEAN,
         NEW R, ReusedOK(R, res, sources, lenient, session),
         NEW next, next = DropRun(res, sources, lenient, session, R, desugared)
  PROVE  ResOK(next) /\ Descends(next, res)
<1> DEFINE check == Checkers(sources, lenient, session, R)
           keep == Keepable(sources, session, R, check)
           order == Order(sources)
           lowered == [m \in ToSet(sources) |-> IF desugared THEN Core(check[m]) ELSE NoCore]
           Upd(k) == IF desugared /\ k \in Range(R) /\ k.lowered = NoCore
                     THEN [k EXCEPT !.lowered = lowered[k.name]] ELSE k
           upd == [k \in res.modules |-> Upd(k)]
           old == {Upd(k) : k \in res.modules}
           there == [res EXCEPT !.modules = old]
           gone == Gone(there, keep)
           new == Sift(sources, keep)
           top(m) == Mark(res.types, order, R, m)
           kept(i) == [id |-> res.next_id + i, name |-> new[i], src |-> disk[new[i]],
                       deferred |-> lenient /\ check[new[i]].deferred, deps |-> Deps(new[i]),
                       lowered |-> lowered[new[i]], checker |-> check[new[i]], top |-> top(new[i])]
           added == {kept(i) : i \in DOMAIN new}
           A == ToSet(sources)
<1>1. next = IF keep = {} THEN there
             ELSE [modules |-> (old \ gone) \cup added,
                   stale |-> res.stale + Cardinality(gone),
                   next_id |-> res.next_id + Len(new),
                   types |-> Rewind(res.types, order, R, keep)]
  BY Zenon DEF DropRun, TakeIn
<1>0. check = Checkers(sources, lenient, session, R) /\ keep = Keepable(sources, session, R, check)
  OBVIOUS
<1> HIDE DEF check, keep
<1>2. /\ keep \subseteq A
      /\ \A m \in keep : /\ m \notin DOMAIN R /\ m \notin session
                         /\ ~check[m].error /\ ~check[m].warning /\ ~check[m].hollow
                         /\ Deps(m) \subseteq DOMAIN R \cup keep
  BY <1>0, KeepFacts
<1>3. \A m \in A : check[m] = Checker(m, disk[m], lenient, m \in session, [d \in Deps(m) |-> check[d]])
  BY <1>0, ReusedCheckAlike
<1>4. \A m \in DOMAIN R : /\ m \in A /\ R[m] \in res.modules /\ R[m].name = m
                          /\ R[m].deps \subseteq DOMAIN R /\ check[m] = R[m].checker
  <2>1. \A m \in A : check[m] = IF m \in DOMAIN R THEN R[m].checker
                   ELSE Checker(m, disk[m], lenient, m \in session, [d \in Deps(m) |-> check[d]])
    BY <1>0, CheckersAre
  <2> QED
    BY <2>1 DEF ReusedOK
<1>5. /\ Fitting(res.modules) /\ IsFiniteSet(res.modules)
      /\ res.stale \in Nat /\ res.next_id \in Nat /\ res.types \in Nat
      /\ \A k \in res.modules : k.id \in 1 .. res.next_id /\ k.top \in 0 .. res.types
      /\ res = [modules |-> res.modules, stale |-> res.stale, next_id |-> res.next_id, types |-> res.types]
  BY DEF ResOK
<1>6. ASSUME NEW k \in res.modules
      PROVE  /\ SameKept(Upd(k), k) /\ Upd(k) = [g \in KeptFields |-> Upd(k)[g]]
             /\ Upd(k).lowered \in {NoCore, Core(k.checker)}
  <2>1. KeptOK(k)
    BY <1>5 DEF Fitting
  <2>2. CASE desugared /\ k \in Range(R) /\ k.lowered = NoCore
    <3>1. PICK m \in DOMAIN R : R[m] = k
      BY <2>2 DEF Range
    <3>2. k.name = m /\ m \in A /\ check[m] = k.checker
      BY <1>4, <3>1
    <3>3. lowered[k.name] = Core(k.checker)
      BY <2>2, <3>2
    <3>4. Upd(k) = [k EXCEPT !.lowered = Core(k.checker)]
      BY <2>2, <3>3
    <3> DEFINE core == Core(k.checker)
               j == [k EXCEPT !.lowered = core]
    <3> HIDE DEF core, Upd, lowered
    <3>5. DOMAIN k = KeptFields
      BY <2>1 DEF KeptOK
    <3>6. /\ j.id = k.id /\ j.name = k.name /\ j.src = k.src /\ j.deferred = k.deferred
          /\ j.deps = k.deps /\ j.checker = k.checker /\ j.top = k.top /\ j.lowered = core
          /\ j = [g \in KeptFields |-> j[g]]
      BY <3>5 DEF KeptFields
    <3> QED
      BY <3>4, <3>6 DEF core, SameKept
  <2>3. CASE ~(desugared /\ k \in Range(R) /\ k.lowered = NoCore)
    <3>1. Upd(k) = k
      BY <2>3
    <3> HIDE DEF Upd
    <3> QED
      BY <2>1, <3>1 DEF KeptOK, SameKept
  <2> QED
    BY <2>2, <2>3
<1>7. Fitting(old) /\ IsFiniteSet(old)
  <2>3. \A k \in res.modules : upd[k] = Upd(k)
    OBVIOUS
  <2>4. upd = [k \in res.modules |-> Upd(k)]
    OBVIOUS
  <2>1. upd = [k \in res.modules |-> upd[k]] /\ old = {upd[k] : k \in res.modules}
    <3> HIDE DEF Upd
    <3> QED
      BY <2>3, <2>4
  <2>2. \A k \in res.modules : /\ SameKept(upd[k], k) /\ upd[k] = [g \in KeptFields |-> upd[k][g]]
                               /\ upd[k].lowered \in {NoCore, Core(k.checker)}
    <3> HIDE DEF Upd
    <3> QED
      BY <1>6
  <2> HIDE DEF upd, old
  <2> QED
    BY <1>5, <2>1, <2>2, LoweredFits
<1>8. /\ \A j \in old : \E k \in res.modules : SameKept(j, k)
      /\ \A k \in res.modules : \E j \in old : SameKept(j, k)
  <2> HIDE DEF Upd
  <2> QED
    BY <1>6
<1>9. there = [modules |-> old, stale |-> res.stale, next_id |-> res.next_id, types |-> res.types]
  <2> HIDE DEF old
  <2> QED
    BY <1>5
<1>10. \A j \in old : j.id \in 1 .. res.next_id /\ j.top \in 0 .. res.types
  BY <1>5, <1>8 DEF SameKept
<1> HIDE DEF old, upd, Upd, there
<1>11. \A j \in old : \E k \in res.modules : k.id = j.id /\ k.checker = j.checker
  BY <1>8 DEF SameKept
<1>12. CASE keep = {}
  <2>1. next = there
    BY <1>1, <1>12
  <2>2. ResOK(next)
    BY <1>5, <1>7, <1>9, <1>10, <2>1 DEF ResOK
  <2>3. Descends(next, res)
    BY <1>5, <1>9, <1>11, <2>1 DEF Descends
  <2> QED
    BY <2>2, <2>3
<1>13. CASE keep # {}
  <2> DEFINE left == old \ gone
             modules == left \cup added
             types == Rewind(res.types, order, R, keep)
  <2>1. /\ next.modules = modules /\ next.stale = res.stale + Cardinality(gone)
        /\ next.next_id = res.next_id + Len(new) /\ next.types = types
        /\ next = [modules |-> next.modules, stale |-> next.stale,
                   next_id |-> next.next_id, types |-> next.types]
    <3> HIDE DEF modules, types, new, gone
    <3>1. next = [modules |-> modules, stale |-> res.stale + Cardinality(gone),
                  next_id |-> res.next_id + Len(new), types |-> types]
      BY <1>1, <1>13 DEF modules, types
    <3> QED
      BY <3>1
  <2>2. /\ gone \subseteq old
        /\ \A k \in left : k.name \notin keep /\ k.deps \cap (keep \cup {j.name : j \in gone}) = {}
        /\ \A G \in SUBSET old :
              (\A k \in old \ G : k.name \notin keep /\ k.deps \cap (keep \cup {j.name : j \in G}) = {})
              => gone \subseteq G
    <3>1. there.modules = old
      BY <1>9
    <3>2. gone = Gone(there, keep)
      OBVIOUS
    <3> HIDE DEF gone
    <3> QED
      BY <3>1, <3>2, GoneFacts
  <2>3. new \in Seq(Names) /\ Once(new) /\ ToSet(new) = keep /\ Len(new) \in Nat /\ DOMAIN new = 1 .. Len(new)
    <3>1. new \in Seq(Names) /\ Once(new) /\ ToSet(new) = A \cap keep
      BY SiftKeeps
    <3> HIDE DEF new
    <3> QED
      BY <1>2, <3>1, LenProperties
  <2> HIDE DEF gone, new
  \* None of the reused modules goes.
  <2>4. \A j \in gone : j.name \notin DOMAIN R
    <3> DEFINE G == {j \in old : j.name \notin DOMAIN R}
    <3>1. ASSUME NEW k \in old \ G
          PROVE  k.name \notin keep /\ k.deps \cap (keep \cup {j.name : j \in G}) = {}
      <4>1. k.name \in DOMAIN R /\ k \in old
        OBVIOUS
      <4>2. PICK j \in res.modules : SameKept(k, j)
        BY <1>8, <4>1
      <4>3. R[k.name] = j
        BY <1>4, <1>5, <4>1, <4>2 DEF SameKept, Fitting
      <4>4. k.deps \subseteq DOMAIN R
        BY <1>4, <4>1, <4>2, <4>3 DEF SameKept
      <4>5. \A x \in keep : x \notin DOMAIN R
        BY <1>2
      <4>6. \A x \in {i.name : i \in G} : x \notin DOMAIN R
        OBVIOUS
      <4> HIDE DEF G
      <4> QED
        BY <4>1, <4>4, <4>5, <4>6
    <3>2. G \in SUBSET old
      OBVIOUS
    <3> HIDE DEF G
    <3>3. gone \subseteq G
      BY <2>2, <3>1, <3>2
    <3> QED
      BY <3>3 DEF G
  <2>5. types \in Nat /\ res.types <= types /\ \A m \in keep : top(m) \in 0 .. types
    <3>1. order \in Seq(Names)
      BY OrderIsSeq
    <3> HIDE DEF order
    <3>2. /\ types \in Nat /\ res.types <= types
          /\ \A m \in keep : top(m) \in Nat /\ top(m) <= types
      BY <1>5, <3>1, RewindAboveMarks
    <3>3. \A m \in keep : 0 <= top(m)
      <4> HIDE DEF top
      <4> QED
        BY <3>2
    <3> HIDE DEF top, types
    <3> QED
      BY <3>2, <3>3
  <2> HIDE DEF types, top
  <2>6. ASSUME NEW i \in 1 .. Len(new)
        PROVE  /\ KeptOK(kept(i)) /\ new[i] \in keep
               /\ kept(i).id = res.next_id + i /\ kept(i).name = new[i]
               /\ kept(i).deps = Deps(new[i]) /\ kept(i).checker = check[new[i]]
               /\ kept(i).top = top(new[i])
               /\ \A d \in Deps(new[i]) : check[new[i]].imported[d] = check[d]
    <3> DEFINE m == new[i]
               c == check[m]
               imported == [d \in Deps(m) |-> check[d]]
               deferred == lenient /\ c.deferred
    <3>1. m \in keep /\ m \in A /\ m \in Names /\ disk[m] \in Texts[m]
      <4>1. m \in ToSet(new)
        BY <2>3, ToSetIs
      <4> QED
        BY <1>2, <2>3, <4>1 DEF Closed, DiskOK
    <3>2. (m \in session) = FALSE /\ ~c.error /\ ~c.warning /\ ~c.hollow
      BY <1>2, <3>1
    <3>3. c = Checker(m, disk[m], lenient, FALSE, imported)
      <4>1. c = Checker(m, disk[m], lenient, m \in session, imported)
        BY <1>3, <3>1
      <4> HIDE DEF imported, c
      <4> QED
        BY <3>2, <4>1
    <3>4. c.imported = imported /\ c.deferred \in BOOLEAN
      <4> DEFINE no == FALSE
      <4>1. c = Checker(m, disk[m], lenient, no, imported)
        BY <3>3
      <4> HIDE DEF c, imported, m, no
      <4> QED
        BY <4>1, CheckerFields
    <3>5. imported = [d \in Deps(m) |-> imported[d]] /\ \A d \in Deps(m) : imported[d] = check[d]
      OBVIOUS
    <3> DEFINE k == kept(i)
    <3>6. /\ k.id = res.next_id + i /\ k.name = m /\ k.src = disk[m] /\ k.deferred = deferred
          /\ k.deps = Deps(m) /\ k.lowered = lowered[m] /\ k.checker = c /\ k.top = top(m)
          /\ DOMAIN k = KeptFields /\ k = [f \in KeptFields |-> k[f]]
      BY DEF KeptFields
    <3>7. lowered[m] \in {NoCore, Core(c)}
      BY <3>1
    <3> HIDE DEF k, imported, c, lowered, m
    <3>8. deferred \in BOOLEAN /\ (deferred => c.deferred)
      BY <3>4
    <3>9. c = Checker(m, disk[m], deferred, FALSE, imported)
      <4>1. CASE deferred = lenient
        <5> HIDE DEF deferred
        <5> QED
          BY <3>3, <4>1
      <4>2. CASE deferred # lenient
        <5>1. lenient => ~c.deferred
          BY <3>4, <4>2
        <5> DEFINE no == FALSE
        <5>2. c = Checker(m, disk[m], lenient, no, imported)
          BY <3>3
        <5> HIDE DEF no, deferred
        <5>3. Checker(m, disk[m], deferred, no, imported) = c
          BY <3>2, <3>8, <5>1, <5>2, StrictIsLenient
        <5> QED
          BY <5>3 DEF no
      <4> QED
        BY <4>1, <4>2
    <3> HIDE DEF deferred
    <3>10. KeptOK(k)
      BY <3>1, <3>2, <3>4, <3>5, <3>6, <3>7, <3>8, <3>9 DEF KeptOK, Deps
    <3> QED
      BY <3>1, <3>4, <3>5, <3>6, <3>10 DEF k, c, m
  <2>7. \A j \in added : \E i \in 1 .. Len(new) : j = kept(i)
    <3> HIDE DEF kept
    <3> QED
      BY <2>3
  <2>8. \A i \in 1 .. Len(new) : kept(i) \in added
    <3> HIDE DEF kept
    <3> QED
      BY <2>3
  <2> HIDE DEF added, kept
  <2>9. /\ \A j \in left : j \in old /\ j.name \notin keep /\ j.id \in 1 .. res.next_id
        /\ \A j \in added : /\ KeptOK(j) /\ j.name \in keep /\ j.id \notin 1 .. res.next_id
                            /\ j.id \in 1 .. res.next_id + Len(new) /\ j.top \in 0 .. types
    <3>1. \A j \in left : j \in old /\ j.name \notin keep /\ j.id \in 1 .. res.next_id
      BY <1>10, <2>2
    <3>2. ASSUME NEW i \in 1 .. Len(new)
          PROVE  /\ KeptOK(kept(i)) /\ kept(i).name \in keep /\ kept(i).id \notin 1 .. res.next_id
                 /\ kept(i).id \in 1 .. res.next_id + Len(new) /\ kept(i).top \in 0 .. types
      <4>1. res.next_id + i \notin 1 .. res.next_id /\ res.next_id + i \in 1 .. res.next_id + Len(new)
        BY <1>5, <2>3
      <4> QED
        BY <2>5, <2>6, <4>1
    <3> QED
      BY <2>7, <3>1, <3>2
  <2>10. \A k, j \in added : (k.name = j.name => k = j) /\ (k.id = j.id => k = j)
    <3>1. SUFFICES ASSUME NEW h \in 1 .. Len(new), NEW i \in 1 .. Len(new)
                   PROVE  /\ kept(h).name = kept(i).name => kept(h) = kept(i)
                          /\ kept(h).id = kept(i).id => kept(h) = kept(i)
      BY <2>7
    <3>2. kept(h).name = kept(i).name => h = i
      BY <2>3, <2>6 DEF Once
    <3>3. kept(h).id = kept(i).id => h = i
      BY <1>5, <2>3, <2>6
    <3> QED
      BY <3>2, <3>3
  <2>11. \A k \in left : \A d \in k.deps : \E j \in modules : j.name = d /\ j.checker = k.checker.imported[d]
    <3>1. SUFFICES ASSUME NEW k \in left, NEW d \in k.deps
                   PROVE  \E j \in modules : j.name = d /\ j.checker = k.checker.imported[d]
      OBVIOUS
    <3>2. PICK j \in old : j.name = d /\ j.checker = k.checker.imported[d]
      BY <1>7, <2>9 DEF Fitting
    <3>3. j \notin gone
      BY <2>2, <3>1, <3>2
    <3> QED
      BY <3>2, <3>3
  <2>12. \A k \in added : \A d \in k.deps : \E j \in modules : j.name = d /\ j.checker = k.checker.imported[d]
    <3>1. SUFFICES ASSUME NEW i \in 1 .. Len(new), NEW d \in Deps(new[i])
                   PROVE  \E j \in modules : j.name = d /\ j.checker = kept(i).checker.imported[d]
      BY <2>6, <2>7
    <3>2. kept(i).checker.imported[d] = check[d] /\ (d \in DOMAIN R \/ d \in keep)
      BY <1>2, <2>6
    <3>3. CASE d \in keep
      <4>1. PICK h \in 1 .. Len(new) : new[h] = d
        BY <2>3, <3>3, ToSetIs
      <4> QED
        BY <2>6, <2>8, <3>2, <4>1
    <3>4. CASE d \in DOMAIN R
      <4>1. R[d] \in res.modules /\ R[d].name = d /\ R[d].checker = check[d]
        BY <1>4, <3>4
      <4>2. PICK j \in old : SameKept(j, R[d])
        BY <1>8, <4>1
      <4>3. j.name = d /\ j.checker = check[d]
        BY <4>1, <4>2 DEF SameKept
      <4>4. j \notin gone
        BY <2>4, <3>4, <4>3
      <4> QED
        BY <3>2, <4>3, <4>4
    <3> QED
      BY <3>2, <3>3, <3>4
  <2>13. IsFiniteSet(modules) /\ Cardinality(gone) \in Nat
    <3> DEFINE f == [i \in 1 .. Len(new) |-> kept(i)]
    <3>1. f \in [1 .. Len(new) -> added] /\ \A j \in added : \E i \in 1 .. Len(new) : f[i] = j
      BY <2>7, <2>8
    <3> HIDE DEF f
    <3>2. f \in Surjection(1 .. Len(new), added)
      BY <3>1, Fun_IsSurj
    <3>3. IsFiniteSet(1 .. Len(new))
      BY <2>3, FS_Interval
    <3>4. IsFiniteSet(added)
      BY <3>2, <3>3, FS_Surjection
    <3>5. IsFiniteSet(left) /\ IsFiniteSet(gone)
      BY <1>7, <2>2, FS_Subset
    <3> QED
      BY <3>4, <3>5, FS_Union, FS_CardinalityType
  <2>14. Fitting(modules)
    <3>1. \A k \in modules : KeptOK(k)
      BY <1>7, <2>9 DEF Fitting
    <3>2. \A k, j \in modules : (k.name = j.name => k = j) /\ (k.id = j.id => k = j)
      <4>1. \A k, j \in left : (k.name = j.name => k = j) /\ (k.id = j.id => k = j)
        BY <1>7, <2>9 DEF Fitting
      <4>2. \A k \in left, j \in added : k.name # j.name /\ k.id # j.id
        BY <2>9
      <4> HIDE DEF left
      <4> QED
        BY <2>10, <4>1, <4>2
    <3>3. \A k \in modules : \A d \in k.deps : \E j \in modules : j.name = d /\ j.checker = k.checker.imported[d]
      BY <2>11, <2>12
    <3> HIDE DEF modules
    <3> QED
      BY <3>1, <3>2, <3>3 DEF Fitting
  <2>15. \A k \in modules : k.id \in 1 .. res.next_id + Len(new) /\ k.top \in 0 .. types
    <3>1. ASSUME NEW k \in left PROVE k.id \in 1 .. res.next_id + Len(new) /\ k.top \in 0 .. types
      <4>1. k.id \in 1 .. res.next_id /\ k.top \in 0 .. res.types
        BY <1>10, <2>9
      <4> QED
        BY <1>5, <2>3, <2>5, <4>1
    <3> QED
      BY <2>9, <3>1
  <2>16. ResOK(next)
    <3>1. /\ next.stale \in Nat /\ next.next_id \in Nat /\ next.types \in Nat
          /\ next.next_id = res.next_id + Len(new)
      BY <1>5, <2>1, <2>3, <2>5, <2>13
    <3> HIDE DEF modules
    <3> QED
      BY <2>1, <2>13, <2>14, <2>15, <3>1 DEF ResOK
  <2>17. Descends(next, res)
    <3>1. next.next_id >= res.next_id
      BY <1>5, <2>1, <2>3
    <3>2. ASSUME NEW j \in modules, j.id <= res.next_id PROVE \E k \in res.modules : k.id = j.id /\ k.checker = j.checker
      <4>1. j \notin added
        BY <1>5, <2>3, <2>9, <3>2
      <4> QED
        BY <1>11, <2>9, <4>1
    <3> HIDE DEF modules
    <3> QED
      BY <2>1, <3>1, <3>2 DEF Descends
  <2> QED
    BY <2>16, <2>17
<1> QED
  BY <1>12, <1>13

-----------------------------------------------------------------------------
(***************************************************************************)
(* The inductive invariant.  Besides what is kept and what was compiled,   *)
(* it says what an id stands for: until the resident set is emptied, one   *)
(* Core, wherever that id is found.                                        *)
(***************************************************************************)
CompiledOK ==
  /\ compiled.ids \in Seq(Nat) /\ Len(compiled.cores) = Len(compiled.ids)
  /\ PrefixClosed

PrefixOK ==
  /\ prefix.ids \in Seq(Nat \ {0})
  /\ prefix.cores = [j \in 1 .. Len(prefix.ids) |-> prefix.cores[j]]

\* Every id with the Core it is found with.
ResidentCores(modules) == {<<k.id, Core(k.checker)>> : k \in modules}
CompiledCores(c) == {<<c.ids[i], c.cores[i]>> : i \in {i \in 1 .. Len(c.ids) : c.ids[i] # 0}}
PrefixCores(p) == {<<p.ids[j], p.cores[j]>> : j \in 1 .. Len(p.ids)}

OneCoreEach(pairs, n) ==
  /\ \A p \in pairs : p[1] \in 1 .. n
  /\ \A p, q \in pairs : p[1] = q[1] => p[2] = q[2]

SerialOK ==
  OneCoreEach(ResidentCores(resident.modules) \cup CompiledCores(compiled) \cup PrefixCores(prefix),
              resident.next_id)

ResidentInv ==
  /\ DiskOK /\ ResOK(resident)
  /\ CompiledOK /\ PrefixOK
  /\ emptied \in BOOLEAN /\ (emptied \/ SerialOK)

\* The length of a sequence given place by place.
LEMMA LenIs ==
  ASSUME NEW n \in Nat, NEW f, f = [i \in 1 .. n |-> f[i]]
  PROVE  Len(f) = n /\ DOMAIN f = 1 .. n
<1> DEFINE S == {f[i] : i \in 1 .. n}
<1>1. f \in [1 .. n -> S] /\ DOMAIN f = 1 .. n
  OBVIOUS
<1> HIDE DEF S
<1>2. f \in Seq(S)
  BY <1>1, SeqDef
<1>3. Len(f) \in Nat /\ DOMAIN f = 1 .. Len(f)
  BY <1>2, LenProperties
<1> QED
  BY <1>1, <1>3

\* Putting the root first loses no module.
LEMMA RootFirstHasAll ==
  ASSUME NEW sources \in Seq(Names), NEW root \in ToSet(sources)
  PROVE  /\ RootFirst(root, sources) \in Seq(Names)
         /\ ToSet(RootFirst(root, sources)) = ToSet(sources)
<1>1. /\ Sift(sources, Names \ {root}) \in Seq(Names)
      /\ ToSet(Sift(sources, Names \ {root})) = ToSet(sources) \cap (Names \ {root})
  BY SiftKeeps
<1>2. ToSet(sources) \subseteq Names
  BY ToSetIs
<1>3. <<root>> \in Seq(Names) /\ ToSet(<<root>>) = {root}
  BY <1>2 DEF ToSet
<1> DEFINE s == <<root>>
           t == Sift(sources, Names \ {root})
<1>4. RootFirst(root, sources) = s \o t
  BY DEF RootFirst
<1>5. s \in Seq(Names) /\ t \in Seq(Names) /\ ToSet(s) \cup ToSet(t) = ToSet(sources)
  BY <1>1, <1>2, <1>3
<1> HIDE DEF s, t
<1>6. s \o t \in Seq(Names) /\ ToSet(s \o t) = ToSet(s) \cup ToSet(t)
  BY <1>5, ToSetConcat
<1> QED
  BY <1>4, <1>5, <1>6

\* What a compile hands on of the modules it reused is their Core, with the
\* ids they were kept under.
HandsOn(c, order, R) ==
  /\ c.ids \in Seq(Nat) /\ Len(c.cores) = Len(c.ids) /\ Len(c.ids) = Len(order)
  /\ DOMAIN c.ids = 1 .. Len(order)
  /\ \A i \in 1 .. Len(order) :
       IF order[i] \in DOMAIN R
       THEN c.ids[i] = R[order[i]].id /\ c.ids[i] # 0 /\ c.cores[i] = Core(R[order[i]].checker)
       ELSE c.ids[i] = 0

\* It is so of the Core and ids that a compile gathers.
LEMMA HandsOnReused ==
  ASSUME DiskOK, NEW res, ResOK(res), NEW sources, Closed(ToSet(sources)),
         NEW lenient, NEW session,
         NEW R, ReusedOK(R, res, sources, lenient, session),
         NEW check, check = Checkers(sources, lenient, session, R),
         NEW order \in Seq(Names), ToSet(order) = ToSet(sources),
         NEW c, c = [cores |-> Desugar(order, R, check), ids |-> KeptIds(order, R)]
  PROVE  HandsOn(c, order, R)
<1> DEFINE n == Len(order)
<1>1. n \in Nat /\ DOMAIN order = 1 .. n /\ \A i \in 1 .. n : order[i] \in ToSet(sources)
  BY LenProperties, ToSetIs
<1>2. /\ c.cores = Desugar(order, R, check) /\ c.ids = KeptIds(order, R)
  OBVIOUS
<1>3. c.cores = [i \in 1 .. n |->
        IF order[i] \in DOMAIN R /\ R[order[i]].lowered # NoCore
        THEN R[order[i]].lowered ELSE Core(check[order[i]])]
  BY <1>1, <1>2 DEF Desugar
<1>4. c.ids = [i \in 1 .. n |-> IF order[i] \in DOMAIN R THEN R[order[i]].id ELSE 0]
  BY <1>1, <1>2 DEF KeptIds
<1>5. ASSUME NEW m \in DOMAIN R
      PROVE  /\ R[m].id \in Nat \ {0} /\ R[m].lowered \in {NoCore, Core(R[m].checker)}
             /\ check[m] = R[m].checker
  <2>1. R[m] \in res.modules /\ m \in ToSet(sources)
    BY DEF ReusedOK
  <2>2. R[m].id \in 1 .. res.next_id /\ KeptOK(R[m]) /\ res.next_id \in Nat
    BY <2>1 DEF ResOK, Fitting
  <2>3. check[m] = R[m].checker
    <3>1. \A x \in ToSet(sources) :
            check[x] = IF x \in DOMAIN R THEN R[x].checker
                       ELSE Checker(x, disk[x], lenient, x \in session, [d \in Deps(x) |-> check[d]])
      BY CheckersAre
    <3> QED
      BY <2>1, <3>1
  <2> QED
    BY <2>2, <2>3 DEF KeptOK
<1>6. ASSUME NEW i \in 1 .. n
      PROVE  IF order[i] \in DOMAIN R
             THEN c.ids[i] = R[order[i]].id /\ c.ids[i] # 0 /\ c.cores[i] = Core(R[order[i]].checker)
             ELSE c.ids[i] = 0
  <2> DEFINE m == order[i]
  <2>1. /\ c.cores[i] = IF m \in DOMAIN R /\ R[m].lowered # NoCore THEN R[m].lowered ELSE Core(check[m])
        /\ c.ids[i] = IF m \in DOMAIN R THEN R[m].id ELSE 0
    BY <1>3, <1>4
  <2> HIDE DEF m
  <2>2. m \in DOMAIN R => c.ids[i] = R[m].id /\ c.ids[i] # 0 /\ c.cores[i] = Core(R[m].checker)
    <3>1. SUFFICES ASSUME m \in DOMAIN R
                   PROVE  c.ids[i] = R[m].id /\ c.ids[i] # 0 /\ c.cores[i] = Core(R[m].checker)
      OBVIOUS
    <3>2. /\ R[m].id \in Nat \ {0} /\ R[m].lowered \in {NoCore, Core(R[m].checker)}
          /\ check[m] = R[m].checker
      BY <1>5, <3>1
    <3> QED
      BY <2>1, <3>1, <3>2
  <2> QED
    BY <2>1, <2>2 DEF m
<1>7. \A i \in 1 .. n : c.ids[i] \in Nat
  BY <1>4, <1>5
<1>8. c.ids = [i \in 1 .. n |-> c.ids[i]] /\ c.cores = [i \in 1 .. n |-> c.cores[i]]
  <2>1. c.ids = [i \in 1 .. n |-> c.ids[i]]
    BY <1>4
  <2>2. c.cores = [i \in 1 .. n |-> c.cores[i]]
    BY <1>3
  <2> QED
    BY <2>1, <2>2
<1> HIDE DEF n
<1>9. Len(c.ids) = n /\ Len(c.cores) = n /\ DOMAIN c.ids = 1 .. n
  <2> DEFINE ids == c.ids
             cores == c.cores
  <2>1. ids = [i \in 1 .. n |-> ids[i]] /\ cores = [i \in 1 .. n |-> cores[i]]
    BY <1>8
  <2> HIDE DEF ids, cores
  <2>2. Len(ids) = n /\ Len(cores) = n /\ DOMAIN ids = 1 .. n
    BY <1>1, <2>1, LenIs
  <2> QED
    BY <2>2 DEF ids, cores
<1>10. c.ids \in Seq(Nat)
  <2>1. c.ids \in [1 .. n -> Nat]
    BY <1>7, <1>8
  <2> QED
    BY <1>1, <2>1, SeqDef
<1> QED
  BY <1>6, <1>9, <1>10 DEF HandsOn, n

\* What a compile hands on as kept is closed under imports.
LEMMA HandsOnClosed ==
  ASSUME NEW res, ResOK(res), NEW sources, NEW lenient, NEW session,
         NEW R, ReusedOK(R, res, sources, lenient, session),
         NEW order \in Seq(Names), ToSet(order) = ToSet(sources),
         NEW c, HandsOn(c, order, R)
  PROVE  \A i \in DOMAIN c.ids : c.ids[i] # 0 =>
           \A d \in DOMAIN c.cores[i].decls : \E j \in DOMAIN c.ids :
             /\ c.ids[j] # 0 /\ c.cores[j].module = d
             /\ c.cores[j].text = c.cores[i].decls[d]
<1>1. SUFFICES ASSUME NEW i \in 1 .. Len(order), c.ids[i] # 0, NEW d \in DOMAIN c.cores[i].decls
               PROVE  \E j \in 1 .. Len(order) : /\ c.ids[j] # 0 /\ c.cores[j].module = d
                                                 /\ c.cores[j].text = c.cores[i].decls[d]
  BY DEF HandsOn
<1> DEFINE k == R[order[i]]
           imported == k.checker.imported
<1>2. order[i] \in DOMAIN R /\ c.cores[i] = Core(k.checker)
  BY <1>1 DEF HandsOn
<1>3. k \in res.modules /\ k.deps \subseteq DOMAIN R
  BY <1>2 DEF ReusedOK
<1> HIDE DEF k
<1>4. KeptOK(k) /\ imported = [x \in k.deps |-> imported[x]]
  BY <1>3 DEF ResOK, Fitting, KeptOK
<1>5. c.cores[i].decls = [x \in DOMAIN imported |-> imported[x].text]
  BY <1>2 DEF Core
<1>6. d \in k.deps /\ c.cores[i].decls[d] = imported[d].text
  <2> HIDE DEF imported
  <2>1. DOMAIN imported = k.deps
    BY <1>4
  <2> QED
    BY <1>1, <1>5, <2>1
<1>7. PICK j \in res.modules : j.name = d /\ j.checker = imported[d]
  BY <1>3, <1>6 DEF ResOK, Fitting
<1>8. d \in DOMAIN R /\ R[d] \in res.modules /\ R[d].name = d /\ d \in ToSet(sources)
  BY <1>3, <1>6 DEF ReusedOK
<1>9. R[d] = j
  BY <1>7, <1>8 DEF ResOK, Fitting
<1>10. PICK h \in 1 .. Len(order) : order[h] = d
  BY <1>8, ToSetIs
<1>11. c.ids[h] # 0 /\ c.cores[h] = Core(j.checker)
  BY <1>8, <1>9, <1>10 DEF HandsOn
<1>12. j.checker.module = d
  <2> DEFINE C == j.checker
             no == FALSE
             with == C.imported
  <2>1. /\ C = Checker(j.name, j.src, j.deferred, no, with)
        /\ j.deferred \in BOOLEAN
    BY <1>7 DEF ResOK, Fitting, KeptOK
  <2> HIDE DEF C, no, with
  <2>2. C.module = j.name
    BY <2>1, CheckerFields
  <2> QED
    BY <1>7, <2>2 DEF C
<1>13. c.cores[h].module = d /\ c.cores[h].text = imported[d].text
  <2> DEFINE C == j.checker
  <2>1. c.cores[h] = Core(C) /\ C.module = d /\ C.text = imported[d].text
    BY <1>7, <1>11, <1>12
  <2> HIDE DEF C, imported
  <2> QED
    BY <2>1 DEF Core
<1> QED
  BY <1>6, <1>11, <1>13

-----------------------------------------------------------------------------
(***************************************************************************)
(* What an id stands for.                                                  *)
(***************************************************************************)
LEMMA DescendsTwice ==
  ASSUME NEW a, NEW b, NEW c, ResOK(a), ResOK(b), ResOK(c), Descends(b, a), Descends(c, b)
  PROVE  Descends(c, a)
<1>1. a.next_id \in Nat /\ b.next_id \in Nat /\ c.next_id \in Nat
  BY DEF ResOK
<1>2. c.next_id >= a.next_id
  BY <1>1 DEF Descends
<1>3. ASSUME NEW j \in c.modules, j.id <= a.next_id
      PROVE  \E k \in a.modules : k.id = j.id /\ k.checker = j.checker
  <2>1. j.id \in 1 .. c.next_id /\ j.id <= b.next_id
    BY <1>1, <1>3 DEF ResOK, Descends
  <2>2. PICK k \in b.modules : k.id = j.id /\ k.checker = j.checker
    BY <2>1 DEF Descends
  <2>3. k.id <= a.next_id
    BY <1>3, <2>2
  <2> QED
    BY <2>2, <2>3 DEF Descends
<1> QED
  BY <1>2, <1>3 DEF Descends

\* The ids that the compiles after a run give are new, those they leave mean
\* what they meant.
LEMMA NewIdsAreNew ==
  ASSUME NEW a, NEW b, ResOK(a), ResOK(b), Descends(b, a),
         NEW P, NEW Q, OneCoreEach(ResidentCores(a.modules) \cup P, a.next_id),
         Q \subseteq ResidentCores(a.modules) \cup P
  PROVE  OneCoreEach(ResidentCores(b.modules) \cup Q, b.next_id)
<1> DEFINE A == ResidentCores(a.modules) \cup P
           B == ResidentCores(b.modules) \cup Q
<1>1. a.next_id \in Nat /\ b.next_id \in Nat /\ b.next_id >= a.next_id
  BY DEF ResOK, Descends
<1>2. \A p \in A : p[1] \in 1 .. a.next_id
  BY DEF OneCoreEach
<1>3. \A p \in A : \A q \in A : p[1] = q[1] => p[2] = q[2]
  BY DEF OneCoreEach
<1>4. ASSUME NEW p \in ResidentCores(b.modules)
      PROVE  /\ p[1] \in 1 .. b.next_id /\ (p[1] <= a.next_id => p \in A)
             /\ \E k \in b.modules : p[1] = k.id /\ p[2] = Core(k.checker)
  <2>1. PICK k \in b.modules : p = <<k.id, Core(k.checker)>>
    BY DEF ResidentCores
  <2>2. k.id \in 1 .. b.next_id /\ p[1] = k.id /\ p[2] = Core(k.checker)
    BY <2>1 DEF ResOK
  <2>3. p[1] <= a.next_id => p \in A
    <3>1. SUFFICES ASSUME k.id <= a.next_id PROVE p \in ResidentCores(a.modules)
      BY <2>2
    <3>2. PICK j \in a.modules : j.id = k.id /\ j.checker = k.checker
      BY <3>1 DEF Descends
    <3>3. p = <<j.id, Core(j.checker)>>
      BY <2>1, <3>2
    <3> QED
      BY <3>3 DEF ResidentCores
  <2> QED
    BY <2>2, <2>3
<1>5. \A p \in Q : p \in A
  OBVIOUS
<1> HIDE DEF A
<1>6. \A p \in B : p[1] \in 1 .. b.next_id
  BY <1>1, <1>2, <1>4, <1>5
<1>7. \A p \in B : p[1] <= a.next_id => p \in A
  BY <1>4, <1>5
<1>8. \A p \in B : ~(p[1] <= a.next_id) => p \in ResidentCores(b.modules)
  BY <1>1, <1>2, <1>5
<1>9. ASSUME NEW p \in B, NEW q \in B, p[1] = q[1] PROVE p[2] = q[2]
  <2>1. CASE p[1] <= a.next_id
    BY <1>3, <1>7, <1>9, <2>1
  <2>2. CASE ~(p[1] <= a.next_id)
    <3>1. p \in ResidentCores(b.modules) /\ q \in ResidentCores(b.modules)
      BY <1>8, <1>9, <2>2
    <3>2. PICK j \in b.modules : p[1] = j.id /\ p[2] = Core(j.checker)
      BY <1>4, <3>1
    <3>3. PICK k \in b.modules : q[1] = k.id /\ q[2] = Core(k.checker)
      BY <1>4, <3>1
    <3>4. j = k
      BY <1>9, <3>2, <3>3 DEF ResOK, Fitting
    <3> QED
      BY <3>2, <3>3, <3>4
  <2> QED
    BY <2>1, <2>2
<1> HIDE DEF B
<1>10. OneCoreEach(B, b.next_id)
  BY <1>6, <1>9 DEF OneCoreEach
<1> QED
  BY <1>10 DEF B

\* What a compile hands on has the ids and the Core of kept modules.
LEMMA HandsOnKept ==
  ASSUME NEW res, NEW sources, NEW lenient, NEW session,
         NEW R, ReusedOK(R, res, sources, lenient, session),
         NEW order, NEW c, HandsOn(c, order, R)
  PROVE  CompiledCores(c) \subseteq ResidentCores(res.modules)
<1>1. SUFFICES ASSUME NEW i \in 1 .. Len(c.ids), c.ids[i] # 0
               PROVE  <<c.ids[i], c.cores[i]>> \in ResidentCores(res.modules)
  BY DEF CompiledCores
<1>2. order[i] \in DOMAIN R /\ c.ids[i] = R[order[i]].id /\ c.cores[i] = Core(R[order[i]].checker)
  BY <1>1 DEF HandsOn
<1>3. R[order[i]] \in res.modules
  BY <1>2 DEF ReusedOK
<1> QED
  BY <1>2, <1>3 DEF ResidentCores

\* The prefix that a compile is lowered to.
LEMMA LoweredPrefix ==
  ASSUME CompiledOK, NEW p, p = [ids |-> Ids(compiled), cores |-> KeptCores(compiled)]
  PROVE  /\ p.ids \in Seq(Nat \ {0}) /\ p.cores = [j \in 1 .. Len(p.ids) |-> p.cores[j]]
         /\ PrefixCores(p) \subseteq CompiledCores(compiled)
<1> DEFINE ids == Ids(compiled)
           n == Len(ids)
<1>1. /\ p.ids = ids
      /\ p.cores = [j \in 1 .. n |-> compiled.cores[CHOOSE i \in DOMAIN compiled.ids : compiled.ids[i] = ids[j]]]
  BY DEF KeptCores
<1>2. compiled.ids \in Seq(Nat) /\ DOMAIN compiled.ids = 1 .. Len(compiled.ids)
  BY LenProperties DEF CompiledOK
<1>3. ids \in Seq(Nat) /\ ToSet(ids) = ToSet(compiled.ids) \cap (Nat \ {0})
  BY <1>2, SiftKeeps DEF Ids
<1> HIDE DEF ids
<1>4. n \in Nat /\ DOMAIN ids = 1 .. n /\ ids = [j \in 1 .. n |-> ids[j]]
  BY <1>3, LenProperties
<1>5. ASSUME NEW j \in 1 .. n
      PROVE  /\ ids[j] \in Nat \ {0}
             /\ \E i \in DOMAIN compiled.ids : compiled.ids[i] = ids[j]
  <2>1. ids[j] \in ToSet(ids)
    BY <1>3, ToSetIs
  <2>2. ids[j] \in ToSet(compiled.ids) /\ ids[j] \in Nat \ {0}
    BY <1>3, <2>1
  <2>3. \E i \in 1 .. Len(compiled.ids) : compiled.ids[i] = ids[j]
    <3> DEFINE s == compiled.ids
    <3>1. s \in Seq(Nat) /\ ids[j] \in ToSet(s)
      BY <1>2, <2>2
    <3> HIDE DEF s
    <3>2. \E i \in 1 .. Len(s) : s[i] = ids[j]
      BY <3>1, ToSetIs
    <3> QED
      BY <3>2 DEF s
  <2> QED
    BY <1>2, <2>2, <2>3
<1>6. ids \in Seq(Nat \ {0})
  <2>1. ids \in [1 .. n -> Nat \ {0}]
    BY <1>4, <1>5
  <2> QED
    BY <1>4, <2>1, SeqDef
<1>7. p.cores = [j \in 1 .. Len(p.ids) |-> p.cores[j]]
  BY <1>1
<1>8. PrefixCores(p) \subseteq CompiledCores(compiled)
  <2>1. SUFFICES ASSUME NEW j \in 1 .. n
                 PROVE  <<ids[j], p.cores[j]>> \in CompiledCores(compiled)
    BY <1>1 DEF PrefixCores
  <2> DEFINE i == CHOOSE i \in DOMAIN compiled.ids : compiled.ids[i] = ids[j]
  <2>2. i \in DOMAIN compiled.ids /\ compiled.ids[i] = ids[j]
    BY <1>5
  <2>3. p.cores[j] = compiled.cores[i]
    BY <1>1
  <2> HIDE DEF i
  <2>4. compiled.ids[i] # 0 /\ i \in 1 .. Len(compiled.ids)
    BY <1>2, <1>5, <2>2
  <2> QED
    BY <2>2, <2>3, <2>4 DEF CompiledCores
<1> QED
  BY <1>1, <1>6, <1>7, <1>8

\* Fewer ids found still have one Core each.
LEMMA FewerCores ==
  ASSUME NEW P, NEW Q, NEW n, Q \subseteq P, OneCoreEach(P, n)
  PROVE  OneCoreEach(Q, n)
  BY DEF OneCoreEach

\* After a lowering there is nothing to lower.
LEMMA NothingFacts ==
  /\ Nothing.ids = <<>> /\ Nothing.cores = <<>> /\ <<>> \in Seq(Nat) /\ <<>> \in Seq(Nat \ {0})
  /\ Len(<<>>) = 0 /\ DOMAIN <<>> = {}
  /\ CompiledCores(Nothing) = {}
<1>1. Nothing.ids = <<>> /\ Nothing.cores = <<>> /\ Len(<<>>) = 0 /\ DOMAIN <<>> = {}
  BY DEF Nothing
<1>2. <<>> \in Seq(Nat) /\ <<>> \in Seq(Nat \ {0})
  BY EmptySeq
<1> QED
  BY <1>1, <1>2 DEF CompiledCores

\* Two prefixes of the same ids are the same prefix.
LEMMA SerialLowering ==
  ASSUME CompiledOK, PrefixOK, SerialOK
  PROVE  PrefixIsLowering
<1> SUFFICES ASSUME Ids(compiled) = prefix.ids PROVE prefix.cores = KeptCores(compiled)
  BY DEF PrefixIsLowering
<1> DEFINE p == [ids |-> Ids(compiled), cores |-> KeptCores(compiled)]
           P == ResidentCores(resident.modules) \cup CompiledCores(compiled) \cup PrefixCores(prefix)
<1>1. p.ids = prefix.ids /\ p.cores = KeptCores(compiled)
  OBVIOUS
<1> HIDE DEF p
<1>2. /\ p.cores = [j \in 1 .. Len(p.ids) |-> p.cores[j]]
      /\ PrefixCores(p) \subseteq CompiledCores(compiled)
  BY LoweredPrefix DEF p
<1>3. ASSUME NEW j \in 1 .. Len(prefix.ids) PROVE p.cores[j] = prefix.cores[j]
  <2> DEFINE a == <<prefix.ids[j], p.cores[j]>>
             b == <<prefix.ids[j], prefix.cores[j]>>
  <2>1. a \in PrefixCores(p) /\ b \in PrefixCores(prefix)
    BY <1>1 DEF PrefixCores
  <2>2. a \in P /\ b \in P /\ a[1] = b[1] /\ a[2] = p.cores[j] /\ b[2] = prefix.cores[j]
    BY <1>2, <2>1
  <2> HIDE DEF a, b
  <2> QED
    BY <2>2 DEF SerialOK, OneCoreEach
<1> QED
  BY <1>1, <1>2, <1>3 DEF PrefixOK

-----------------------------------------------------------------------------
(***************************************************************************)
(* The invariant holds at the start and after every step.                  *)
(***************************************************************************)
\* That the next resident set fits together is that the resident set will.
LEMMA SameResident ==
  ASSUME ResOK(resident')
  PROVE  ResOK(resident)'
  BY DEF ResOK, Fitting, KeptOK

LEMMA ResidentInit == Init => ResidentInv
<1> SUFFICES ASSUME Init PROVE ResidentInv
  OBVIOUS
<1>1. DiskOK /\ resident = Fresh /\ prefix = NoPrefix /\ compiled = Nothing /\ emptied = FALSE
  BY DEF Init, DiskOK
<1>2. ResOK(resident) /\ resident.modules = {}
  BY <1>1, FreshOK DEF Fresh
<1>3. CompiledOK
  BY <1>1, NothingFacts DEF CompiledOK, PrefixClosed
<1>4. PrefixOK /\ PrefixCores(prefix) = {}
  <2>1. prefix.ids = <<>> /\ prefix.cores = <<>>
    BY <1>1 DEF NoPrefix
  <2>2. <<>> = [j \in 1 .. 0 |-> <<>>[j]]
    OBVIOUS
  <2> QED
    BY <2>1, <2>2, NothingFacts DEF PrefixOK, PrefixCores
<1>5. SerialOK
  <2>1. ResidentCores(resident.modules) = {} /\ CompiledCores(compiled) = {}
    BY <1>1, <1>2, NothingFacts DEF ResidentCores
  <2> QED
    BY <1>4, <2>1 DEF SerialOK, OneCoreEach
<1> QED
  BY <1>1, <1>2, <1>3, <1>4, <1>5 DEF ResidentInv

\* A compile, of any root and asked for in any way.
LEMMA CompileStep ==
  ASSUME ResidentInv, NEW root \in Roots, NEW lenient \in BOOLEAN, NEW asSession \in BOOLEAN,
         Compile(root, lenient, asSession)
  PROVE  ResidentInv'
<1> DEFINE sources == Load(root)
           session == IF asSession THEN {root} ELSE {}
           res == TakeResident(resident)
           reused == Reusable(res, sources, lenient, session)
           checkers == Checkers(sources, lenient, session, reused)
           failed == Errors(sources, reused, checkers) # {}
           once == DropRun(res, sources, lenient, session, reused, ~failed)
           again == TakeResident(once)
           fewer == Reusable(again, sources, FALSE, session)
           twice == DropRun(again, sources, FALSE, session, fewer, FALSE)
           order == RootFirst(root, sources)
           handed == [cores |-> Desugar(order, reused, checkers), ids |-> KeptIds(order, reused)]
           torn == Torn(sources)
<1>1. /\ emptied' = (emptied \/ res # resident \/ (failed /\ lenient /\ ~torn /\ again # once))
      /\ resident' = IF torn THEN res ELSE IF failed /\ lenient THEN twice ELSE once
      /\ compiled' = IF torn \/ failed THEN Nothing ELSE handed
      /\ disk' = disk /\ prefix' = prefix
  BY Zenon DEF Compile, Compiled
<1>2. DiskOK /\ ResOK(resident) /\ CompiledOK /\ PrefixOK /\ emptied \in BOOLEAN /\ (emptied \/ SerialOK)
  BY DEF ResidentInv
<1>3. root \in Names
  BY ResidentAssumption
<1>4. sources \in Seq(Names) /\ Once(sources) /\ root \in ToSet(sources) /\ Closed(ToSet(sources))
  BY <1>2, <1>3, LoadFacts, LoadIsClosed
<1> HIDE DEF sources
<1>5. order \in Seq(Names) /\ ToSet(order) = ToSet(sources)
  BY <1>4, RootFirstHasAll
<1> HIDE DEF order, session
<1>6. ResOK(res)
  BY <1>2, TakeResidentOK
<1> HIDE DEF res
<1>7. ReusedOK(reused, res, sources, lenient, session)
  BY <1>6, ReusableIsOK
<1> HIDE DEF reused
<1>8. HandsOn(handed, order, reused)
  <2>1. checkers = Checkers(sources, lenient, session, reused)
    OBVIOUS
  <2> HIDE DEF checkers
  <2> QED
    BY <1>2, <1>4, <1>5, <1>6, <1>7, <2>1, HandsOnReused
<1> HIDE DEF checkers, handed
<1>9. ResOK(once) /\ Descends(once, res)
  <2> DEFINE desugared == ~failed
  <2>1. desugared \in BOOLEAN /\ once = DropRun(res, sources, lenient, session, reused, desugared)
    OBVIOUS
  <2> HIDE DEF desugared, once
  <2> QED
    BY <1>2, <1>4, <1>6, <1>7, <2>1, DropRunOK
<1> HIDE DEF once, failed
<1>10. ResOK(again)
  BY <1>9, TakeResidentOK
<1> HIDE DEF again
<1>11. ResOK(twice) /\ Descends(twice, again)
  <2> DEFINE no == FALSE
  <2>1. no \in BOOLEAN /\ fewer = Reusable(again, sources, no, session)
    OBVIOUS
  <2>2. twice = DropRun(again, sources, no, session, fewer, no)
    OBVIOUS
  <2> HIDE DEF no, fewer, twice
  <2>3. ReusedOK(fewer, again, sources, no, session)
    BY <1>10, <2>1, ReusableIsOK
  <2> QED
    BY <1>2, <1>4, <1>10, <2>1, <2>2, <2>3, DropRunOK
<1> HIDE DEF twice, torn
<1>12. DiskOK' /\ PrefixOK' /\ ResOK(resident)'
  <2>1. DiskOK' /\ PrefixOK'
    BY <1>1, <1>2 DEF DiskOK, PrefixOK
  <2>2. resident' \in {res, once, twice}
    BY <1>1
  <2>3. ResOK(resident')
    BY <1>6, <1>9, <1>11, <2>2
  <2> QED
    BY <2>1, <2>3, SameResident
<1>13. CompiledOK'
  <2>1. CASE torn \/ failed
    <3>1. compiled' = Nothing
      BY <1>1, <2>1
    <3> QED
      BY <3>1, NothingFacts DEF CompiledOK, PrefixClosed
  <2>2. CASE ~(torn \/ failed)
    <3>1. compiled' = handed
      BY <1>1, <2>2
    <3>2. handed.ids \in Seq(Nat) /\ Len(handed.cores) = Len(handed.ids)
      BY <1>8 DEF HandsOn
    <3>3. \A i \in DOMAIN handed.ids : handed.ids[i] # 0 =>
            \A d \in DOMAIN handed.cores[i].decls : \E j \in DOMAIN handed.ids :
              /\ handed.ids[j] # 0 /\ handed.cores[j].module = d
              /\ handed.cores[j].text = handed.cores[i].decls[d]
      BY <1>5, <1>6, <1>7, <1>8, HandsOnClosed
    <3> QED
      BY <3>1, <3>2, <3>3 DEF CompiledOK, PrefixClosed
  <2> QED
    BY <2>1, <2>2
<1>14. emptied' \in BOOLEAN
  BY <1>1, <1>2
<1>15. ASSUME ~emptied' PROVE SerialOK'
  <2> DEFINE P == CompiledCores(compiled) \cup PrefixCores(prefix)
             Q == CompiledCores(compiled') \cup PrefixCores(prefix')
  <2>1. ~emptied /\ res = resident /\ (failed /\ lenient /\ ~torn => again = once)
    BY <1>1, <1>2, <1>15
  <2>2. OneCoreEach(ResidentCores(resident.modules) \cup P, resident.next_id)
    <3>1. ResidentCores(resident.modules) \cup P
            = ResidentCores(resident.modules) \cup CompiledCores(compiled) \cup PrefixCores(prefix)
      OBVIOUS
    <3> QED
      BY <1>2, <2>1, <3>1 DEF SerialOK
  <2>3. Q \subseteq ResidentCores(resident.modules) \cup P
    <3>1. CompiledCores(compiled') \subseteq ResidentCores(resident.modules)
      <4>1. CompiledCores(handed) \subseteq ResidentCores(res.modules)
        BY <1>7, <1>8, HandsOnKept
      <4> QED
        BY <1>1, <2>1, <4>1, NothingFacts
    <3>2. PrefixCores(prefix') = PrefixCores(prefix)
      BY <1>1
    <3> QED
      BY <3>1, <3>2
  <2>4. Descends(resident', resident)
    <3>1. CASE torn
      <4>1. resident' = resident
        BY <1>1, <2>1, <3>1
      <4>2. resident.next_id \in Nat
        BY <1>2 DEF ResOK
      <4> QED
        BY <4>1, <4>2 DEF Descends
    <3>2. CASE ~torn /\ failed /\ lenient
      <4>1. resident' = twice /\ again = once
        BY <1>1, <2>1, <3>2
      <4> QED
        BY <1>2, <1>9, <1>11, <2>1, <4>1, DescendsTwice
    <3>3. CASE ~torn /\ ~(failed /\ lenient)
      BY <1>1, <1>9, <2>1, <3>3
    <3> QED
      BY <3>1, <3>2, <3>3
  <2>5. ResOK(resident')
    BY <1>1, <1>6, <1>9, <1>11
  <2> DEFINE next == resident'
  <2>6. ResOK(next) /\ Descends(next, resident)
    BY <2>4, <2>5
  <2> HIDE DEF next, P, Q
  <2>7. OneCoreEach(ResidentCores(next.modules) \cup Q, next.next_id)
    BY <1>2, <2>2, <2>3, <2>6, NewIdsAreNew
  <2>8. ResidentCores(next.modules) \cup Q
          = ResidentCores(next.modules) \cup CompiledCores(compiled') \cup PrefixCores(prefix')
    BY DEF Q
  <2> QED
    BY <2>7, <2>8 DEF SerialOK, next
<1> QED
  BY <1>12, <1>13, <1>14, <1>15 DEF ResidentInv

\* An edit changes no kept module: their texts are those they were checked
\* with.
LEMMA EditStep ==
  ASSUME ResidentInv, NEW m \in Names, Edit(m)
  PROVE  ResidentInv'
<1>1. DiskOK'
  <2>1. PICK t \in Texts[m] : disk' = [disk EXCEPT ![m] = t]
    BY DEF Edit
  <2>2. \A n \in Names : disk'[n] \in {disk[n]} \cup (IF n = m THEN {t} ELSE {})
    BY <2>1
  <2> QED
    BY <2>2 DEF ResidentInv, DiskOK
<1>2. resident' = resident /\ prefix' = prefix /\ compiled' = compiled /\ emptied' = emptied
  BY DEF Edit
<1>3. ResOK(resident)' /\ CompiledOK' /\ PrefixOK'
  <2>1. ResOK(resident) /\ CompiledOK /\ PrefixOK
    BY DEF ResidentInv
  <2>2. ResOK(resident)'
    <3>1. ResOK(resident')
      BY <1>2, <2>1
    <3> QED
      BY <3>1, SameResident
  <2>3. CompiledOK' /\ PrefixOK'
    BY <1>2, <2>1 DEF CompiledOK, PrefixClosed, PrefixOK
  <2> QED
    BY <2>2, <2>3
<1>4. SerialOK' = SerialOK
  BY <1>2 DEF SerialOK
<1> QED
  BY <1>1, <1>2, <1>3, <1>4 DEF ResidentInv

\* A lowering takes its ids and Core from the compile.
LEMMA LowerStep ==
  ASSUME ResidentInv, LowerReusing
  PROVE  ResidentInv'
<1> DEFINE p == [ids |-> Ids(compiled), cores |-> KeptCores(compiled)]
<1>1. /\ prefix' = prefix \/ prefix' = p
      /\ compiled' = Nothing /\ disk' = disk /\ resident' = resident /\ emptied' = emptied
  BY DEF LowerReusing
<1>2. DiskOK /\ ResOK(resident) /\ CompiledOK /\ PrefixOK /\ emptied \in BOOLEAN /\ (emptied \/ SerialOK)
  BY DEF ResidentInv
<1>3. /\ p.ids \in Seq(Nat \ {0}) /\ p.cores = [j \in 1 .. Len(p.ids) |-> p.cores[j]]
      /\ PrefixCores(p) \subseteq CompiledCores(compiled)
  <2>1. p = [ids |-> Ids(compiled), cores |-> KeptCores(compiled)]
    OBVIOUS
  <2> HIDE DEF p
  <2> QED
    BY <1>2, <2>1, LoweredPrefix
<1> HIDE DEF p
<1>4. DiskOK' /\ ResOK(resident)'
  <2>1. DiskOK' /\ ResOK(resident')
    BY <1>1, <1>2 DEF DiskOK
  <2> QED
    BY <2>1, SameResident
<1>5. CompiledOK'
  BY <1>1, NothingFacts DEF CompiledOK, PrefixClosed
<1>6. PrefixOK'
  BY <1>1, <1>2, <1>3 DEF PrefixOK
<1>7. SerialOK => SerialOK'
  <2> DEFINE P == ResidentCores(resident.modules) \cup CompiledCores(compiled) \cup PrefixCores(prefix)
             Q == ResidentCores(resident.modules) \cup CompiledCores(compiled') \cup PrefixCores(prefix')
  <2>1. Q \subseteq P
    <3>1. CompiledCores(compiled') = {}
      BY <1>1, NothingFacts
    <3>2. PrefixCores(prefix') \subseteq PrefixCores(prefix) \cup CompiledCores(compiled)
      BY <1>1, <1>3
    <3> QED
      BY <3>1, <3>2
  <2>2. SUFFICES ASSUME OneCoreEach(P, resident.next_id) PROVE OneCoreEach(Q, resident.next_id)
    BY <1>1 DEF SerialOK
  <2> HIDE DEF P, Q
  <2> QED
    BY <2>1, <2>2, FewerCores
<1> QED
  BY <1>1, <1>2, <1>4, <1>5, <1>6, <1>7 DEF ResidentInv

LEMMA ResidentNext == ResidentInv /\ [Next]_vars => ResidentInv'
<1> SUFFICES ASSUME ResidentInv, [Next]_vars PROVE ResidentInv'
  OBVIOUS
<1>1. ASSUME NEW m \in Names, Edit(m) PROVE ResidentInv'
  BY <1>1, EditStep
<1>2. ASSUME NEW root \in Roots, CompileFile(root) PROVE ResidentInv'
  BY <1>2, CompileStep DEF CompileFile
<1>3. ASSUME NEW root \in Roots, CompileRound(root) PROVE ResidentInv'
  BY <1>3, CompileStep DEF CompileRound
<1>4. ASSUME NEW root \in Roots, CompileSession(root) PROVE ResidentInv'
  BY <1>4, CompileStep DEF CompileSession
<1>5. CASE LowerReusing
  BY <1>5, LowerStep
<1>6. CASE UNCHANGED vars
  <2>1. /\ disk' = disk /\ resident' = resident /\ prefix' = prefix
        /\ compiled' = compiled /\ emptied' = emptied
    BY <1>6 DEF vars
  <2>2. DiskOK' /\ ResOK(resident)' /\ CompiledOK' /\ PrefixOK'
    <3>1. DiskOK /\ ResOK(resident) /\ CompiledOK /\ PrefixOK
      BY DEF ResidentInv
    <3>2. DiskOK' /\ CompiledOK' /\ PrefixOK'
      BY <2>1, <3>1 DEF DiskOK, CompiledOK, PrefixClosed, PrefixOK
    <3>3. ResOK(resident')
      BY <2>1, <3>1
    <3> QED
      BY <3>2, <3>3, SameResident
  <2>3. SerialOK' = SerialOK
    BY <2>1 DEF SerialOK
  <2> QED
    BY <2>1, <2>2, <2>3 DEF ResidentInv
<1> QED
  BY <1>1, <1>2, <1>3, <1>4, <1>5, <1>6 DEF Next

\* The invariant that the theorems below are read off.
THEOREM ResidentInvariant == Spec => []ResidentInv
<1> QED
  BY ResidentInit, ResidentNext, PTL DEF Spec

-----------------------------------------------------------------------------
(***************************************************************************)
(* What it shows.                                                          *)
(***************************************************************************)
\* The kept modules are well formed, their ids below the next one to give, and
\* a compile hands on an id for each Core (Resident and Kept in resident.rs).
THEOREM ResidentType == Spec => []TypeOK
<1>1. ResidentInv => TypeOK
  <2> SUFFICES ASSUME ResidentInv PROVE TypeOK
    OBVIOUS
  <2>1. DiskOK /\ ResOK(resident) /\ CompiledOK /\ PrefixOK /\ emptied \in BOOLEAN
    BY DEF ResidentInv
  <2>2. ASSUME NEW k \in resident.modules
        PROVE  /\ k.id \in 1 .. resident.next_id
               /\ k.name \in Names /\ k.src \in Texts[k.name]
               /\ k.deferred \in BOOLEAN /\ k.deps \subseteq Names
    <3>1. KeptOK(k) /\ k.id \in 1 .. resident.next_id
      BY <2>1 DEF ResOK, Fitting
    <3>2. k.src.imports \in Seq(Names) /\ Prelude \subseteq Names
      BY <3>1, ResidentAssumption DEF KeptOK
    <3>3. k.deps \subseteq Names
      <4>1. ToSet(k.src.imports) \subseteq Names
        BY <3>2, ToSetIs
      <4> QED
        BY <3>1, <3>2, <4>1 DEF KeptOK, Needs
    <3> QED
      BY <3>1, <3>3 DEF KeptOK
  <2>3. Len(prefix.ids) = Len(prefix.cores)
    <3> DEFINE n == Len(prefix.ids)
               f == prefix.cores
    <3>1. n \in Nat
      BY <2>1, LenProperties DEF PrefixOK
    <3>2. f = [j \in 1 .. n |-> f[j]]
      BY <2>1 DEF PrefixOK
    <3> HIDE DEF n, f
    <3>3. Len(f) = n
      BY <3>1, <3>2, LenIs
    <3> QED
      BY <3>3 DEF n, f
  <2> QED
    BY <2>1, <2>2, <2>3 DEF TypeOK, DiskOK, ResOK, CompiledOK
<1> QED
  BY <1>1, ResidentInvariant, PTL

\* Whatever was edited and compiled before, a compile that reuses kept modules
\* has the checkers, errors and warnings of a compile that checks every module
\* anew (ModuleRun::check with reusable, and Drop, which decides what is kept).
THEOREM ResidentReuseIsScratch == Spec => []ReuseIsScratch
<1>1. ResidentInv => ReuseIsScratch
  BY ScratchLemma DEF ResidentInv
<1> QED
  BY <1>1, ResidentInvariant, PTL

\* There is one kept module of each name, and what a kept one imported from is
\* the kept module of that name: replacing one drops all that go with it
\* (`gone` in Drop).
THEOREM ResidentKeptCoherent == Spec => []KeptCoherent
<1>1. ResidentInv => KeptCoherent
  BY DEF ResidentInv, ResOK, Fitting, KeptCoherent
<1> QED
  BY <1>1, ResidentInvariant, PTL

\* The truncate at the end of a run leaves every type that a kept module was
\* marked with.
THEOREM ResidentRewindSparesKept == Spec => []RewindSparesKept
<1>1. ResidentInv => RewindSparesKept
  BY DEF ResidentInv, ResOK, RewindSparesKept
<1> QED
  BY <1>1, ResidentInvariant, PTL

\* The modules that a compile hands on as kept import only from each other:
\* they can be lowered first (Note [Lowering onto a lowered prefix]).
THEOREM ResidentPrefixClosed == Spec => []PrefixClosed
<1>1. ResidentInv => PrefixClosed
  BY DEF ResidentInv, CompiledOK
<1> QED
  BY <1>1, ResidentInvariant, PTL

\* As long as the resident set has not been emptied, the ids of a compile's
\* kept modules tell whether the cached prefix is their lowered form
\* (lower_reusing's key, Kept.id).
THEOREM ResidentPrefixHolds == Spec => []PrefixHoldsUntilEmptied
<1>1. ResidentInv => PrefixHoldsUntilEmptied
  BY SerialLowering DEF ResidentInv, PrefixHoldsUntilEmptied
<1> QED
  BY <1>1, ResidentInvariant, PTL

=============================================================================
