----------------------------- MODULE Usefulness -----------------------------
(***************************************************************************)
(* frontend/src/typing/usefulness.rs: whether a match covers every value,  *)
(* by Maranget's usefulness over a matrix of patterns.  The answer is kept *)
(* and the witness that a diagnostic shows is not; sequence steps are left *)
(* out with the sequences.                                                 *)
(***************************************************************************)
EXTENDS Integers, Sequences, SequencesExt, FiniteSets, FiniteSetsExt, Functions

\* Constructors: sib lists the arity of every variant of the union u.
VariantCtor(u, i, sib) == [k |-> "variant", u |-> u, i |-> i, sib |-> sib]
BoolCtor(b) == [k |-> "bool", b |-> b]
LitCtor(v) == [k |-> "lit", v |-> v]
IntCtor(lo, hi, dom) == [k |-> "int", lo |-> lo, hi |-> hi, dom |-> dom]
ProductCtor(ls) == [k |-> "product", ls |-> ls]

\* Patterns: an opaque one covers nothing, a product is matched by field name.
DWild == [k |-> "wild"]
DOpaque == [k |-> "opaque"]
DCtor(c, args) == [k |-> "ctor", c |-> c, args |-> args]
DProduct(ls, ps) == [k |-> "product", ls |-> ls, ps |-> ps]

Wilds(n) == [j \in 1..n |-> DWild] \o << >>

arity(c) ==
    CASE c.k = "variant" -> c.sib[c.i]
      [] c.k = "product" -> Len(c.ls)
      [] OTHER -> 0

same_family(c, d) == c.k = d.k /\ (c.k = "variant" => c.u = d.u)

same(c, d) ==
    /\ same_family(c, d)
    /\ CASE c.k = "variant" -> c.i = d.i
         [] c.k = "bool" -> c.b = d.b
         [] c.k = "lit" -> c.v = d.v
         [] c.k = "int" -> c.lo = d.lo /\ c.hi = d.hi
         [] c.k = "product" -> TRUE

\* Every constructor of c's type; none stands for infinitely many.
signature(c) ==
    CASE c.k = "variant" -> {VariantCtor(c.u, i, c.sib) : i \in DOMAIN c.sib}
      [] c.k = "bool" -> {BoolCtor(TRUE), BoolCtor(FALSE)}
      [] c.k = "product" -> {c}
      [] OTHER -> {}

\* The constructors that head column 1, first row first.
heads(rows) ==
    LET ctors == SelectSeq(rows, LAMBDA r: r[1].k = "ctor")
    IN  [i \in DOMAIN ctors |-> ctors[i][1].c] \o << >>

\* Products made positional over the column's field names; rows of another
\* family or with an opaque head cover nothing, such a head is tested as a wild.
normalize_column(rows, head) ==
    LET all == [i \in DOMAIN rows |-> rows[i][1]] \o <<head>>
        names == SetToSeq(UNION {Range(p.ls) : p \in {q \in Range(all) : q.k = "product"}})
        arg(p, l) == IF l \in Range(p.ls) THEN p.ps[CHOOSE j \in DOMAIN p.ls : p.ls[j] = l] ELSE DWild
        fix(p) ==
            IF p.k # "product" THEN p
            ELSE DCtor(ProductCtor(names), [j \in DOMAIN names |-> arg(p, names[j])] \o << >>)
        fixed == [i \in DOMAIN all |-> fix(all[i])] \o << >>
        family == heads([i \in DOMAIN fixed |-> <<fixed[i]>>])
        fits(p) == p.k # "opaque" /\ (p.k = "ctor" => same_family(p.c, family[1]))
        new == [i \in DOMAIN rows |-> <<fixed[i]>> \o Tail(rows[i])] \o << >>
        last == fixed[Len(fixed)]
    IN  [rows |-> SelectSeq(new, LAMBDA r: fits(r[1])), head |-> IF fits(last) THEN last ELSE DWild]

\* The rows that match constructor c in column 1, that column replaced by c's
\* arguments.
specialize(rows, c) ==
    LET kept == SelectSeq(rows, LAMBDA r: r[1].k = "ctor" => same(r[1].c, c))
        args(p) == IF p.k = "ctor" THEN p.args ELSE Wilds(arity(c))
    IN  [i \in DOMAIN kept |-> args(kept[i][1]) \o Tail(kept[i])] \o << >>

\* lo..hi cut at every boundary of the ranges.
segments(lo, hi, ranges) ==
    LET cuts == {lo, hi + 1} \cup {x \in UNION {{r.lo, r.hi + 1} : r \in ranges} : lo < x /\ x <= hi}
    IN  {<<a, Min({b \in cuts : b > a}) - 1>> : a \in cuts \ {Max(cuts)}}

RECURSIVE useful(_, _), useful_ints(_, _, _, _)

\* Whether v matches some value that no row matches.
useful(rows0, v) ==
    IF v = << >> THEN rows0 = << >>
    ELSE LET n == normalize_column(rows0, Head(v))
             rows == n.rows
             cs == heads(rows)
             sig == IF cs = << >> THEN {} ELSE signature(cs[1])
             missing == {c \in sig : \A i \in DOMAIN cs : ~same(cs[i], c)}
             default == SelectSeq(rows, LAMBDA r: r[1].k = "wild")
             doms == {c.dom : c \in {d \in Range(heads(Append(rows, <<n.head>>))) : d.k = "int"}}
         IN  IF doms # {} THEN useful_ints(rows, n.head, Tail(v), CHOOSE d \in doms : TRUE)
             ELSE IF n.head.k = "ctor" THEN useful(specialize(rows, n.head.c), n.head.args \o Tail(v))
             ELSE IF sig # {} /\ missing = {}
             THEN \E c \in sig : useful(specialize(rows, c), Wilds(arity(c)) \o Tail(v))
             ELSE useful([i \in DOMAIN default |-> Tail(default[i])] \o << >>, Tail(v))

\* A column of integer ranges: each segment lies inside or outside every range.
useful_ints(rows, head, rest, dom) ==
    LET span == IF head.k = "ctor" THEN <<head.c.lo, head.c.hi>> ELSE dom
        inside(r, seg) == r[1].k = "ctor" => r[1].c.lo <= seg[1] /\ seg[2] <= r[1].c.hi
    IN  \E seg \in segments(span[1], span[2], Range(heads(rows))) :
            LET kept == SelectSeq(rows, LAMBDA r: inside(r, seg))
            IN  useful([i \in DOMAIN kept |-> Tail(kept[i])] \o << >>, rest)

\* Whether arms [alts, guarded] cover every value: a guarded arm covers nothing.
covers_all(arms) ==
    LET plain == SelectSeq(arms, LAMBDA a: ~a.guarded)
        rows == FlattenSeq([i \in DOMAIN plain |-> [j \in DOMAIN plain[i].alts |-> <<plain[i].alts[j]>>]])
    IN  ~useful(rows, <<DWild>>)
=============================================================================
