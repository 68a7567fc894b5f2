------------------------------ MODULE Patterns ------------------------------
(***************************************************************************)
(* frontend/src/typing/patterns.rs: a pattern against its scrutinee's type *)
(* and the coverage of a match.  The place of child i is Append(at, i), of *)
(* a record pattern's rest Append(at, 0); the type of an integer pattern   *)
(* and the union of a variant's are noted for dpat.                        *)
(***************************************************************************)
EXTENDS Declarations, Usefulness

\* bound: the code's @Int and @Nat have 64 bits.
Wide == 2 ^ 30

Idx(s) == [i \in DOMAIN s |-> i]

\* The range of a built-in integer type, none for another.
int_type_domain(c, t) ==
    LET r == resolve(c, t)
        doms == ("@Int8" :> <<-128, 127>>) @@ ("@Nat8" :> <<0, 255>>) @@ ("@Int" :> <<-Wide, Wide - 1>>) @@ ("@Nat" :> <<0, Wide>>)
    IN  IF r.k = "con" /\ r.n \in DOMAIN doms THEN {doms[r.n]} ELSE {}

is_int_scalar(c, t) == int_type_domain(c, t) # {}

\* The slot that field i of a literal or a pattern names: by its label, or by i.
slot_of(ls, fs, i) == IF fs[i].l # "" THEN position(ls, fs[i].l) ELSE IF i <= Len(ls) THEN i ELSE 0

RECURSIVE type_pattern(_, _, _, _)

\* Field patterns against the slots with labels ls and types ts.
type_fields(c, fs, ls, ts, at) ==
    InTurn(LAMBDA d, i:
               LET slot == slot_of(ls, fs, i)
               IN  IF slot = 0 THEN Fail(d)
                   ELSE IF fs[i].p = None THEN scope_bind(d, <<fs[i].l>>, ts[slot])
                   ELSE type_pattern(d, fs[i].p, ts[slot], Append(at, i)), c, Idx(fs))

\* Its fields over an open tail; the rest gets the tail.
type_record_pattern(c, p, t, at) ==
    LET n == Len(p.fs)
        d == fresh_n(c, n + 1)
        new == newest_n(d, n + 1)
        want == TRecord(row_of([i \in 1..n |-> FieldDecl(p.fs[i].l, new[i + 1])], new[1]))
        e == type_fields(unify(d, t, want), p.fs, labels(p.fs), Tail(new), at)
    IN  IF ~d.ok \/ "" \in Range(labels(p.fs)) THEN Fail(d)
        ELSE IF p.rest = None THEN e
        ELSE type_pattern(e, p.rest, TRecord(new[1]), Append(at, 0))

type_struct_pattern(c, p, t, at) ==
    IF ~is_struct(c, Con(p.ty)) THEN Fail(c)
    ELSE LET i == instantiate_params(c, struct_info(c, p.ty).ps)
             fs == struct_fields(i.c, p.ty, i.args)
         IN  type_fields(unify(i.c, t, applied(p.ty, i.args)), p.fs, labels(fs), Each(LAMBDA f: f.ty, fs), at)

type_variant_pattern(c, p, t, at) ==
    LET u == IF p.ty # "" THEN p.ty ELSE find_union_for(c, p.tag, t)
        s == variant_sig(c, u, p.tag)
        d == note(unify(s.c, t, s.t), "union", at, u)
    IN  IF ~union_with_tag(c, u, p.tag) THEN Fail(c) ELSE type_fields(d, p.fs, s.ls, s.ts, at)

type_pattern(c, p, t, at) ==
    LET n == Len(p.ps)
        d == fresh_n(c, n)
        new == newest_n(d, n)
        typed == note(c, "pty", at, t)
        tuple == InTurn(LAMBDA e, i: type_pattern(e, p.ps[i], new[i], Append(at, i)), unify(d, t, TTuple(new)), Idx(p.ps))
    IN  CASE ~c.ok \/ p.k = "wild" -> c
          [] c.ok /\ p.k = "pvar" -> scope_bind(c, p.x, t)
          [] c.ok /\ p.k = "plit" /\ p.t.k = "int" ->
               LET e == [typed EXCEPT !.literals = Append(@, [t |-> t, n |-> p.t.i])]
               IN  IF is_int_scalar(e, t) THEN e ELSE unify(e, t, IntTy)
          [] c.ok /\ p.k = "plit" /\ p.t.k = "bool" -> unify(c, t, BoolTy)
          [] c.ok /\ p.k = "plit" /\ p.t.k = "str" -> unify(c, t, StrTy)
          [] c.ok /\ p.k = "prange" ->
               LET e == type_pattern(typed, PLit(p.lo), t, Append(at, 1))
               IN  IF p.hi = None THEN e ELSE type_pattern(e, PLit(p.hi), t, Append(at, 2))
          [] c.ok /\ p.k = "ptuple" -> IF d.ok THEN tuple ELSE d
          [] c.ok /\ p.k = "spstruct" -> type_struct_pattern(c, p, t, at)
          [] c.ok /\ p.k = "sprecord" -> type_record_pattern(c, p, t, at)
          [] c.ok /\ p.k = "spvariant" -> type_variant_pattern(c, p, t, at)

-----------------------------------------------------------------------------
(* Coverage. *)
RECURSIVE dpat(_, _, _)

\* A typed pattern as the usefulness check sees it.
dpat(c, p, at) ==
    LET dom == int_type_domain(c, c.notes[<<"pty", at>>])
        the == CHOOSE d \in dom : TRUE
        hi == IF p.hi = None THEN the[2] ELSE p.hi.i
        sub == [i \in DOMAIN p.fs |-> dpat(c, p.fs[i].p, Append(at, i))]
        named == SelectSeq(Idx(p.fs), LAMBDA i: p.fs[i].p # None)
        product(ls) == DProduct(Each(LAMBDA i: ls[slot_of(ls, p.fs, i)], named), Each(LAMBDA i: sub[i], named))
        union == CHOOSE u \in Range(c.unions) : u.n = c.notes[<<"union", at>>]
        ls == labels(variant_decl(c, union.n, p.tag).payload)
        arg(j) == LET is == {i \in Range(named) : slot_of(ls, p.fs, i) = j} IN IF is = {} THEN DWild ELSE sub[Max(is)]
    IN  CASE p.k \in {"wild", "pvar"} -> DWild
          [] p.k = "plit" /\ p.t.k = "int" ->
               IF dom = {} THEN DCtor(LitCtor(p.t.i), << >>)
               ELSE IF p.t.i < the[1] \/ the[2] < p.t.i THEN DOpaque
               ELSE DCtor(IntCtor(p.t.i, p.t.i, the), << >>)
          [] p.k = "plit" /\ p.t.k = "bool" -> DCtor(BoolCtor(p.t.b), << >>)
          [] p.k = "plit" /\ p.t.k = "str" -> DCtor(LitCtor(p.t.s), << >>)
          [] p.k = "prange" ->
               IF dom = {} \/ hi < p.lo.i THEN DOpaque
               ELSE DCtor(IntCtor(Max({p.lo.i, the[1]}), Min({hi, the[2]}), the), << >>)
          [] p.k = "ptuple" ->
               IF p.ps = << >> THEN DWild
               ELSE DProduct(Idx(p.ps), [i \in DOMAIN p.ps |-> dpat(c, p.ps[i], Append(at, i))] \o << >>)
          [] p.k = "spstruct" -> product(labels(struct_info(c, p.ty).fs))
          [] p.k = "sprecord" -> product(labels(p.fs))
          [] p.k = "spvariant" ->
               DCtor(VariantCtor(union.n, position(Each(LAMBDA v: v.tag, union.vs), p.tag), Each(LAMBDA v: Len(v.payload), union.vs)),
                     [j \in DOMAIN ls |-> arg(j)] \o << >>)

\* The arm's patterns are at Append(at, i + 1).
arm_alts(c, arm, at) == [i \in DOMAIN arm.pats |-> dpat(c, arm.pats[i], Append(at, i + 1))] \o << >>

check_coverage(c, t, arms, at) ==
    IF ~c.ok \/ (arms = << >> /\ is_variantless_union(c, t)) THEN c
    ELSE IF covers_all([i \in DOMAIN arms |-> [alts |-> arm_alts(c, arms[i], Append(at, i)), guarded |-> arms[i].guard # None]] \o << >>)
    THEN c ELSE Fail(c)

\* A pattern with no next arm matches every value of its type.
check_irrefutable(c, p, at) ==
    IF ~c.ok \/ covers_all(<<[alts |-> <<dpat(c, p, at)>>, guarded |-> FALSE]>>) THEN c ELSE Fail(c)
=============================================================================
