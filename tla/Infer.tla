------------------------------- MODULE Infer --------------------------------
(***************************************************************************)
(* Type inference: frontend/src/typing/algorithm_w.rs, the two modes of a  *)
(* bidirectional algorithm W with levels and effect rows, and the order in *)
(* which typing.rs checks a program's definitions.  Positions of children: *)
(* in the order written, from 1; a match's subject, a handler's or a       *)
(* lambda's body and a literal's base are at 0; an arm has its guard at 0, *)
(* its body at 1, its patterns from 2.  Left out with the forms they type: *)
(* contexts, literal hooks, operations that several effects declare, casts *)
(* and everything that only words a diagnostic.                            *)
(***************************************************************************)
EXTENDS Patterns

lookup(c, x) == IF x \in DOMAIN c.env THEN c.env[x] ELSE c.globals[x]

\* c with the ambient row and the local names of outer.
back_to(c, outer) == [leave_scope(c, outer) EXCEPT !.ambient = outer.ambient]

\* A function type's parts, making it a function type if it is unknown.
arrow_parts(c, t0) ==
    LET t == resolve(c, t0)
        d == fresh_n(c, 3)
        new == newest_n(d, 3)
    IN  IF t.k = "arrow" THEN [c |-> c, from |-> t.from, to |-> t.to, eff |-> t.eff]
        ELSE IF ~d.ok THEN [c |-> d, from |-> t, to |-> t, eff |-> t]
        ELSE [c |-> unify(d, t, arrow_eff(new[1], new[2], new[3])), from |-> new[1], to |-> new[2], eff |-> new[3]]

is_numeric(c, t) == LET r == resolve(c, t) IN r.k = "var" /\ \E n \in Range(c.numeric) : resolve(c, n) = r

\* The variables that stay as they are until the literals have their types.
pending_vars(c) == UNION {collect_vars(c, t) : t \in Range(c.numeric)}

infer_var(c, x) ==
    IF x \in DOMAIN c.env \cup DOMAIN c.globals THEN instantiate(c, lookup(c, x)) ELSE R(Fail(c), ErrorTy)

infer_field(c, t, l) ==
    LET s == spine(c, t)
        r == resolve(c, t)
        ls == labels(struct_info(c, s.head.n).fs)
        d == fresh_n(c, 2)
        new == newest_n(d, 2)
    IN  IF is_struct(c, s.head) /\ l \in Range(ls)
        THEN R(c, struct_fields(c, s.head.n, s.args)[position(ls, l)].ty)
        ELSE IF r.k = "tuple" /\ l + 1 \in DOMAIN r.ts THEN R(c, r.ts[l + 1])
        ELSE IF r.k = "record" THEN record_field(c, t, l)
        ELSE IF r.k = "var" /\ d.ok THEN R(unify(d, t, TRecord(RowField(l, new[1], new[2]))), new[1])
        ELSE R(Fail(c), ErrorTy)

\* The values become the fields of the closed record t, in order.
promote_to_record(c, values, t, at) ==
    LET fs == record_fields_of(c, t)
    IN  IF Len(fs) # Len(values) THEN Fail(c)
        ELSE note(unify_all(c, values, Each(LAMBDA f: f.ty, fs)), "promote", at, labels(fs))

\* A struct's fields as names, and which they are.
scope_struct_fields(c, t) ==
    LET s == spine(c, t)
        fs == IF is_struct(c, s.head) THEN struct_fields(c, s.head.n, s.args) ELSE << >>
    IN  [c |-> InTurn(LAMBDA d, f: scope_bind(d, <<f.l>>, f.ty), c, fs), names |-> labels(fs)]

-----------------------------------------------------------------------------
RECURSIVE infer(_, _, _), check(_, _, _, _)

\* Several expressions, at positions 1, 2, ...
infer_each(c, es, at) ==
    InTurn(LAMBDA r, i: LET x == infer(r.c, es[i], Append(at, i)) IN [c |-> x.c, ts |-> Append(r.ts, x.t)],
             [c |-> c, ts |-> << >>], Idx(es))

(* Literals of structs, variants and records. *)

\* Each field against the slot it names; every slot is given when whole.
check_slots(c, fs, ls, ts, whole, at) ==
    LET slots == [i \in DOMAIN fs |-> slot_of(ls, fs, i)]
        d == InTurn(LAMBDA d, i: IF slots[i] = 0 THEN Fail(d) ELSE check(d, fs[i].e, ts[slots[i]], Append(at, i)), c, Idx(fs))
    IN  IF whole /\ ~(DOMAIN ls \subseteq Range(slots)) THEN Fail(d) ELSE d

\* ty is "" and expected None where there is none.
infer_struct_lit(c, ty, fs, spread, expected, at) ==
    LET base == infer(c, spread, Append(at, 0))
        n == IF spread # None THEN struct_name_of(base.c, base.t)
             ELSE IF ty = "" THEN resolve_struct_by_fields(c, fs)
             ELSE IF is_struct(c, Con(ty)) THEN ty ELSE ""
        i == IF spread # None THEN [c |-> base.c, args |-> spine(base.c, base.t).args]
             ELSE instantiate_params(c, struct_info(c, n).ps)
        t == applied(n, i.args)
        slots == struct_fields(i.c, n, i.args)
        d == IF expected = None THEN i.c ELSE unify(i.c, t, expected)
    IN  IF spread # None /\ ~base.c.ok THEN base
        ELSE IF spread # None /\ n = "" THEN R(infer_each(base.c, Each(LAMBDA f: f.e, fs), at).c, base.t)
        ELSE IF n = "" THEN R(Fail(c), ErrorTy)
        ELSE R(check_slots(note(d, "struct", at, n), fs, labels(slots), Each(LAMBDA f: f.ty, slots), spread = None, at), t)

infer_variant(c, ty, tag, fs, at) ==
    LET u == IF ty # "" THEN ty ELSE find_union_by_tag(c, tag)
        s == variant_sig(c, u, tag)
    IN  IF ~union_with_tag(c, u, tag) THEN R(Fail(c), ErrorTy)
        ELSE R(check_slots(s.c, fs, s.ls, s.ts, TRUE, at), s.t)

\* Plain, an update of e.update, or stacked on e.with.
infer_record(c, e, at) ==
    LET fs == infer_each(c, Each(LAMBDA f: f.e, e.fs), at)
        own == [i \in DOMAIN e.fs |-> FieldDecl(e.fs[i].l, fs.ts[i])]
        base == infer(fs.c, IF e.update # None THEN e.update ELSE e.with, Append(at, 0))
        set(d, f) == LET w == field_type_of(d, base.t, f.l) IN unify(w.c, f.ty, w.t)
        r == resolve(base.c, base.t)
        row == IF r.k = "record" THEN r.row ELSE row_of(record_fields_of(base.c, base.t), RowEmpty)
    IN  IF ~fs.c.ok \/ "" \in Range(labels(e.fs)) THEN R(Fail(fs.c), ErrorTy)
        ELSE IF e.update = None /\ e.with = None THEN R(fs.c, TRecord(row_of(own, RowEmpty)))
        ELSE IF e.update # None THEN R(InTurn(set, base.c, own), base.t)
        ELSE IF ~base.c.ok \/ (r.k # "record" /\ ~has_fields(base.c, base.t)) THEN R(Fail(base.c), ErrorTy)
        ELSE R(base.c, TRecord(row_of(own, row)))

-----------------------------------------------------------------------------
(* Functions, applications and bindings. *)

\* The parameters in order, each with its pattern; given is the type each must
\* have, from the expected function type t, or None to infer it.
type_params(c, ps, t, at) ==
    InTurn(LAMBDA r, i:
               LET a == arrow_parts(r.c, r.t)
                   s == ty_of_ast(IF t = None THEN r.c ELSE a.c, ps[i].sig, r.m)
                   new == fresh(r.c)
                   p == IF t # None THEN a.from ELSE IF ps[i].sig # None THEN s.t ELSE newest(new)
                   d == IF t # None THEN (IF ps[i].sig # None THEN unify(s.c, a.from, s.t) ELSE a.c)
                        ELSE IF ps[i].sig # None THEN s.c ELSE new
                   place == Append(at, i)
               IN  [c |-> check_irrefutable(type_pattern(d, ps[i].pat, p, place), ps[i].pat, place),
                    ts |-> Append(r.ts, p), m |-> IF ps[i].sig # None THEN s.m ELSE r.m,
                    t |-> IF t = None THEN None ELSE a.to, eff |-> IF t = None THEN None ELSE a.eff],
             [c |-> c, ts |-> << >>, m |-> << >>, t |-> t, eff |-> c.ambient], Idx(ps))

\* The body runs under a row of its own, which the innermost arrow performs.
infer_lambda(c, e, at) ==
    LET ps == type_params(c, e.ps, None, at)
        d == fresh(ps.c)
        eff == newest(d)
        b == infer([d EXCEPT !.ambient = eff], e.e, Append(at, 0))
        n == Len(e.ps)
    IN  R(back_to(b.c, c), FoldRight(arrow, SubSeq(ps.ts, 1, n - 1), arrow_eff(ps.ts[n], b.t, eff)))

check_lambda(c, e, t, at) ==
    LET ps == type_params(c, e.ps, t, at)
    IN  back_to(check([ps.c EXCEPT !.ambient = ps.eff], e.e, ps.t, Append(at, 0)), c)

\* What the callee performs, the place allows; then the argument.
infer_app(c, e, at) ==
    LET f == infer(c, e.f, Append(at, 1))
        a == arrow_parts(f.c, f.t)
    IN  IF ~f.c.ok \/ resolve(f.c, f.t).k \notin {"var", "arrow"} THEN R(Fail(f.c), ErrorTy)
        ELSE R(check(subrow(a.c, a.eff, f.c.ambient), e.a, a.from, Append(at, 2)), a.to)

\* The argument first, the lambda against its type.
infer_applied_lambda(c, f, fat, x, xat) ==
    LET a == infer(c, x, xat)
        d == fresh_n(a.c, 2)
        new == newest_n(d, 2)
    IN  IF ~a.c.ok \/ ~d.ok THEN R(Fail(a.c), ErrorTy)
        ELSE R(subrow(check(d, f, arrow_eff(a.t, new[1], new[2]), fat), new[2], c.ambient), new[1])

infer_binop(c, e, at) ==
    LET l == infer(c, e.l, Append(at, 1))
        r == infer(l.c, e.r, Append(at, 2))
        op == infer_var(r.c, <<e.op>>)
        d == fresh_n(op.c, 2)
        new == newest_n(d, 2)
    IN  IF e.op = "|>" /\ e.r.k = "fun" THEN infer_applied_lambda(c, e.r, Append(at, 2), e.l, Append(at, 1))
        ELSE IF e.op = "<|" /\ e.l.k = "fun" THEN infer_applied_lambda(c, e.l, Append(at, 1), e.r, Append(at, 2))
        ELSE IF ~r.c.ok \/ ~d.ok THEN R(Fail(r.c), ErrorTy)
        ELSE R(subrow(unify(d, op.t, arrow(l.t, arrow_eff(r.t, new[1], new[2]))), new[2], c.ambient), new[1])

\* A named binding is visible in its value, at one type; then generalized.
infer_binding(c, e, at) ==
    LET named == e.pat.k = "pvar"
        o == fresh(enter_level(c))
        decl == newest(o)
        d == IF named THEN scope_bind(o, e.pat.x, decl) ELSE enter_level(c)
        s == ty_of_ast(d, e.sig, << >>)
        v == IF e.sig = None THEN infer(d, e.v, Append(at, 2)) ELSE R(check(s.c, e.v, s.t, Append(at, 2)), s.t)
        u == leave_level(IF named THEN unify(v.c, decl, v.t) ELSE v.c)
        g == generalize_except(u, v.t, pending_vars(u))
    IN  IF ~u.ok THEN u
        ELSE IF named THEN generalize_except(u, decl, pending_vars(u))
        ELSE check_irrefutable(type_pattern(g, e.pat, v.t, Append(at, 1)), e.pat, Append(at, 1))

-----------------------------------------------------------------------------
(* Branches. *)
type_arm(c, arm, t, at) ==
    LET d == InTurn(LAMBDA b, j: type_pattern(b, arm.pats[j], t, Append(at, j + 1)), c, Idx(arm.pats))
        g == infer(d, arm.guard, Append(at, 0))
    IN  IF arm.guard = None THEN d ELSE unify(g.c, g.t, BoolTy)

infer_match(c, e, at) ==
    LET s == infer(c, e.s, Append(at, 0))
        d == fresh(s.c)
        result == newest(d)
        arm(b, i) ==
            LET body == infer(type_arm(b, e.arms[i], s.t, Append(at, i)), e.arms[i].e, at \o <<i, 1>>)
            IN  leave_scope(unify(body.c, result, body.t), b)
    IN  IF ~s.c.ok THEN s ELSE R(check_coverage(InTurn(arm, d, Idx(e.arms)), s.t, e.arms, at), result)

check_match(c, e, t, at) ==
    LET s == infer(c, e.s, Append(at, 0))
        arm(b, i) ==
            leave_scope(check(type_arm(b, e.arms[i], s.t, Append(at, i)), e.arms[i].e, t, at \o <<i, 1>>), b)
    IN  IF ~s.c.ok THEN s.c ELSE check_coverage(InTurn(arm, s.c, Idx(e.arms)), s.t, e.arms, at)

infer_if(c, e, at) ==
    LET b == infer(c, e.c, Append(at, 1))
        t == infer(unify(b.c, b.t, BoolTy), e.t, Append(at, 2))
        f == infer(t.c, e.e, Append(at, 3))
    IN  R(unify(f.c, t.t, f.t), t.t)

check_if(c, e, t, at) ==
    LET b == infer(c, e.c, Append(at, 1))
    IN  check(check(unify(b.c, b.t, BoolTy), e.t, t, Append(at, 2)), e.e, t, Append(at, 3))

-----------------------------------------------------------------------------
(* Handlers. *)

\* The ambient row extended with each effect the clauses name, once, with one
\* instance of its parameters.
handled_row(c, clauses) ==
    InTurn(LAMBDA r, cl:
               LET op == CHOOSE o \in clause_op(r.c, cl) : TRUE
                   d == fresh_n(r.c, op.arity)
                   args == IF op.arity = 0 THEN RowEmpty ELSE TTuple(newest_n(d, op.arity))
               IN  IF clause_op(r.c, cl) = {} \/ op.n \in DOMAIN r.inst THEN r
                   ELSE [c |-> d, row |-> RowExtend(op.n, args, r.row), inst |-> (op.n :> args) @@ r.inst],
             [c |-> c, row |-> c.ambient, inst |-> << >>], clauses)

\* The argument's and the result's type of the operation clause cl handles.
clause_types(c, cl, inst, at) ==
    LET op == CHOOSE o \in clause_op(c, cl) : TRUE
        i == instantiate_for_handler(c, op.scheme, at)
        a == arrow_parts(i.c, i.t)
        d == fresh_n(c, 2)
    IN  IF clause_op(c, cl) = {} THEN [c |-> d, from |-> newest_n(d, 2)[1], to |-> newest(d)]
        ELSE IF a.eff.k = "rext" /\ a.eff.args # RowEmpty THEN [a EXCEPT !.c = unify(a.c, a.eff.args, inst[op.n])]
        ELSE a

\* Resuming goes on under the outer row, to the handler's result.
infer_handle(c, e, at) ==
    LET r == fresh(c)
        result == newest(r)
        h == handled_row(r, e.clauses)
        body == infer([h.c EXCEPT !.ambient = h.row], e.e, Append(at, 0))
        clause(d, i) ==
            LET cl == e.clauses[i]
                ts == clause_types(d, cl, h.inst, Append(at, i))
                k == arrow_eff(ts.to, result, c.ambient)
                b == infer(scope_bind(scope_bind(ts.c, cl.x, ts.from), e.kx, k), cl.e, Append(at, i))
            IN  IF d.ok THEN leave_scope(unify(b.c, b.t, result), d) ELSE d
        d == InTurn(clause, [body.c EXCEPT !.ambient = c.ambient], Idx(e.clauses))
        v == infer(scope_bind(d, e.els.x, body.t), e.els.e, Append(at, Len(e.clauses) + 1))
    IN  IF ~body.c.ok THEN body
        ELSE R(IF e.els = None THEN unify(d, body.t, result) ELSE leave_scope(unify(v.c, v.t, result), d), result)

-----------------------------------------------------------------------------
(* The two modes. *)
infer_with(c, e, at) ==
    LET s == infer(c, e.s, Append(at, 1))
        d == scope_struct_fields(s.c, s.t)
        b == infer(note(d.c, "with", at, d.names), e.e, Append(at, 2))
    IN  IF s.c.ok THEN R(leave_scope(b.c, c), b.t) ELSE s

infer_int(c, n) ==
    LET d == fresh(c)
        t == newest(d)
    IN  IF ~d.ok THEN R(d, ErrorTy)
        ELSE R([mark_int_literal(d, t.i) EXCEPT !.numeric = Append(@, t), !.literals = Append(@, [t |-> t, n |-> n])], t)

infer_tuple(c, e, at) == LET fs == infer_each(c, e.fs, at) IN R(fs.c, TTuple(fs.ts))

infer_let(c, e, at) ==
    LET d == infer(infer_binding(c, e, at), e.e, Append(at, 3)) IN R(leave_scope(d.c, c), d.t)

\* A field, and the literals made of fields.
infer_fields(c, e, at) ==
    LET r == infer(c, e.r, Append(at, 1))
    IN  CASE e.k = "field" -> IF r.c.ok THEN infer_field(r.c, r.t, e.l) ELSE r
          [] e.k = "structlit" -> infer_struct_lit(c, e.ty, e.fs, e.spread, None, at)
          [] e.k = "record" -> infer_record(c, e, at)
          [] e.k = "variantlit" -> infer_variant(c, e.ty, e.tag, e.fs, at)

\* A cleanup, an external name of any type, or a value of a written type.
infer_marked(c, e, at) ==
    LET d == fresh(c)
        s == ty_of_ast(c, e.ty, << >>)
    IN  CASE e.k = "defer" -> infer(infer(c, e.c, Append(at, 1)).c, e.e, Append(at, 2))
          [] e.k = "extern" -> R(d, newest(d))
          [] e.k = "ascribe" -> R(check(s.c, e.e, s.t, Append(at, 1)), s.t)

infer(c, e, at) ==
    IF ~c.ok THEN R(c, ErrorTy)
    ELSE CASE e.k = "int" -> infer_int(c, e.i)
           [] e.k = "bool" -> R(c, BoolTy)
           [] e.k = "str" -> R(c, StrTy)
           [] e.k = "unit" -> R(c, UnitTy)
           [] e.k = "var" -> infer_var(c, e.x)
           [] e.k = "app" -> infer_app(c, e, at)
           [] e.k = "binop" -> infer_binop(c, e, at)
           [] e.k = "tuple" -> infer_tuple(c, e, at)
           [] e.k = "if" -> infer_if(c, e, at)
           [] e.k = "letin" -> infer_let(c, e, at)
           [] e.k = "fun" -> infer_lambda(c, e, at)
           [] e.k = "match" -> infer_match(c, e, at)
           [] e.k \in {"field", "structlit", "record", "variantlit"} -> infer_fields(c, e, at)
           [] e.k = "with" -> infer_with(c, e, at)
           [] e.k = "handle" -> infer_handle(c, e, at)
           [] e.k \in {"defer", "extern", "ascribe"} -> infer_marked(c, e, at)

\* That struct itself, or else a value to promote into the closed record t.
check_struct_lit(c, e, t, at) ==
    LET direct == infer_struct_lit(c, IF e.ty # "" THEN e.ty ELSE struct_name_of(c, t), e.fs, e.spread, t, at)
        d == unify(direct.c, direct.t, t)
        g == infer_struct_lit(restore(d, save(c)), e.ty, e.fs, e.spread, None, at)
    IN  IF d.ok \/ ~record_is_closed(c, t) THEN d
        ELSE IF g.c.ok THEN promote_to_record(g.c, <<g.t>>, t, at) ELSE g.c

\* A value of the type, or one to promote into the closed record t.
check_inferred(c, e, t, at) ==
    LET g == infer(c, e, at)
        got == resolve(g.c, g.t)
        direct == unify(g.c, g.t, t)
    IN  IF ~g.c.ok THEN g.c
        ELSE IF resolve(g.c, t).k # "record" \/ (~is_numeric(g.c, g.t) /\ direct.ok) THEN direct
        ELSE IF record_is_closed(g.c, t)
        THEN promote_to_record(restore(direct, save(g.c)), IF got.k = "tuple" THEN got.ts ELSE <<g.t>>, t, at)
        ELSE direct

check(c, e, t, at) ==
    LET n == struct_name_of(c, t)
        v == infer_variant(c, union_head_with_tag(c, t, e.tag), e.tag, e.fs, at)
    IN  IF ~c.ok THEN c
        ELSE IF e.k = "fun" THEN check_lambda(c, e, t, at)
        ELSE IF e.k = "structlit" THEN check_struct_lit(c, e, t, at)
        ELSE IF e.k = "if" THEN check_if(c, e, t, at)
        ELSE IF e.k = "match" THEN check_match(c, e, t, at)
        ELSE IF e.k = "record" /\ e.with = None /\ e.update = None /\ n # "" /\ "" \notin Range(labels(e.fs))
        THEN infer_struct_lit(c, n, e.fs, None, t, at).c
        ELSE IF e.k = "variantlit" /\ e.ty = "" /\ union_head_with_tag(c, t, e.tag) # "" THEN unify(v.c, v.t, t)
        ELSE check_inferred(c, e, t, at)
=============================================================================
