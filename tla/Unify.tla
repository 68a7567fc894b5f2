------------------------------- MODULE Unify --------------------------------
(***************************************************************************)
(* The unifier behind type inference: frontend/src/typing/unify.rs, its    *)
(* rows.rs and the literal restriction of its sizes.rs, over the types of  *)
(* types.rs.  A type is a record whose field k names its constructor.  The *)
(* operators take and return the checker's state c; of it the unifier has  *)
(*   vars   the state of every variable,                                   *)
(*   level  the generalization level,                                      *)
(*   ints   the variables that integer literals introduced,                *)
(*   trail  the old values that restore puts back,                         *)
(*   ok     whether no error has been found,                               *)
(*   stuck  whether it ran out of variables: unification goes on for ever, *)
(*   structs  the declared structs, whose rows the record bridge reads.    *)
(* Sizes (the Nat kind and tensors) are left out.                          *)
(***************************************************************************)
EXTENDS Core

CONSTANT MaxVars   \* bound: variables one program may need

TVar(i) == [k |-> "var", i |-> i]
Con(n) == [k |-> "con", n |-> n]
TApp(h, a) == [k |-> "app", h |-> h, a |-> a]
arrow_eff(from, to, eff) == [k |-> "arrow", from |-> from, to |-> to, eff |-> eff]
TTuple(ts) == [k |-> "tuple", ts |-> ts]
RowEmpty == [k |-> "rempty"]
RowExtend(l, args, rest) == [k |-> "rext", l |-> l, args |-> args, rest |-> rest]
TRecord(row) == [k |-> "record", row |-> row]
RowField(l, ty, rest) == [k |-> "rfield", l |-> l, ty |-> ty, rest |-> rest]
ErrorTy == [k |-> "error"]

\* The opaque type that variable v of an operation is to one handler clause: a
\* constructor that no declaration names.
Rigid(clause, v) == [k |-> "rigid", clause |-> clause, v |-> v]

\* A variable as a signature or a declaration writes it.
TName(x) == [k |-> "name", x |-> x]

arrow(from, to) == arrow_eff(from, to, RowEmpty)

\* The row of fields fs, in order, over rest.
row_of(fs, rest) == FoldRight(LAMBDA f, row: RowField(f.l, f.ty, row), fs, rest)

applied(name, args) == FoldLeft(TApp, Con(name), args)

parts(t) ==
    CASE t.k = "app" -> <<t.h, t.a>>
      [] t.k = "arrow" -> <<t.from, t.to, t.eff>>
      [] t.k = "tuple" -> t.ts
      [] t.k = "rext" -> <<t.args, t.rest>>
      [] t.k = "record" -> <<t.row>>
      [] t.k = "rfield" -> <<t.ty, t.rest>>
      [] OTHER -> << >>

with_parts(t, ps) ==
    CASE t.k = "app" -> TApp(ps[1], ps[2])
      [] t.k = "arrow" -> arrow_eff(ps[1], ps[2], ps[3])
      [] t.k = "tuple" -> TTuple(ps)
      [] t.k = "rext" -> RowExtend(t.l, ps[1], ps[2])
      [] t.k = "record" -> TRecord(ps[1])
      [] t.k = "rfield" -> RowField(t.l, ps[1], ps[2])
      [] OTHER -> t

-----------------------------------------------------------------------------
(* Variables and levels. *)
Unbound(level) == [k |-> "unbound", level |-> level]
Linked(t) == [k |-> "linked", t |-> t]
Generic == [k |-> "generic"]

Fail(c) == [c EXCEPT !.ok = FALSE]

enter_level(c) == [c EXCEPT !.level = @ + 1]
leave_level(c) == [c EXCEPT !.level = @ - 1]

set_var(c, id, v) ==
    [c EXCEPT !.vars[id] = v, !.trail = Append(@, [k |-> "var", i |-> id, old |-> c.vars[id]])]

mark_int_literal(c, id) ==
    IF id \in c.ints THEN c
    ELSE [c EXCEPT !.ints = @ \cup {id}, !.trail = Append(@, [k |-> "int", i |-> id])]

\* One more variable; newest is the type that names it.
fresh(c) ==
    IF Len(c.vars) = MaxVars THEN [c EXCEPT !.ok = FALSE, !.stuck = TRUE]
    ELSE [c EXCEPT !.vars = Append(@, Unbound(c.level))]
newest(c) == TVar(Len(c.vars))

RECURSIVE fresh_n(_, _)
fresh_n(c, n) == IF n = 0 THEN c ELSE fresh_n(fresh(c), n - 1)

\* The n newest, oldest first.
newest_n(c, n) == [j \in 1..n |-> TVar(Len(c.vars) - n + j)] \o << >>

save(c) == [trail |-> Len(c.trail), vars |-> Len(c.vars), level |-> c.level]

\* Undo what happened since, latest first.
restore(c, sv) ==
    LET undo(d, u) == IF u.k = "var" THEN [d EXCEPT !.vars[u.i] = u.old] ELSE [d EXCEPT !.ints = @ \ {u.i}]
        d == FoldLeft(undo, c, Reverse(SubSeq(c.trail, sv.trail + 1, Len(c.trail))))
    IN  [d EXCEPT !.trail = SubSeq(@, 1, sv.trail), !.vars = SubSeq(@, 1, sv.vars), !.level = sv.level,
                  !.ok = TRUE]

-----------------------------------------------------------------------------
(* Resolution. *)
RECURSIVE resolve(_, _), subst_vars(_, _, _), collect_vars(_, _)

resolve(c, t) == IF t.k = "var" /\ c.vars[t.i].k = "linked" THEN resolve(c, c.vars[t.i].t) ELSE t

\* t resolved throughout, its variables in the domain of sub replaced.
subst_vars(c, t0, sub) ==
    LET t == resolve(c, t0)
    IN  IF t.k = "var" THEN (IF t.i \in DOMAIN sub THEN sub[t.i] ELSE t)
        ELSE with_parts(t, Each(LAMBDA p: subst_vars(c, p, sub), parts(t)))

zonk(c, t) == subst_vars(c, t, << >>)

\* The variables of t that no type has been found for.
collect_vars(c, t0) ==
    LET t == resolve(c, t0)
    IN  IF t.k = "var" THEN {t.i} ELSE UNION {collect_vars(c, p) : p \in Range(parts(t))}

-----------------------------------------------------------------------------
(* Binding a variable. *)
is_float_name(n) == n \in {"@Float64", "@Float32"}

\* An integer literal never becomes a float, and neither does what it meets.
check_kind(c, id, t0) ==
    LET t == resolve(c, t0)
    IN  IF t.k = "var" /\ id \in c.ints THEN mark_int_literal(c, t.i)
        ELSE IF t.k = "con" /\ id \in c.ints /\ is_float_name(t.n) THEN Fail(c)
        ELSE c

\* Mutant: the variables of t keep their levels.
occurs_and_adjust_noclamp(c, id, level, t) == IF id \in collect_vars(c, t) THEN Fail(c) ELSE c
\* Generalization relies on every variable of t being no deeper than id.
occurs_and_adjust(c, id, level, t) ==
    LET vs == collect_vars(c, t)
        deeper == {v \in vs : c.vars[v].k = "unbound" /\ c.vars[v].level > level}
    IN  IF id \in vs THEN Fail(c)
        ELSE FoldLeft(LAMBDA d, v: set_var(d, v, Unbound(level)), c, SetToSeq(deeper))

\* A variable that is not unbound is left alone.
bind(c, id, t) ==
    IF c.vars[id].k # "unbound" THEN c
    ELSE LET d == check_kind(c, id, t)
             e == IF d.ok THEN occurs_and_adjust(d, id, c.vars[id].level, t) ELSE d
         IN  IF e.ok THEN set_var(e, id, Linked(t)) ELSE e

-----------------------------------------------------------------------------
(* Unification. *)
RECURSIVE unify(_, _, _), unify_all(_, _, _), unify_row(_, _, _), unify_record_row(_, _, _),
          rewrite_row(_, _, _, _), rewrite_field(_, _, _), struct_row_bridge(_, _, _), ast_subst(_, _)

unify(c, a0, b0) ==
    LET a == resolve(c, a0)
        b == resolve(c, b0)
        heads == {a.k, b.k}
    IN  IF ~c.ok \/ ErrorTy \in {a, b} \/ (a.k \in {"var", "con", "rigid", "rempty"} /\ a = b) THEN c
        ELSE IF a.k = "var" THEN bind(c, a.i, b)
        ELSE IF b.k = "var" THEN bind(c, b.i, a)
        ELSE IF heads \in {{"arrow"}, {"app"}, {"tuple"}} /\ Len(parts(a)) = Len(parts(b))
        THEN unify_all(c, parts(a), parts(b))
        ELSE IF "rext" \in heads THEN unify_row(c, a, b)
        ELSE IF heads = {"record"} THEN unify_record_row(c, a.row, b.row)
        ELSE IF "rfield" \in heads THEN unify_record_row(c, a, b)
        ELSE IF "record" \in heads THEN struct_row_bridge(c, a, b)
        ELSE Fail(c)

unify_all(c, as, bs) ==
    IF as = << >> \/ ~c.ok THEN c ELSE unify_all(unify(c, Head(as), Head(bs)), Tail(as), Tail(bs))

\* Pull the head label of the one out of the other, then the tails.
unify_row(c, a, b) ==
    LET x == IF a.k = "rext" THEN a ELSE b
        y == IF a.k = "rext" THEN b ELSE a
        r == rewrite_row(c, y, x.l, x.args)
    IN  unify(r.c, x.rest, r.rest)

\* Omitted arguments match any.
unify_effect_args(c, a, b) == IF RowEmpty \in {resolve(c, a), resolve(c, b)} THEN c ELSE unify(c, a, b)

\* row without its first label l; an open tail grows to have it.
rewrite_row(c, row, l, args) ==
    LET r == resolve(c, row)
        deeper == rewrite_row(c, r.rest, l, args)
        grown == fresh(c)
    IN  CASE ~c.ok -> [c |-> c, rest |-> row]
          [] c.ok /\ r.k = "rext" /\ r.l = l -> [c |-> unify_effect_args(c, args, r.args), rest |-> r.rest]
          [] c.ok /\ r.k = "rext" /\ r.l # l -> [c |-> deeper.c, rest |-> RowExtend(r.l, r.args, deeper.rest)]
          [] c.ok /\ r.k = "var" /\ grown.ok ->
               [c |-> bind(grown, r.i, RowExtend(l, args, newest(grown))), rest |-> newest(grown)]
          [] c.ok /\ r.k = "var" /\ ~grown.ok -> [c |-> grown, rest |-> row]
          [] OTHER -> [c |-> Fail(c), rest |-> row]

\* The same for a record's row: also the field's type.
rewrite_field(c, row, l) ==
    LET r == resolve(c, row)
        deeper == rewrite_field(c, r.rest, l)
        grown == fresh_n(c, 2)
        new == newest_n(grown, 2)
    IN  CASE ~c.ok -> [c |-> c, ty |-> row, rest |-> row]
          [] c.ok /\ r.k = "rfield" /\ r.l = l -> [c |-> c, ty |-> r.ty, rest |-> r.rest]
          [] c.ok /\ r.k = "rfield" /\ r.l # l -> [deeper EXCEPT !.rest = RowField(r.l, r.ty, @)]
          [] c.ok /\ r.k = "var" /\ grown.ok ->
               [c |-> bind(grown, r.i, RowField(l, new[1], new[2])), ty |-> new[1], rest |-> new[2]]
          [] c.ok /\ r.k = "var" /\ ~grown.ok -> [c |-> grown, ty |-> row, rest |-> row]
          [] OTHER -> [c |-> Fail(c), ty |-> row, rest |-> row]

unify_record_row(c, a0, b0) ==
    LET a == resolve(c, a0)
        b == resolve(c, b0)
        r == rewrite_field(c, b, a.l)
    IN  IF ~c.ok \/ (a.k \in {"var", "rempty"} /\ a = b) THEN c
        ELSE IF a.k = "var" THEN bind(c, a.i, b)
        ELSE IF b.k = "var" THEN bind(c, b.i, a)
        ELSE IF a.k = "rfield" THEN unify_record_row(unify(r.c, a.ty, r.ty), a.rest, r.rest)
        ELSE Fail(c)

\* ty as declared, its named variables replaced.
ast_subst(ty, m) ==
    IF ty.k = "name" THEN m[ty.x] ELSE with_parts(ty, Each(LAMBDA p: ast_subst(p, m), parts(ty)))

RECURSIVE spine(_, _)

\* The head of an application and its arguments.
spine(c, t0) ==
    LET t == resolve(c, t0)
        s == spine(c, t.h)
    IN  IF t.k = "app" THEN [s EXCEPT !.args = Append(@, resolve(c, t.a))] ELSE [head |-> t, args |-> << >>]

is_struct(c, head) == head.k = "con" /\ \E d \in Range(c.structs) : d.n = head.n
struct_info(c, n) == CHOOSE d \in Range(c.structs) : d.n = n

\* Each declared parameter's argument.
assign_params(ps, args) == [p \in Range(ps) |-> args[CHOOSE i \in DOMAIN ps : ps[i] = p]]

\* A declared struct meets a record through its row.
struct_row_bridge(c, a, b) ==
    LET rec == IF a.k = "record" THEN a ELSE b
        s == spine(c, IF a.k = "record" THEN b ELSE a)
    IN  IF ~is_struct(c, s.head) THEN Fail(c)
        ELSE LET info == struct_info(c, s.head.n)
             IN  unify_record_row(c, ast_subst(row_of(info.fs, RowEmpty), assign_params(info.ps, s.args)), rec.row)

-----------------------------------------------------------------------------
(* Effects: what sub performs, super allows. *)
RECURSIVE subrow(_, _, _)
subrow(c, sub, super) ==
    LET r == resolve(c, sub)
        s == rewrite_row(c, super, r.l, r.args)
    IN  IF ~c.ok \/ r.k = "rempty" THEN c
        ELSE IF r.k = "rext" THEN subrow(s.c, r.rest, s.rest)
        ELSE unify(c, sub, super)

\* The field l of a record, an open tail growing to have it.
record_field(c, t, l) ==
    LET r == resolve(c, t)
        d == fresh(c)
        f == rewrite_field(c, r.row, l)
    IN  IF r.k = "record" THEN [c |-> f.c, t |-> f.ty] ELSE [c |-> d, t |-> newest(d)]

-----------------------------------------------------------------------------
(* Generalization and instantiation. *)
generalize_except(c, t, mono) ==
    FoldLeft(LAMBDA d, v: set_var(d, v, Generic), c,
             SetToSeq({v \in collect_vars(c, t) \ mono : c.vars[v].k = "unbound" /\ c.vars[v].level > c.level}))

generalize(c, t) == generalize_except(c, t, {})

\* Its generic variables outside the domain of sub made new ones, the others
\* replaced by sub.
instantiate_with(c, t, sub) ==
    LET vs == SetToSeq({v \in collect_vars(c, t) \ DOMAIN sub : c.vars[v].k = "generic"})
        d == fresh_n(c, Len(vs))
        new == newest_n(d, Len(vs))
        m == [v \in Range(vs) |-> new[CHOOSE i \in DOMAIN vs : vs[i] = v]]
    IN  [c |-> d, t |-> IF d.ok THEN subst_vars(d, t, m @@ sub) ELSE t]

instantiate(c, t) == instantiate_with(c, t, << >>)

\* An operation's scheme as one handler clause sees it: the variables its effect's
\* arguments do not mention are the performer's, opaque types of this clause.
instantiate_for_handler(c, scheme, clause) ==
    LET t == resolve(c, scheme)
        own == {v \in (collect_vars(c, t.from) \cup collect_vars(c, t.to)) \ collect_vars(c, t.eff) :
                    c.vars[v].k = "generic"}
    IN  IF t.k # "arrow" THEN instantiate(c, t)
        ELSE instantiate_with(c, t, [v \in own |-> Rigid(clause, v)])
=============================================================================
