------------------------------ MODULE Lowering ------------------------------
(***************************************************************************)
(* From match-compiled Core to the IR: A-normal form                       *)
(* (passes/a_normal_form.rs), De Bruijn indices (passes/de_bruijn.rs) and  *)
(* closure conversion with its two clean-ups (ir/closure_conversion.rs).   *)
(* The continuation-passing normalizer is written in direct style: norm    *)
(* gives the lets that float out of a term and the term they leave.        *)
(***************************************************************************)
EXTENDS Ir

wrap(bs, t) == FoldRight(LAMBDA b, e: Let(b.x, b.rec, b.v, e), bs, t)

RECURSIVE norm(_, _), norm_name(_, _), norm_all(_, _, _)

term(e, p) == LET n == norm(e, p) IN wrap(n.bs, n.h)

\* A computation is bound to a fresh name, an atom passes through.
norm_name(e, p) ==
    LET n == norm(e, p)
        x == <<"%a">> \o p
    IN  IF is_atom(n.h) THEN n
        ELSE [bs |-> Append(n.bs, [x |-> x, rec |-> FALSE, v |-> n.h]), h |-> Var(x)]

\* The operands es from the i-th on, each named in turn.
norm_all(es, i, p) ==
    IF i > Len(es) THEN [bs |-> << >>, hs |-> << >>]
    ELSE LET n == norm_name(es[i], Append(p, i))
             r == norm_all(es, i + 1, p)
         IN  [bs |-> n.bs \o r.bs, hs |-> <<n.h>> \o r.hs]

\* A let's value floats its own lets out, unless they refer to the let's name.
norm_let(e, p) ==
    LET v == IF e.rec /\ mentions(e.v, e.x) THEN [bs |-> << >>, h |-> term(e.v, Append(p, 1))]
             ELSE norm(e.v, Append(p, 1))
        b == norm(e.e, Append(p, 2))
    IN  [bs |-> v.bs \o <<[x |-> e.x, rec |-> e.rec, v |-> v.h]>> \o b.bs, h |-> b.h]

\* Constructor fields, arms, handler parts and lambda bodies are terms of their
\* own; every other operand is named.
norm(e, p) ==
    LET kids == Kids(e)
        own == map_node(e, [i \in DOMAIN kids |-> term(kids[i].t, Append(p, i))])
    IN  CASE e.k = "app" \/ e.k = "tuple" \/ e.k = "struct" \/ e.k = "field" ->
               LET n == norm_all(Each(LAMBDA kid: kid.t, kids), 1, p)
               IN  [bs |-> n.bs, h |-> map_node(e, n.hs)]
          [] e.k = "case" ->
               LET n == norm_name(e.s, Append(p, 1)) IN [bs |-> n.bs, h |-> [own EXCEPT !.s = n.h]]
          [] e.k = "let" -> norm_let(e, p)
          [] OTHER -> [bs |-> << >>, h |-> own]

to_a_normal_form(t) == term(t, <<0>>)

-----------------------------------------------------------------------------
\* The distance to the innermost binder of the name, 0 for a global.
lookup(names, x) ==
    LET at == {i \in DOMAIN names : names[i] = x}
    IN  IF at = {} THEN 0 ELSE Len(names) + 1 - CHOOSE i \in at : \A j \in at : j <= i

RECURSIVE assign(_, _)

assign(t, names) ==
    IF t.k = "var" THEN [k |-> "var", x |-> t.x, ix |-> lookup(names, t.x)]
    ELSE Rewrite(LAMBDA kid: assign(kid.t, names \o kid.bound), t)

-----------------------------------------------------------------------------
(* Closure conversion.  scope[i] is the atom of the binder at position i, or *)
(* None; st holds the slot allocator (slots count from 1) and the codes.     *)
alloc_local(st) == [st EXCEPT !.next = @ + 1, !.nlocals = IF @ < st.next THEN st.next ELSE @]

free_local(st) == IF st.next > st.floor THEN [st EXCEPT !.next = @ - 1] ELSE st

RECURSIVE free_locals(_, _)
free_locals(st, n) == IF n = 0 THEN st ELSE free_locals(free_local(st), n - 1)

RECURSIVE collect_free(_, _, _)

\* The enclosing positions (up to m) that a lifted body refers to.
collect_free(t, m, depth) ==
    IF t.k = "var" THEN {i \in 1..m : t.ix >= 1 /\ i = m + depth + 1 - t.ix}
    ELSE UNION {collect_free(kid.t, m, depth + Len(kid.bound)) : kid \in Range(Kids(t))}

RECURSIVE cexpr(_, _, _, _), atom(_, _, _), atoms(_, _, _), lift(_, _, _, _),
          calts(_, _, _), cfields(_, _, _), cclauses(_, _, _)

\* A code of n parameters whose captured positions read from its environment.
lift(body, n, scope, st) ==
    LET m == Len(scope)
        free == SetToSortSeq(collect_free(body, m, n), <)
        inner == [i \in 1..(m + n) |->
                     IF i > m THEN Local(i - m)
                     ELSE IF \E j \in DOMAIN free : free[j] = i
                     THEN Env(CHOOSE j \in DOMAIN free : free[j] = i) ELSE None]
        b == cexpr(body, inner, [next |-> n + 1, nlocals |-> n, floor |-> 1, codes |-> st.codes], TRUE)
        code == [nparams |-> n, nlocals |-> b.st.nlocals, e |-> b.e, borrowed |-> {}]
    IN  [a |-> Clos(Len(b.st.codes) + 1, [j \in DOMAIN free |-> scope[free[j]]]),
         st |-> [st EXCEPT !.codes = Append(b.st.codes, code)]]

atom(t, scope, st) ==
    CASE t.k = "var" ->
           [a |-> IF t.ix = 0 THEN Glob(t.x) ELSE scope[Len(scope) + 1 - t.ix], st |-> st]
      [] t.k = "lam" -> lift(t.e, 1, scope, st)
      [] OTHER -> [a |-> Lit(t), st |-> st]

atoms(ts, scope, st) ==
    IF ts = << >> THEN [as |-> << >>, st |-> st]
    ELSE LET a == atom(Head(ts), scope, st)
             r == atoms(Tail(ts), scope, a.st)
         IN  [as |-> <<a.a>> \o r.as, st |-> r.st]

\* Mutant: the slots of a handler body are handed out again after it.
keep_floor_not(st, before) == [st EXCEPT !.nlocals = IF @ < before.nlocals THEN before.nlocals ELSE @]

\* A handler body can be resumed after the code that follows it has started, so
\* its slots stay its own.
keep_floor(st, before) ==
    LET floor == IF st.floor < st.nlocals + 1 THEN st.nlocals + 1 ELSE st.floor
    IN  [st EXCEPT !.floor = floor,
                   !.next = IF @ < floor THEN floor ELSE @,
                   !.nlocals = IF @ < before.nlocals THEN before.nlocals ELSE @]

\* Computed fields are bound just around the construction, each in a slot
\* reserved before the field converts.
cfields(ts, scope, st) ==
    IF ts = << >> THEN [as |-> << >>, lets |-> << >>, st |-> st]
    ELSE IF is_atom(Head(ts))
    THEN LET a == atom(Head(ts), scope, st)
             r == cfields(Tail(ts), scope, a.st)
         IN  [r EXCEPT !.as = <<a.a>> \o @]
    ELSE LET s == st.next
             b == cexpr(Head(ts), scope, alloc_local(st), FALSE)
             r == cfields(Tail(ts), scope, b.st)
         IN  [as |-> <<Local(s)>> \o r.as, lets |-> <<[s |-> s, rhs |-> b.e]>> \o r.lets, st |-> r.st]

\* Each alternative binds its payload to the next slots and gives them back.
calts(arms, scope, st) ==
    IF arms = << >> THEN [alts |-> << >>, st |-> st]
    ELSE LET pat == Head(arms).pat
             n == IF pat.k = "pvariant" THEN Len(pat.ps) ELSE 0
             base == st.next
             st1 == [st EXCEPT !.next = @ + n,
                               !.nlocals = IF @ < base + n - 1 THEN base + n - 1 ELSE @]
             b == cexpr(Head(arms).e, scope \o [i \in 1..n |-> Local(base + i - 1)], st1, TRUE)
             r == calts(Tail(arms), scope, free_locals(b.st, n))
         IN  [alts |-> <<Alt(pat, base, [i \in 1..n |-> TRUE], b.e)>> \o r.alts, st |-> r.st]

\* A clause is one code of two parameters: the argument, then the continuation.
\* It resumes "never" when its body does not mention the continuation.
cclauses(cs, scope, st) ==
    IF cs = << >> THEN [cs |-> << >>, st |-> st]
    ELSE LET f == lift(Head(cs).e, 2, scope, st)
             never == ~imentions(f.st.codes[f.a.code].e, 2)
             r == cclauses(Tail(cs), scope, f.st)
         IN  [cs |-> <<[op |-> Head(cs).op, fun |-> f.a, never |-> never]>> \o r.cs, st |-> r.st]

cexpr(t, scope, st, tail) ==
    CASE is_atom(t) -> LET a == atom(t, scope, st) IN [e |-> IRet(a.a), st |-> a.st]
      [] t.k = "fault" -> [e |-> IFault(t.w), st |-> st]
      [] t.k \in {"app", "tuple", "field", "struct"} ->
           LET as == atoms(Each(LAMBDA kid: kid.t, Kids(t)), scope, st)
               n == Len(as.as)
           IN  [e |-> CASE t.k = "app" -> IApp(as.as[1], as.as[2], tail, FALSE)
                        [] t.k = "tuple" -> ITuple(as.as)
                        [] t.k = "field" -> IField(as.as[1], t.l)
                        [] t.k = "struct" ->
                             IStruct(IF t.base = None THEN None ELSE as.as[1], t.ls,
                                     SubSeq(as.as, n - Len(t.fs) + 1, n)),
                st |-> as.st]
      [] t.k = "let" ->
           LET s == st.next
               bound == Append(scope, Local(s))
               v == cexpr(t.v, IF t.rec THEN bound ELSE scope, alloc_local(st), FALSE)
               b == cexpr(t.e, bound, v.st, tail)
           IN  [e |-> ILet(s, v.e, b.e), st |-> free_local(b.st)]
      [] t.k = "case" ->
           LET a == atom(t.s, scope, st)
               alts == calts(t.arms, scope, a.st)
               d == IF t.d = None THEN [e |-> IFault("no pattern matched"), st |-> alts.st]
                    ELSE cexpr(t.d, scope, alts.st, tail)
           IN  [e |-> ICase(a.a, alts.alts, d.e), st |-> d.st]
      [] t.k = "variant" ->
           LET f == cfields(t.fs, scope, st)
           IN  [e |-> FoldRight(LAMBDA l, e: ILet(l.s, l.rhs, e), f.lets, IVariant(t.tag, f.as, 0)),
                st |-> free_locals(f.st, Len(f.lets))]
      [] t.k = "handle" ->
           LET b == cexpr(t.e, scope, [st EXCEPT !.nlocals = st.next - 1], TRUE)
               cs == cclauses(t.clauses, scope, keep_floor(b.st, st))
               els == IF t.els = None
                      THEN lift([k |-> "var", x |-> <<"%x">>, ix |-> 1], 1, scope, cs.st)
                      ELSE lift(t.els.e, 1, scope, cs.st)
           IN  [e |-> IHandle(b.e, cs.cs, els.a), st |-> els.st]
      [] t.k = "defer" ->
           LET c == lift(t.c, 0, scope, st)
               b == cexpr(t.e, scope, c.st, tail)
           IN  [e |-> IDefer(c.a, b.e), st |-> b.st]

-----------------------------------------------------------------------------
(* Partial applications sink to where they are saturated. *)
RECURSIVE place_partial(_, _, _), sink_partials(_, _, _)

\* body with slot bound to rhs just before the application of it, when that is
\* its only use on body's spine of lets; None otherwise.
place_partial(s, rhs, body) ==
    LET applies(e) == e.k = "app" /\ e.f = Local(s) /\ ~ReadsSlot(AtomVars(e.a), s)
    IN  IF applies(body) THEN ILet(s, rhs, body)
        ELSE IF body.k # "let" THEN None
        ELSE IF applies(body.rhs)
        THEN IF imentions(body.e, s) THEN None ELSE ILet(s, rhs, body)
        ELSE IF imentions(body.rhs, s) THEN None
        ELSE LET r == place_partial(s, rhs, body.e) IN IF r = None THEN None ELSE [body EXCEPT !.e = r]

\* arity gives the operands of the globals and builtins, partials those that
\* each slot in scope still lacks.
sink_partials(e, arity, partials) ==
    IF e.k # "let" THEN IMap(e, Each(LAMBDA kid: sink_partials(kid, arity, partials), IKids(e)))
    ELSE LET rhs == sink_partials(e.rhs, arity, partials)
             left == CASE rhs.k = "app" /\ rhs.f.k = "glob" /\ rhs.f.x \in DOMAIN arity -> arity[rhs.f.x] - 1
                       [] rhs.k = "app" /\ rhs.f.k = "local" /\ rhs.f.s \in DOMAIN partials ->
                            partials[rhs.f.s] - 1
                       [] OTHER -> 0
             body == sink_partials(e.e, arity,
                        [s \in (DOMAIN partials \ {e.s}) \cup (IF left >= 1 THEN {e.s} ELSE {}) |->
                            IF s = e.s THEN left ELSE partials[s]])
             placed == place_partial(e.s, rhs, body)
         IN  IF left >= 1 /\ placed # None THEN placed ELSE ILet(e.s, rhs, body)

RECURSIVE subst_atom(_, _, _), substitute(_, _, _), propagate_copies(_)

subst_atom(a, s, x) ==
    IF a = Local(s) THEN x
    ELSE IF a.k = "clos" THEN [a EXCEPT !.caps = [i \in DOMAIN a.caps |-> subst_atom(a.caps[i], s, x)]]
    ELSE a

substitute(e, s, x) ==
    LET f == WithOperands(e, Each(LAMBDA a: subst_atom(a, s, x), Operands(e)))
    IN  IMap(f, Each(LAMBDA kid: substitute(kid, s, x), IKids(e)))

\* let s = x in e, for a local or captured x, is e reading x for s.
propagate_copies(e) ==
    IF e.k = "let" /\ e.rhs.k = "ret" /\ e.rhs.a.k \in {"local", "env"} /\ e.rhs.a # Local(e.s)
    THEN substitute(propagate_copies(e.e), e.s, e.rhs.a)
    ELSE IMap(e, Each(propagate_copies, IKids(e)))

-----------------------------------------------------------------------------
RECURSIVE lambdas(_, _), convert(_, _, _)

\* How many operands a code takes by returning one lambda after another.
lambdas(codes, c) ==
    IF codes[c].e.k = "ret" /\ codes[c].e.a.k = "clos" THEN 1 + lambdas(codes, codes[c].e.a.code) ELSE 0

\* The codes of globals gs from the i-th on, and the code of each global.
convert(gs, i, codes) ==
    IF i > Len(gs) THEN [codes |-> codes, globals |-> << >>]
    ELSE LET b == cexpr(gs[i].t, << >>, [next |-> 1, nlocals |-> 0, floor |-> 1, codes |-> codes], TRUE)
             code == [nparams |-> 0, nlocals |-> b.st.nlocals, e |-> b.e, borrowed |-> {}]
             r == convert(gs, i + 1, Append(b.st.codes, code))
         IN  [r EXCEPT !.globals = <<[x |-> gs[i].x, code |-> Len(b.st.codes) + 1]>> \o @]

\* gs is a sequence of [x, t], primArity the operands of each builtin, before the
\* program these follow: its codes come first, and its globals are no builtins.
convert_closures_after(gs, primArity, before) ==
    LET n == Len(before.codes)
        c == convert(gs, 1, before.codes)
        codeOf == [x \in {gs[i].x : i \in DOMAIN gs} |->
                      (CHOOSE g \in Range(c.globals) : g.x = x).code]
        arity == [x \in DOMAIN codeOf \cup (DOMAIN primArity \ DOMAIN before.globals) |->
                      IF x \in DOMAIN codeOf THEN lambdas(c.codes, codeOf[x]) ELSE primArity[x]]
    IN  [codes |-> [i \in 1..(Len(c.codes) - n) |->
                       [c.codes[n + i] EXCEPT !.e = propagate_copies(sink_partials(@, arity, << >>))]],
         globals |-> codeOf]

convert_closures(gs, primArity) == convert_closures_after(gs, primArity, [codes |-> << >>, globals |-> << >>])
=============================================================================
