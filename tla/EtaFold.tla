------------------------------ MODULE EtaFold -------------------------------
(***************************************************************************)
(* passes/eta_fold.rs: a saturated use of a global or of an instance's     *)
(* method that is an eta-expanded primitive calls the primitive, and one   *)
(* that reorders its parameters or negates the result is unwrapped.        *)
(***************************************************************************)
EXTENDS Core

\* The builtins whose name has the `@` sigil.
intrinsics == DOMAIN Prims \ {<<"==">>, <<"<=">>, <<">=">>, <<"not">>, <<"record_without">>}

RECURSIVE params(_), spine(_)

\* The leading parameters of a lambda and what is under them.
params(t) ==
    IF t.k # "lam" THEN [ps |-> << >>, e |-> t]
    ELSE LET r == params(t.e) IN [ps |-> <<t.x>> \o r.ps, e |-> r.e]

\* The head of an application and its arguments.
spine(t) ==
    IF t.k # "app" THEN [h |-> t, as |-> << >>]
    ELSE LET r == spine(t.f) IN [h |-> r.h, as |-> Append(r.as, t.a)]

applied(h, as) == FoldLeft(App, h, as)

eta_primitive(t) ==
    LET l == params(t)
        s == spine(l.e)
    IN  IF l.ps # << >> /\ s.h.k = "var" /\ s.h.x \in intrinsics /\ s.as = Each(Var, l.ps)
        THEN [prim |-> s.h.x, arity |-> Len(l.ps)] ELSE None

\* The primitive that t applied to argc arguments calls, None for none.
folded_head(t, argc, prims) ==
    IF t.k = "var" /\ qualified(t.x) /\ t.x \in DOMAIN prims.globals
    THEN IF argc >= prims.globals[t.x].arity THEN Var(prims.globals[t.x].prim) ELSE None
    ELSE IF t.k = "field" /\ t.r.k = "var" /\ qualified(t.r.x) /\ <<t.r.x, t.l>> \in DOMAIN prims.methods
    THEN LET m == prims.methods[<<t.r.x, t.l>>] IN IF argc = m.arity THEN Var(m.prim) ELSE None
    ELSE None

reorders(w) == \E k \in DOMAIN w.order : w.order[k] # k

\* \p1 .. pn => [not] (prim p_order[1] .. p_order[n])
wrapped_primitive(t, prims) ==
    LET l == params(t)
        negate == l.e.k = "app" /\ l.e.f = Var(<<"not">>)
        s == spine(IF negate THEN l.e.a ELSE l.e)
        n == Len(l.ps)
        head == IF s.h.k = "var" /\ s.h.x \in intrinsics THEN s.h ELSE folded_head(s.h, n, prims)
        at(a) == CHOOSE p \in 1..n : a = Var(l.ps[p])
        w == [prim |-> head.x, order |-> Each(at, s.as), negate |-> negate]
    IN  IF /\ n > 0 /\ IsInjective(l.ps) /\ <<"not">> \notin Range(l.ps)
           /\ Len(s.as) = n /\ head # None /\ Prims[head.x] = n
           /\ Range(s.as) = Range(Each(Var, l.ps))
           /\ (negate \/ reorders(w))
        THEN w ELSE None

\* What f finds in the globals gs, by name; pick chooses between definitions.
Found(gs, f(_), pick(_)) ==
    LET at(x) == {i \in DOMAIN gs : gs[i].x = x /\ f(gs[i].t) # None}
    IN  [x \in {g.x : g \in {h \in Range(gs) : f(h.t) # None}} |-> f(gs[pick(at(x))].t)]

\* Methods lifted out of their literal are references to what they became.
primitive_methods(gs) ==
    LET globals == Found(gs, eta_primitive, Min)
        structs == {g \in Range(gs) : g.t.k = "struct" /\ g.t.base = None}
        of(t) == IF t.k = "var" THEN IF t.x \in DOMAIN globals THEN globals[t.x] ELSE None ELSE eta_primitive(t)
        fields == UNION {{<<g.x, g.t.ls[i], of(g.t.fs[i])>> : i \in DOMAIN g.t.fs} : g \in structs}
        found == {f \in fields : f[3] # None}
        methods == [m \in {<<f[1], f[2]>> : f \in found} |-> (CHOOSE f \in found : <<f[1], f[2]>> = m)[3]]
        first == [globals |-> globals, methods |-> methods, wrappers |-> << >>]
        rest == SelectSeq(gs, LAMBDA g: g.x \notin DOMAIN globals)
    IN  [first EXCEPT !.wrappers = Found(rest, LAMBDA t: wrapped_primitive(t, first), Max)]

\* prims, and what other knows besides.
inherit(prims, other) == [t \in DOMAIN prims |-> prims[t] @@ other[t]]

RECURSIVE rewrite(_, _)

\* A saturated use of a wrapper.  Arguments change places only if at most one of
\* them takes an evaluation step.
unwrap(s, prims) ==
    IF s.h.k # "var" \/ ~qualified(s.h.x) \/ s.h.x \notin DOMAIN prims.wrappers THEN None
    ELSE LET w == prims.wrappers[s.h.x]
             n == Len(w.order)
             as == Each(LAMBDA a: rewrite(a, prims), s.as)
             steps == {i \in 1..n : ~is_atom(as[i])}
             call == applied(Var(w.prim), [k \in 1..n |-> as[w.order[k]]] \o << >>)
         IN  IF Len(as) < n \/ (reorders(w) /\ Cardinality(steps) > 1) THEN None
             ELSE applied(IF w.negate THEN App(Var(<<"not">>), call) ELSE call, SubSeq(as, n + 1, Len(as)))

rewrite(t, prims) ==
    LET s == spine(t)
        u == unwrap(s, prims)
        h == folded_head(s.h, Len(s.as), prims)
    IN  IF t.k # "app" THEN Rewrite(LAMBDA kid: rewrite(kid.t, prims), t)
        ELSE IF u # None THEN u
        ELSE applied(IF h # None THEN h ELSE rewrite(s.h, prims), Each(LAMBDA a: rewrite(a, prims), s.as))

\* The field of an instance is the primitive itself.
reduce_methods(g, prims) ==
    LET t == g.t
        prim(i) == <<g.x, t.ls[i]>> \in DOMAIN prims.methods
    IN  IF t.k # "struct" \/ t.base # None THEN g
        ELSE [g EXCEPT !.t.fs = [i \in DOMAIN @ |-> IF prim(i) THEN Var(prims.methods[<<g.x, t.ls[i]>>].prim) ELSE @[i]]]

fold_primitive_methods_with(gs, prims) ==
    IF \A t \in DOMAIN prims : DOMAIN prims[t] = {} THEN gs
    ELSE Each(LAMBDA g: reduce_methods([g EXCEPT !.t = rewrite(@, prims)], prims), gs)

fold_primitive_methods(gs) == fold_primitive_methods_with(gs, primitive_methods(gs))
=============================================================================
