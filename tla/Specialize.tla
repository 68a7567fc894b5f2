----------------------------- MODULE Specialize -----------------------------
(***************************************************************************)
(* passes/specialize.rs: a call f K of a `@use` function whose argument is *)
(* a known instance becomes a reference to f's clone for K, and a method   *)
(* of a known instance the method itself.  Every operation takes the       *)
(* specializer and gives it back with the term it found, None for no term. *)
(***************************************************************************)
EXTENDS Core

MAX_DEPTH == 4
MAX_ADDED == 4096

Gives(s, t) == [s |-> s, t |-> t]
Put(f, x, v) == [y \in DOMAIN f \cup {x} |-> IF y = x THEN v ELSE f[y]]

\* t names a global whose body is there and no longer being built.
global_of(s, t) == t.k = "var" /\ qualified(t.x) /\ t.x \in DOMAIN s.bodies \ s.pending

add_global(s, x, t) == [s EXCEPT !.bodies = Put(@, x, t), !.added = Append(@, x)]

ctx_head(s, t) == global_of(s, t) /\ t.x \in s.ctx

\* A struct literal or a tuple: what an instance or a bundle of them is.
is_instance(t) == (t.k = "struct" /\ t.base = None) \/ t.k = "tuple"

full(s) == Len(s.added) >= MAX_ADDED

copy_leaf(t) == IF t.k \in {"var", "int", "str", "bool", "unit"} THEN t ELSE None

\* The global that holds the tuple of the globals ps.
bundle(s, ps) ==
    LET x == <<Head(Head(ps)), "ctx#b", s.next>>
        depth == Max({0} \cup {s.depth[p] : p \in Range(ps) \cap DOMAIN s.depth})
    IN  CASE ps \in DOMAIN s.bundles -> Gives(s, s.bundles[ps])
          [] ps \notin DOMAIN s.bundles /\ (full(s) \/ ps = << >>) -> Gives(s, None)
          [] OTHER ->
               Gives(add_global([s EXCEPT !.next = @ + 1, !.depth = Put(@, x, depth), !.bundles = Put(@, ps, Var(x))],
                                x, Tuple(Each(Var, ps))),
                     Var(x))

RECURSIVE known(_, _), rw(_, _, _)

\* The known instance t is; a tuple of known instances becomes a global.
known(s, t) ==
    LET part(a, item) ==
            LET g == known(a.s, item)
            IN  IF ~a.ok THEN a
                ELSE [s |-> g.s, ok |-> g.t # None, ps |-> IF g.t = None THEN a.ps ELSE Append(a.ps, g.t.x)]
        r == InTurn(part, [s |-> s, ok |-> TRUE, ps |-> << >>], t.fs)
    IN  IF t.k = "tuple" THEN IF r.ok THEN bundle(r.s, r.ps) ELSE Gives(r.s, None)
        ELSE Gives(s, IF global_of(s, t) /\ is_instance(s.bodies[t.x]) THEN t ELSE None)

\* The clone of f with its context parameter bound to k, while the clone's body
\* is being built under its own name.
clone_for(s, f, k) ==
    LET depth == IF k \in DOMAIN s.depth THEN s.depth[k] ELSE 0
        body == s.bodies[f]
        value == body.k = "lam" /\ (body.e.k = "lam" \/ is_instance(body.e))
        c == f \o <<"#s", s.next>>
        r == rw([s EXCEPT !.next = @ + 1, !.clones = Put(@, <<f, k>>, Var(c)), !.depth = Put(@, c, depth + 1),
                          !.pending = @ \cup {c}],
                body.e, [x |-> body.x, k |-> k])
    IN  IF <<f, k>> \in DOMAIN s.clones THEN Gives(s, s.clones[<<f, k>>])
        ELSE IF depth >= MAX_DEPTH \/ full(s) THEN Gives(s, None)
        ELSE IF ~value THEN Gives([s EXCEPT !.clones = Put(@, <<f, k>>, None)], None)
        ELSE Gives(add_global([r.s EXCEPT !.pending = @ \ {c}], c, r.t), Var(c))

\* Field l of instance k, the lambda t, as a global of its own.
lift(s, k, l, t) ==
    LET x == k \o <<"#f", l>>
        r == rw([s EXCEPT !.lifted = Put(@, <<k, l>>, Var(x)), !.pending = @ \cup {x}], t, None)
    IN  IF <<k, l>> \in DOMAIN s.lifted THEN Gives(s, s.lifted[<<k, l>>])
        ELSE IF full(s) THEN Gives(s, None)
        ELSE Gives(add_global([r.s EXCEPT !.pending = @ \ {x}], x, r.t), Var(x))

\* The method or component l of the known instance k.
method(s, k, l) ==
    LET t == s.bodies[k]
        at == {i \in DOMAIN t.fs : IF t.k = "tuple" THEN i - 1 = l ELSE t.ls[i] = l}
        field == t.fs[Min(at)]
    IN  IF at = {} THEN Gives(s, None)
        ELSE IF t.k = "struct" /\ field.k = "lam" THEN lift(s, k, l, field)
        ELSE Gives(s, copy_leaf(field))

\* r.l without the projection.  Components of a tuple are dropped only if none
\* of them does anything.
project(s, r, l) ==
    IF r.k = "tuple"
    THEN Gives(s, IF (\A i \in DOMAIN r.fs : global_of(s, r.fs[i])) /\ l + 1 \in DOMAIN r.fs
                  THEN copy_leaf(r.fs[l + 1]) ELSE None)
    ELSE IF global_of(s, r) /\ is_instance(s.bodies[r.x]) THEN method(s, r.x, l)
    ELSE Gives(s, None)

\* Where the application of f to a calls a clone, the clone.
specialized(s, f, a) ==
    LET k == known(s, a)
    IN  IF ~ctx_head(s, f) THEN Gives(s, None)
        ELSE IF k.t = None THEN k ELSE clone_for(k.s, f.x, k.t.x)

rw_children(s, t, sub) ==
    LET under(c) == IF sub # None /\ sub.x \in Range(c.bound) THEN None ELSE sub
        kid(a, c) == LET r == rw(a.s, c.t, under(c)) IN [s |-> r.s, ts |-> Append(a.ts, r.t)]
        ks == InTurn(kid, [s |-> s, ts |-> << >>], Kids(t))
    IN  Gives(ks.s, map_node(t, ks.ts))

\* t with the name sub.x replaced by the instance sub.k, and specialized.
rw(s, t, sub) ==
    LET f == rw(s, t.f, sub)
        a == rw(f.s, t.a, sub)
        c == specialized(a.s, f.t, a.t)
        r == rw(s, t.r, sub)
        m == project(r.s, r.t, t.l)
    IN  CASE t.k = "var" -> Gives(s, IF sub # None /\ ~qualified(t.x) /\ t.x = sub.x THEN Var(sub.k) ELSE t)
          [] t.k = "app" -> Gives(c.s, IF c.t = None THEN App(f.t, a.t) ELSE c.t)
          [] t.k = "field" -> Gives(m.s, IF m.t = None THEN Field(r.t, t.l) ELSE m.t)
          [] OTHER -> rw_children(s, t, sub)

\* An instance's literal refers to the methods lifted out of it.
patch_lifted(s) ==
    [s EXCEPT !.bodies = [x \in DOMAIN @ |->
        LET t == @[x]
            moved(i) == t.fs[i].k = "lam" /\ <<x, t.ls[i]>> \in DOMAIN s.lifted
        IN  IF t.k = "struct" /\ t.base = None
            THEN [t EXCEPT !.fs = [i \in DOMAIN @ |-> IF moved(i) THEN s.lifted[<<x, t.ls[i]>>] ELSE @[i]]]
            ELSE t]]

\* A reference reaches the first definition of its name.
specialize_contexts(gs) ==
    LET first(x) == Min({i \in DOMAIN gs : gs[i].x = x})
        start == [bodies |-> [x \in {g.x : g \in Range(gs)} |-> gs[first(x)].t],
                  ctx |-> {g.x : g \in {h \in Range(gs) : h.ctx}},
                  clones |-> << >>, lifted |-> << >>, bundles |-> << >>, depth |-> << >>,
                  pending |-> {}, added |-> << >>, next |-> 0]
        one(a, i) == LET r == rw(a.s, gs[i].t, None)
                     IN  [s |-> IF first(gs[i].x) = i THEN [r.s EXCEPT !.bodies[gs[i].x] = r.t] ELSE r.s,
                          ts |-> Append(a.ts, r.t)]
        all == InTurn(one, [s |-> start, ts |-> << >>], [i \in DOMAIN gs |-> i])
        s == patch_lifted(all.s)
    IN  [i \in DOMAIN gs |-> [gs[i] EXCEPT !.t = IF first(gs[i].x) = i THEN s.bodies[gs[i].x] ELSE all.ts[i]]]
        \o Each(LAMBDA x: [x |-> x, t |-> s.bodies[x], ctx |-> FALSE], s.added)
=============================================================================
