------------------------------- MODULE Typing -------------------------------
(***************************************************************************)
(* Checking a program: frontend/src/typing.rs and the first and the last   *)
(* part of algorithm_w.rs (definitions against their signatures, numeric   *)
(* literals).  Definitions are checked a component of the dependency graph *)
(* at a time, what a component needs before it.                            *)
(***************************************************************************)
EXTENDS Infer

\* The builtins' types as CORE.thx declares them.
builtins ==
    LET t == TName("t")
        a == TName("a")
        e == TName("e")
    IN  <<Def(<<"@iadd">>, arrow(t, arrow(t, t)), None), Def(<<"@isub">>, arrow(t, arrow(t, t)), None),
          Def(<<"==">>, arrow(t, arrow(t, BoolTy)), None), Def(<<"<=">>, arrow(t, arrow(t, BoolTy)), None),
          Def(<<";">>, arrow(a, arrow(t, t)), None),
          Def(<<"<|">>, arrow(arrow_eff(a, t, e), arrow_eff(a, t, e)), None),
          Def(<<"|>">>, arrow(a, arrow_eff(arrow_eff(a, t, e), t, e)), None)>>

arrow_arity_ty(sig) == LET RECURSIVE n(_) n(t) == IF t.k = "arrow" THEN 1 + n(t.to) ELSE 0 IN n(sig)
leading_lam_params(e) == LET RECURSIVE n(_) n(t) == IF t.k = "fun" THEN Len(t.ps) + n(t.e) ELSE 0 IN n(e)

\* The variables of a signature, those that end a row apart.
RECURSIVE row_tails(_)
row_tails(ty) ==
    LET own == CASE ty.k = "arrow" -> {row_tail(ty.eff)} [] ty.k = "record" -> {row_tail(ty.row)} [] OTHER -> {}
    IN  {r.x : r \in {s \in own : s.k = "name"}} \cup UNION {row_tails(p) : p \in Range(parts(ty))}
sig_has_row_tail(sig) == row_tails(sig) # {}

-----------------------------------------------------------------------------
(* A body against its signature. *)

bind_record_param(c, ty, t) ==
    LET fs == record_fields_of(c, t)
        one(d, f) ==
            LET b == scope_bind(d, <<f.l>>, fs[position(labels(fs), f.l)].ty)
            IN  IF f.with THEN scope_struct_fields(b, fs[position(labels(fs), f.l)].ty).c ELSE b
    IN  InTurn(one, c, param_fields(ty))

RECURSIVE check_body_against_sig(_, _, _, _, _)
check_body_against_sig(c, e, sig, t, at) ==
    LET a == arrow_parts(c, t)
        b == bind_record_param([a.c EXCEPT !.ambient = a.eff], sig.from, a.from)
    IN  IF e.k = "extern" \/ leading_lam_params(e) >= arrow_arity_ty(sig) \/ ~is_sugar_param(sig.from) THEN check(c, e, t, at)
        ELSE back_to(check_body_against_sig(b, e, sig.to, a.to, at), c)

bind_signature(c, d, decl) == LET s == ty_of_ast(c, d.sig, << >>) IN unify(s.c, decl, s.t)

\* The body's row is the closed empty one.  Also the variables of the signature
\* that the body has to leave alone.
check_def_body(c, d, decl, at) ==
    LET s == ty_of_ast([c EXCEPT !.ambient = RowEmpty], d.sig, << >>)
        u == unify(s.c, decl, s.t)
        i == infer([c EXCEPT !.ambient = RowEmpty], d.e, at)
    IN  IF d.sig = None THEN [c |-> unify(i.c, decl, i.t), rigid |-> << >>]
        ELSE [c |-> check_body_against_sig(u, d.e, d.sig, s.t, at),
              rigid |-> [x \in DOMAIN s.m \ row_tails(d.sig) |-> s.m[x]]]

\* Each is still a variable, and not another's.
check_sig_vars_rigid(c, vars) ==
    LET ok == /\ \A x \in DOMAIN vars : resolve(c, vars[x]).k = "var"
              /\ \A x, y \in DOMAIN vars : resolve(c, vars[x]) = resolve(c, vars[y]) => x = y
    IN  IF ~c.ok \/ ok THEN c ELSE Fail(c)

-----------------------------------------------------------------------------
(* Integer literals. *)
default_numerics(c) ==
    LET one(d, t) ==
            LET r == resolve(d, t)
            IN  IF r.k = "var" THEN unify(d, t, IntTy)
                ELSE IF r.k = "con" /\ r.n \in int_names \cup {"@Float64", "@Float32"} THEN d
                \* a constructor nobody declared is reported elsewhere
                ELSE IF r.k \in {"con", "rigid"} /\ ~is_known_type(d, r) THEN d
                ELSE Fail(d)
    IN  InTurn(one, [c EXCEPT !.numeric = << >>], c.numeric)

check_int_literals(c) ==
    LET fits(l) == \A dom \in int_type_domain(c, l.t) : dom[1] <= l.n /\ l.n <= dom[2]
    IN  IF ~c.ok \/ \A l \in Range(c.literals) : fits(l) THEN c ELSE Fail(c)

-----------------------------------------------------------------------------
(* Components. *)
bind_global(c, x, t) == [c EXCEPT !.globals = (x :> t) @@ @]

\* is lists the component's definitions.
check_component(c, is, defs) ==
    LET declare(r, i) ==
            LET d == fresh(r.c)
                s == scheme_of(d, defs[i].sig)
                open == defs[i].sig = None \/ sig_has_row_tail(defs[i].sig)
            IN  [c |-> IF open THEN bind_global(d, defs[i].x, newest(d)) ELSE bind_global(s.c, defs[i].x, s.t),
                 decls |-> Append(r.decls, newest(d))]
        dcl == InTurn(declare, [c |-> enter_level(c), decls |-> << >>], is)
        signed(d, j) == IF defs[is[j]].sig = None THEN d ELSE bind_signature(d, defs[is[j]], dcl.decls[j])
        body(r, j) ==
            LET b == check_def_body(r.c, defs[is[j]], dcl.decls[j], <<is[j]>>)
            IN  IF r.c.ok THEN [c |-> b.c, rigid |-> Append(r.rigid, b.rigid)] ELSE r
        start == IF Len(is) > 1 THEN InTurn(signed, dcl.c, Idx(is)) ELSE dcl.c
        bodies == InTurn(body, [c |-> start, rigid |-> << >>], Idx(is))
        solved == IF bodies.c.ok THEN default_numerics(bodies.c) ELSE bodies.c
        rigid == leave_level(InTurn(check_sig_vars_rigid, solved, bodies.rigid))
        general(d, j) == bind_global(generalize_except(d, dcl.decls[j], pending_vars(d)), defs[is[j]].x, dcl.decls[j])
    IN  IF rigid.ok /\ \A j \in DOMAIN is : defs[is[j]].sig # None THEN InTurn(general, rigid, Idx(is)) ELSE Fail(rigid)

\* The definitions that x leads to.
RECURSIVE leads_to(_, _)
leads_to(graph, S) == LET T == S \cup UNION {graph[x] : x \in S} IN IF T = S THEN S ELSE leads_to(graph, T)

\* The first component whose other needs are done, as positions; none when all are.
next_component(defs, done) ==
    LET graph == dependency_graph(defs)
        needs(x) == leads_to(graph, graph[x])
        comp(x) == {x} \cup {y \in needs(x) : x \in needs(y)}
        ready == {i \in DOMAIN defs : defs[i].x \notin done /\ needs(defs[i].x) \subseteq done \cup comp(defs[i].x)}
    IN  IF ready = {} THEN << >> ELSE SelectSeq(Idx(defs), LAMBDA i: defs[i].x \in comp(defs[Min(ready)].x))

register_builtin(c, d) == LET s == scheme_of(c, d.sig) IN bind_global(s.c, d.x, s.t)

\* The checker's state before the definitions of program p.
declared(p) ==
    LET new == [vars |-> << >>, level |-> 0, ints |-> {}, trail |-> << >>, ok |-> TRUE, stuck |-> FALSE, structs |-> p.structs,
                unions |-> p.unions, effects |-> << >>, env |-> << >>, globals |-> << >>, ambient |-> RowEmpty,
                numeric |-> << >>, literals |-> << >>, notes |-> << >>]
    IN  register_effects(InTurn(register_builtin, new, builtins), p.effects)
=============================================================================
