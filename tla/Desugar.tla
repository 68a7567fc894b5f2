------------------------------ MODULE Desugar -------------------------------
(***************************************************************************)
(* From the surface to Core: frontend/src/desugar.rs, and the layouts that *)
(* typing/resolved.rs keeps for it.  d has the program p and the checker's *)
(* notes; at is the place of an expression, as in Infer.  The names that   *)
(* desugaring invents are a tag and a place.                               *)
(***************************************************************************)
EXTENDS Declarations

noted(d, kind, at) == <<kind, at>> \in DOMAIN d.notes
noted_as(d, kind, at) == d.notes[<<kind, at>>]
fresh_name(tag, at) == <<tag>> \o at

-----------------------------------------------------------------------------
(* The declared layouts. *)

\* One layout per tag: of two unions with the tag, the later one's.  ty is no
\* more than a preference.
variant_layout(d, tag) ==
    LET us == SelectSeq(d.p.unions, LAMBDA u: \E v \in Range(u.vs) : v.tag = tag)
        u == us[Len(us)]
    IN  [union |-> u.n, payload |-> (CHOOSE v \in Range(u.vs) : v.tag = tag).payload]

has_struct(d, n) == \E s \in Range(d.p.structs) : s.n = n
struct_decl(d, n) == CHOOSE s \in Range(d.p.structs) : s.n = n

\* The struct of exactly these names, "" if there is none.
struct_by_fields(d, ls) ==
    LET hits == {s \in Range(d.p.structs) : Len(s.fs) = Len(ls) /\ Range(ls) \subseteq Range(labels(s.fs))}
    IN  IF "" \in Range(ls) \/ hits = {} THEN "" ELSE (CHOOSE s \in hits : TRUE).n

\* The slot's value, evaluated only when an arm looks at it.
delay(e, at) == App(Var(<<"@delay">>), Lam(fresh_name("%delay", at), e))
delay_if(lazy, e, at) == IF lazy THEN delay(e, at) ELSE e

case1(s, pat, e) == Case(s, <<Arm(pat, None, e)>>, None)

\* The subject s as x, and each of its fields as a name of its own.
desugar_with(x, s, ls, e) ==
    let_(x, s, FoldRight(LAMBDA l, body: let_(<<l>>, Field(Var(x), l), body), ls, e))

-----------------------------------------------------------------------------
(* Patterns. *)
RECURSIVE pat(_, _)

field_pats(d, fs, ls) ==
    LET name(i) == IF fs[i].l # "" THEN fs[i].l ELSE ls[i]
        sub(i) == IF fs[i].p = None THEN PVar(<<fs[i].l>>) ELSE pat(d, fs[i].p)
    IN  [ls |-> [i \in DOMAIN fs |-> name(i)] \o << >>, ps |-> [i \in DOMAIN fs |-> sub(i)] \o << >>]

\* A named field does not count among the positional ones.
variant_field_pats(d, fs, ls) ==
    LET one(r, f) ==
            LET by_name == position(ls, f.l)
                slot == IF f.l # "" /\ by_name # 0 THEN by_name ELSE r.next
            IN  [slots |-> [r.slots EXCEPT ![slot] = IF f.p = None THEN PVar(<<f.l>>) ELSE pat(d, f.p)],
                 next |-> IF f.l = "" \/ f.p = None THEN r.next + 1 ELSE r.next]
    IN  FoldLeft(one, [slots |-> Each(LAMBDA l: PWild, ls), next |-> 1], fs).slots

pat(d, p) ==
    LET named == field_pats(d, p.fs, IF p.k = "spstruct" THEN labels(struct_decl(d, p.ty).fs) ELSE << >>)
    IN  CASE p.k = "ptuple" -> PTuple(Each(LAMBDA q: pat(d, q), p.ps))
          [] p.k = "spstruct" -> PStruct(named.ls, named.ps, None)
          [] p.k = "sprecord" -> PStruct(named.ls, named.ps, IF p.rest # None /\ p.rest.k = "pvar" THEN p.rest ELSE None)
          [] p.k = "spvariant" ->
               PVariant(p.tag, variant_field_pats(d, p.fs, labels(variant_layout(d, p.tag).payload)))
          [] OTHER -> p

-----------------------------------------------------------------------------
(* Expressions. *)
RECURSIVE expr(_, _, _), expr_core(_, _, _)

\* A pattern parameter is taken apart under the lambda that binds it.
lambda_param(d, p, e, at) ==
    CASE p.k = "pvar" -> Lam(p.x, e)
      [] p.k = "wild" -> Lam(fresh_name("%param", at), e)
      [] OTHER -> Lam(fresh_name("%param", at), case1(Var(fresh_name("%param", at)), pat(d, p), e))

binding(d, e, at) ==
    LET v == expr(d, e.v, Append(at, 2))
        body == expr(d, e.e, Append(at, 3))
    IN  CASE e.pat.k = "pvar" -> Let(e.pat.x, TRUE, v, body)
          [] e.pat.k = "wild" -> let_(fresh_name("%wild", at), v, body)
          [] OTHER -> case1(v, pat(d, e.pat), body)

binop(d, e, at) ==
    LET l == expr(d, e.l, Append(at, 1))
        r == expr(d, e.r, Append(at, 2))
    IN  CASE e.op = ";" -> let_(fresh_name("%seq", at), l, r)
          [] e.op = "|>" -> App(r, l)
          [] e.op = "<|" -> App(l, r)
          [] OTHER -> bin(e.op, l, r)

\* The labels of the declaration, its lazy slots delayed; ty "" if none is known.
struct_lit(d, ty, fs, spread, at) ==
    LET n == IF ty # "" THEN ty ELSE struct_by_fields(d, labels(fs))
        known == has_struct(d, n)
        ls == IF known THEN labels(struct_decl(d, n).fs) ELSE << >>
        label(i) == IF fs[i].l # "" THEN fs[i].l ELSE ls[i]
        lazy(i) == known /\ leads_back(d.p, struct_decl(d, n).fs[position(ls, label(i))].ty, n)
        field(i) == delay_if(lazy(i), expr(d, fs[i].e, Append(at, i)), Append(at, i))
    IN  Struct(IF spread = None THEN None ELSE expr(d, spread, Append(at, 0)),
               [i \in DOMAIN fs |-> label(i)] \o << >>, [i \in DOMAIN fs |-> field(i)] \o << >>)

\* A named field does not count among the positional ones; a slot without a
\* field is unit.
variant(d, e, at) ==
    LET layout == variant_layout(d, e.tag)
        ls == labels(layout.payload)
        one(r, i) ==
            LET f == e.fs[i]
                by_name == position(ls, f.l)
                slot == IF f.l # "" /\ by_name # 0 THEN by_name ELSE r.next
            IN  [slots |-> [r.slots EXCEPT ![slot] = expr(d, f.e, Append(at, i))],
                 next |-> IF f.l = "" THEN r.next + 1 ELSE r.next]
        slots == FoldLeft(one, [slots |-> Each(LAMBDA l: Unit, ls), next |-> 1], [i \in DOMAIN e.fs |-> i]).slots
        lazy(j) == leads_back(d.p, layout.payload[j].ty, layout.union)
    IN  Variant(e.tag, [j \in DOMAIN ls |-> delay_if(lazy(j), slots[j], Append(at, j))] \o << >>)

record(d, e, at) ==
    LET base == IF e.update # None THEN e.update ELSE e.with
    IN  IF noted(d, "struct", at) THEN struct_lit(d, noted_as(d, "struct", at), e.fs, None, at)
        ELSE Struct(IF base = None THEN None ELSE expr(d, base, Append(at, 0)), labels(e.fs),
                    [i \in DOMAIN e.fs |-> expr(d, e.fs[i].e, Append(at, i))] \o << >>)

\* An or-pattern is an arm for each alternative, with one guard and one body.
match_arms(d, e, at) ==
    LET arms(i) ==
            LET a == e.arms[i]
                g == IF a.guard = None THEN None ELSE expr(d, a.guard, at \o <<i, 0>>)
                b == expr(d, a.e, at \o <<i, 1>>)
            IN  Each(LAMBDA p: Arm(pat(d, p), g, b), a.pats)
    IN  FlattenSeq([i \in DOMAIN e.arms |-> arms(i)] \o << >>)

expr_core(d, e, at) ==
    LET sub(t, i) == expr(d, t, Append(at, i))
    IN  CASE e.k = "app" -> App(sub(e.f, 1), sub(e.a, 2))
          [] e.k = "binop" -> binop(d, e, at)
          [] e.k = "tuple" -> Tuple([i \in DOMAIN e.fs |-> sub(e.fs[i], i)] \o << >>)
          [] e.k = "field" -> Field(sub(e.r, 1), e.l)
          [] e.k = "structlit" ->
               struct_lit(d, IF e.ty = "" /\ noted(d, "struct", at) THEN noted_as(d, "struct", at) ELSE e.ty, e.fs, e.spread, at)
          [] e.k = "record" -> record(d, e, at)
          [] e.k = "variantlit" -> variant(d, e, at)
          [] e.k = "if" -> Case(sub(e.c, 1), <<Arm(PLit(Bool(TRUE)), None, sub(e.t, 2))>>, sub(e.e, 3))
          [] e.k = "match" -> Case(sub(e.s, 0), match_arms(d, e, at), None)
          [] e.k = "fun" -> FoldRight(LAMBDA i, b: lambda_param(d, e.ps[i].pat, b, Append(at, i)), [i \in DOMAIN e.ps |-> i], sub(e.e, 0))
          [] e.k = "letin" -> binding(d, e, at)
          [] e.k = "with" -> desugar_with(fresh_name("%with", at), sub(e.s, 1), noted_as(d, "with", at), sub(e.e, 2))
          [] e.k = "handle" ->
               Handle(sub(e.e, 0), e.kx,
                      [i \in DOMAIN e.clauses |-> Clause(e.clauses[i].op, e.clauses[i].x, sub(e.clauses[i].e, i))] \o << >>,
                      IF e.els = None THEN None ELSE [e.els EXCEPT !.e = sub(@, Len(e.clauses) + 1)])
          [] e.k = "defer" -> Defer(sub(e.c, 1), sub(e.e, 2))
          [] e.k = "ascribe" -> sub(e.e, 1)
          [] OTHER -> e

\* A value the checker promoted becomes the record with these labels.
promoted(d, e, ls, at) ==
    LET x == fresh_name("%promote", at)
    IN  IF e.k = "tuple" THEN Struct(None, ls, [i \in DOMAIN ls |-> expr(d, e.fs[i], Append(at, i))] \o << >>)
        ELSE IF Len(ls) = 1 THEN Struct(None, ls, <<expr_core(d, e, at)>>)
        ELSE let_(x, expr_core(d, e, at), Struct(None, ls, [i \in DOMAIN ls |-> Field(Var(x), i - 1)] \o << >>))

expr(d, e, at) ==
    IF noted(d, "promote", at) THEN promoted(d, e, noted_as(d, "promote", at), at) ELSE expr_core(d, e, at)

-----------------------------------------------------------------------------
(* Definitions. *)
RECURSIVE leading_lams(_), arrow_arity(_), ty_head_con(_), record_params(_, _, _, _)
leading_lams(t) == IF t.k = "lam" THEN 1 + leading_lams(t.e) ELSE 0
arrow_arity(sig) == IF sig.k = "arrow" THEN 1 + arrow_arity(sig.to) ELSE 0
ty_head_con(ty) == CASE ty.k = "con" -> ty.n [] ty.k = "app" -> ty_head_con(ty.h) [] OTHER -> ""

\* The lambda that binds a record parameter's fields by name.
record_param(d, fs, t, at) ==
    LET x == fresh_name("%rec", at)
        ls(f) == LET n == ty_head_con(f.ty) IN IF has_struct(d, n) THEN labels(struct_decl(d, n).fs) ELSE << >>
        scoped_(i, body) ==
            IF fs[i].with THEN desugar_with(fresh_name("%scope", Append(at, i)), Var(<<fs[i].l>>), ls(fs[i]), body) ELSE body
        inner == FoldRight(scoped_, [i \in DOMAIN fs |-> i], t)
    IN  Lam(x, FoldRight(LAMBDA f, body: let_(<<f.l>>, Field(Var(x), f.l), body), fs, inner))

\* The term's leading lambdas bind the last of the signature's parameters.
record_params(d, sig, t, at) ==
    IF leading_lams(t) >= arrow_arity(sig) \/ ~is_sugar_param(sig.from) THEN t
    ELSE record_param(d, param_fields(sig.from), record_params(d, sig.to, t, Append(at, 0)), at)

def(d, f, at) ==
    LET t == expr(d, f.e, at) IN IF t.k = "extern" THEN t ELSE record_params(d, f.sig, t, at)

desugar_program(p, notes) ==
    LET d == [p |-> p, notes |-> notes]
    IN  [i \in DOMAIN p.defs |-> [x |-> p.defs[i].x, t |-> def(d, p.defs[i], <<i>>), ctx |-> FALSE]] \o << >>
=============================================================================
