---------------------------- MODULE Declarations ----------------------------
(***************************************************************************)
(* The declared types and effects as the checker sees them:                *)
(* frontend/src/typing/declarations.rs, signatures.rs and instances.rs.    *)
(* The checker's state c has, besides the unifier's:                       *)
(*   structs, unions, effects  the declarations (an effect's operations    *)
(*                             with their schemes),                        *)
(*   env, globals  the types of the local and of the global names,         *)
(*   ambient   the effects the code at hand may perform,                   *)
(*   numeric, literals  the types that integer literals have,              *)
(*   notes     what desugaring needs to know, by kind and place: a place   *)
(*             is the path of child positions from the definition.         *)
(* Signatures are well formed: every name known, every argument there.     *)
(***************************************************************************)
EXTENDS Surface

UnitTy == Con("{}")
BoolTy == Con("@Bool")
StrTy == Con("@Str")
IntTy == Con("@Int")

\* "@Float64" and "@Float32" are numeric too.
int_names == {"@Int", "@Nat", "@Int8", "@Nat8"}
base_types == int_names \cup {"@Float64", "@Float32", "@Bool", "@Str", "{}"}

\* A parameter that the signature alone introduces: a closed record or unit.
is_sugar_param(ty) == ty = UnitTy \/ (ty.k = "record" /\ row_tail(ty.row) = RowEmpty)
param_fields(ty) == IF ty = UnitTy THEN << >> ELSE rec_fields(ty.row)

R(c, t) == [c |-> c, t |-> t]
note(c, kind, at, v) == [c EXCEPT !.notes = (<<kind, at>> :> v) @@ @]
scope_bind(c, x, t) == [c EXCEPT !.env = (x :> t) @@ @]
leave_scope(c, outer) == [c EXCEPT !.env = outer.env]

\* The position of the first element of s that is x, 0 when there is none.
position(s, x) == IF x \in Range(s) THEN CHOOSE i \in DOMAIN s : s[i] = x /\ \A j \in 1..(i - 1) : s[j] # x ELSE 0
labels(fs) == [i \in DOMAIN fs |-> fs[i].l] \o << >>

RECURSIVE names_of(_)
names_of(ty) == IF ty.k = "name" THEN {ty.x} ELSE UNION {names_of(p) : p \in Range(parts(ty))}

\* The type a written one stands for; m has the variables named so far.
ty_of_ast(c, ty, m) ==
    LET new == SetToSeq(names_of(ty) \ DOMAIN m)
        d == fresh_n(c, Len(new))
        all == IF d.ok THEN assign_params(new, newest_n(d, Len(new))) @@ m ELSE m
    IN  [c |-> d, t |-> IF d.ok THEN ast_subst(ty, all) ELSE ErrorTy, m |-> all]

\* A signature as its users see it.
scheme_of(c, sig) ==
    LET r == ty_of_ast(enter_level(c), sig, << >>)
        d == generalize(leave_level(r.c), r.t)
    IN  R(d, zonk(d, r.t))

is_known_type(c, head) ==
    head.k = "con" /\ head.n \in base_types \cup {d.n : d \in Range(c.structs) \cup Range(c.unions)}

-----------------------------------------------------------------------------
(* Effects. *)

\* The written type, its arrow performing the effect with these parameters and
\* whatever else the place allows.
op_scheme(c, eff, ty) ==
    LET ps == fresh_n(enter_level(c), Len(eff.ps))
        args == IF eff.ps = << >> THEN RowEmpty ELSE TTuple(newest_n(ps, Len(eff.ps)))
        r == ty_of_ast(ps, ty, assign_params(eff.ps, newest_n(ps, Len(eff.ps))))
        mu == fresh(r.c)
        t == IF r.t.k = "arrow" THEN arrow_eff(r.t.from, r.t.to, RowExtend(eff.n, args, newest(mu))) ELSE r.t
        d == generalize(leave_level(mu), t)
    IN  R(d, zonk(d, t))

register_op(c, eff, op) ==
    LET s == op_scheme(c, eff, op.ty)
    IN  [s.c EXCEPT !.effects = Append(@, [n |-> eff.n, arity |-> Len(eff.ps), op |-> op.op, scheme |-> s.t]),
                    !.globals = (op.op :> s.t) @@ @]

register_effects(c, effs) ==
    InTurn(LAMBDA d, eff: InTurn(LAMBDA b, op: register_op(b, eff, op), d, eff.ops), c, effs)

\* The declared operation that a handler clause names, as its one element.
clause_op(c, cl) == {o \in Range(c.effects) : o.op = cl.op /\ (cl.eff = "" \/ o.n = cl.eff)}

-----------------------------------------------------------------------------
(* Structs and unions. *)
instantiate_params(c, ps) ==
    LET d == fresh_n(c, Len(ps))
        new == newest_n(d, Len(ps))
    IN  [c |-> d, args |-> new, m |-> assign_params(ps, new)]

union_with_tag(c, u, tag) == \E d \in Range(c.unions) : d.n = u /\ \E v \in Range(d.vs) : v.tag = tag

\* The first in name order; "" when there is none.
find_union_by_tag(c, tag) ==
    LET us == SelectSeq(c.unions, LAMBDA d: \E v \in Range(d.vs) : v.tag = tag)
    IN  IF us = << >> THEN "" ELSE us[1].n

\* The expected union itself when it has the tag.
union_head_with_tag(c, t, tag) ==
    LET h == spine(c, t).head
    IN  IF h.k = "con" /\ union_with_tag(c, h.n, tag) THEN h.n ELSE ""
find_union_for(c, tag, t) ==
    LET u == union_head_with_tag(c, t, tag) IN IF u # "" THEN u ELSE find_union_by_tag(c, tag)

is_variantless_union(c, t) ==
    LET h == spine(c, t).head IN h.k = "con" /\ \E d \in Range(c.unions) : d.n = h.n /\ d.vs = << >>

variant_decl(c, u, tag) ==
    CHOOSE v \in Range((CHOOSE d \in Range(c.unions) : d.n = u).vs) : v.tag = tag

\* A variant's type and its payload's labels and types.
variant_sig(c, u, tag) ==
    LET i == instantiate_params(c, (CHOOSE d \in Range(c.unions) : d.n = u).ps)
        payload == variant_decl(c, u, tag).payload
    IN  [c |-> i.c, t |-> applied(u, i.args), ls |-> labels(payload),
         ts |-> Each(LAMBDA f: ast_subst(f.ty, i.m), payload)]

struct_name_of(c, t) == LET h == spine(c, t).head IN IF is_struct(c, h) THEN h.n ELSE ""

\* A struct's fields at these arguments.
struct_fields(c, n, args) ==
    LET info == struct_info(c, n)
    IN  Each(LAMBDA f: FieldDecl(f.l, ast_subst(f.ty, assign_params(info.ps, args))), info.fs)

\* The struct with exactly these names, when every field has one.
resolve_struct_by_fields(c, fs) ==
    LET ls == Range(labels(fs))
        hits == {d \in Range(c.structs) : Len(d.fs) = Len(fs) /\ ls \subseteq Range(labels(d.fs))}
    IN  IF "" \in ls \/ hits = {} THEN "" ELSE (CHOOSE d \in hits : TRUE).n

\* The row of a record as far as it is known.
RECURSIVE known_fields(_, _), known_tail(_, _)
known_fields(c, row) ==
    LET r == resolve(c, row) IN IF r.k = "rfield" THEN <<FieldDecl(r.l, r.ty)>> \o known_fields(c, r.rest) ELSE << >>
known_tail(c, row) == LET r == resolve(c, row) IN IF r.k = "rfield" THEN known_tail(c, r.rest) ELSE r

record_is_closed(c, t) == LET r == resolve(c, t) IN r.k = "record" /\ known_tail(c, r.row) = RowEmpty

has_fields(c, t) == record_is_closed(c, t) \/ struct_name_of(c, t) # ""

\* The fields of a closed record or of a struct.
record_fields_of(c, t) ==
    LET r == resolve(c, t)
        s == spine(c, t)
    IN  IF r.k = "record" THEN known_fields(c, r.row) ELSE struct_fields(c, s.head.n, s.args)

\* The type of field l, an open record growing to have it.
field_type_of(c, t, l) ==
    LET fs == record_fields_of(c, t)
        i == position(labels(fs), l)
    IN  IF resolve(c, t).k = "record" THEN record_field(c, t, l)
        ELSE IF ~has_fields(c, t) \/ i = 0 THEN R(Fail(c), ErrorTy)
        ELSE R(c, fs[i].ty)

-----------------------------------------------------------------------------
(* Lazy slots: those whose type can lead back to the type that owns them. *)
RECURSIVE collect_tycons(_)
collect_tycons(ty) ==
    IF ty.k = "con" THEN {ty.n}
    ELSE IF ty.k = "arrow" THEN {} ELSE UNION {collect_tycons(p) : p \in Range(parts(ty))}

mentions_of(program) ==
    [n \in {d.n : d \in Range(program.structs) \cup Range(program.unions)} |->
        UNION {UNION {collect_tycons(f.ty) : f \in Range(d.fs)} : d \in {s \in Range(program.structs) : s.n = n}}
        \cup UNION {UNION {UNION {collect_tycons(f.ty) : f \in Range(v.payload)} : v \in Range(d.vs)} :
                        d \in {u \in Range(program.unions) : u.n = n}}]

RECURSIVE reached(_, _)
reached(m, S) ==
    LET grown == S \cup UNION {m[n] : n \in S \cap DOMAIN m} IN IF grown = S THEN S ELSE reached(m, grown)

leads_back(program, ty, owner) == owner \in reached(mentions_of(program), collect_tycons(ty))
=============================================================================
