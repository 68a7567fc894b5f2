------------------------------ MODULE Frontend ------------------------------
(***************************************************************************)
(* The front end after parsing: a program is checked, and one that passes  *)
(* is desugared with what the checker noted.                               *)
(***************************************************************************)
EXTENDS Typing, Desugar

RECURSIVE written_args(_), Inhabits(_, _, _)
written_args(ty) == IF ty.k = "app" THEN Append(written_args(ty.h), ty.a) ELSE << >>

\* Whether the value v, as a program shows it, is one of type ty, whose declared
\* names are those of program p.
Inhabits(p, v, ty) ==
    LET head == ty_head_con(ty)
        args == written_args(ty)
        struct == CHOOSE s \in Range(p.structs) : s.n = head
        union == CHOOSE u \in Range(p.unions) : u.n = head
        fields == IF ty.k = "record" THEN rec_fields(ty.row)
                  ELSE Each(LAMBDA f: FieldDecl(f.l, ast_subst(f.ty, assign_params(struct.ps, args))), struct.fs)
        payload(tag) == (CHOOSE w \in Range(union.vs) : w.tag = tag).payload
    IN  CASE ty.k = "arrow" -> v.k = "fun"
          [] ty.k = "tuple" -> /\ v.k = "tuple" /\ Len(v.fs) = Len(ty.ts)
                               /\ \A i \in DOMAIN v.fs : Inhabits(p, v.fs[i], ty.ts[i])
          [] ty.k = "record" \/ \E s \in Range(p.structs) : s.n = head ->
               /\ v.k = "struct" /\ Range(v.ls) = Range(labels(fields))
               /\ \A i \in DOMAIN v.ls : Inhabits(p, v.fs[i], fields[position(labels(fields), v.ls[i])].ty)
          [] \E u \in Range(p.unions) : u.n = head ->
               /\ v.k = "variant" /\ \E w \in Range(union.vs) : w.tag = v.tag
               /\ Len(v.fs) = Len(payload(v.tag))
               /\ \A i \in DOMAIN v.fs : Inhabits(p, v.fs[i], ast_subst(payload(v.tag)[i].ty, assign_params(union.ps, args)))
          [] head \in int_names -> v.k = "int"
          [] head = "@Bool" -> v.k = "bool"
          [] head = "@Str" -> v.k = "str"
          [] head = "{}" -> v.k = "unit"
=============================================================================
