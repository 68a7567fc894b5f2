------------------------------ MODULE Surface ------------------------------
(***************************************************************************)
(* The surface syntax of frontend/src/parser/data.rs: what the parser      *)
(* builds, the checker types and desugaring turns into Core.  Literals,    *)
(* variables, applications, tuples, field accesses, defer and externs are  *)
(* Core's records.  A label, a tag, a type or an effect is a string, ""    *)
(* where the source writes none; a written type is a checker's type with   *)
(* TName for its variables.  A program is                                  *)
(*   [structs, unions, effects, defs]                                      *)
(* with structs and unions in the order of their names.  Left out: modules *)
(* and imports, aliases, splices, contexts, metaprograms, sequences, sized *)
(* tensors, prefix operators and the forms the parser rewrites.            *)
(***************************************************************************)
EXTENDS Unify

StructDecl(n, ps, fs) == [n |-> n, ps |-> ps, fs |-> fs]
FieldDecl(l, ty) == [l |-> l, ty |-> ty]
UnionDecl(n, ps, vs) == [n |-> n, ps |-> ps, vs |-> vs]
VariantDecl(tag, payload) == [tag |-> tag, payload |-> payload]
EffectDecl(n, ps, ops) == [n |-> n, ps |-> ps, ops |-> ops]
OpDecl(op, ty) == [op |-> op, ty |-> ty]
Def(x, sig, e) == [x |-> x, sig |-> sig, e |-> e]

\* A field that a closed record parameter also scopes.
WithField(l, ty, rest) == [k |-> "rfield", l |-> l, ty |-> ty, rest |-> rest, with |-> TRUE]

\* The fields of a written record type, and what its row ends in.
RECURSIVE rec_fields(_), row_tail(_)
rec_fields(row) ==
    IF row.k = "rfield" THEN <<[l |-> row.l, ty |-> row.ty, with |-> "with" \in DOMAIN row]>> \o rec_fields(row.rest)
    ELSE << >>
row_tail(row) == IF row.k \in {"rfield", "rext"} THEN row_tail(row.rest) ELSE row

-----------------------------------------------------------------------------
(* Expressions; s, sig, spread, with, update, guard and els may be None. *)
Fun(ps, e) == [k |-> "fun", ps |-> ps, e |-> e]
LamParam(pat, sig) == [pat |-> pat, sig |-> sig]
LetIn(pat, sig, v, e) == [k |-> "letin", pat |-> pat, sig |-> sig, v |-> v, e |-> e]
If(c, t, e) == [k |-> "if", c |-> c, t |-> t, e |-> e]
SMatch(s, arms) == [k |-> "match", s |-> s, arms |-> arms]
SArm(pats, guard, e) == [pats |-> pats, guard |-> guard, e |-> e]
StructLit(ty, fs, spread) == [k |-> "structlit", ty |-> ty, fs |-> fs, spread |-> spread]
Record(fs, with, update) == [k |-> "record", fs |-> fs, with |-> with, update |-> update]
VariantLit(ty, tag, fs) == [k |-> "variantlit", ty |-> ty, tag |-> tag, fs |-> fs]
FieldInit(l, e) == [l |-> l, e |-> e]
With(s, e) == [k |-> "with", s |-> s, e |-> e]
HandleE(e, x, clauses, els) == [k |-> "handle", e |-> e, kx |-> x, clauses |-> clauses, els |-> els]
SClause(eff, op, x, e) == [eff |-> eff, op |-> op, x |-> x, e |-> e]
Ascribe(e, ty) == [k |-> "ascribe", e |-> e, ty |-> ty]
BinOp(op, l, r) == [k |-> "binop", op |-> op, l |-> l, r |-> r]

(* Patterns; a field with the pattern None is the shorthand of its label. *)
SPStruct(ty, fs) == [k |-> "spstruct", ty |-> ty, fs |-> fs]
SPRecord(fs, rest) == [k |-> "sprecord", fs |-> fs, rest |-> rest]
SPVariant(ty, tag, fs) == [k |-> "spvariant", ty |-> ty, tag |-> tag, fs |-> fs]
FieldPat(l, p) == [l |-> l, p |-> p]

-----------------------------------------------------------------------------
(* What a definition refers to. *)
RECURSIVE pattern_binders(_), free_globals(_, _)

pattern_binders(p) ==
    CASE p.k = "pvar" -> {p.x}
      [] p.k = "ptuple" -> UNION {pattern_binders(q) : q \in Range(p.ps)}
      [] p.k \in {"spstruct", "spvariant", "sprecord"} ->
           UNION {IF f.p = None THEN {<<f.l>>} ELSE pattern_binders(f.p) : f \in Range(p.fs)}
           \cup (IF p.k = "sprecord" /\ p.rest # None THEN pattern_binders(p.rest) ELSE {})
      [] OTHER -> {}

\* Each subterm with the names its node binds around it.
scoped(e) ==
    LET plain(ts) == {[t |-> t, bound |-> {}] : t \in Range(ts)}
        inits(fs) == {[t |-> f.e, bound |-> {}] : f \in Range(fs)}
        under(ts, names) == {[t |-> t, bound |-> names] : t \in Range(ts)}
        all(pats) == UNION {pattern_binders(p) : p \in Range(pats)}
    IN  CASE e.k = "app" -> plain(<<e.f, e.a>>)
          [] e.k = "binop" -> plain(<<e.l, e.r>>)
          [] e.k = "tuple" -> plain(e.fs)
          [] e.k = "field" -> plain(<<e.r>>)
          [] e.k = "structlit" -> inits(e.fs) \cup plain(Opt(e.spread))
          [] e.k = "record" -> inits(e.fs) \cup plain(Opt(e.with) \o Opt(e.update))
          [] e.k = "variantlit" -> inits(e.fs)
          [] e.k = "letin" -> under(<<e.v, e.e>>, pattern_binders(e.pat))
          [] e.k = "if" -> plain(<<e.c, e.t, e.e>>)
          [] e.k = "match" ->
               plain(<<e.s>>) \cup UNION {under(Opt(a.guard) \o <<a.e>>, all(a.pats)) : a \in Range(e.arms)}
          [] e.k = "fun" -> under(<<e.e>>, all([i \in DOMAIN e.ps |-> e.ps[i].pat]))
          [] e.k = "with" -> plain(<<e.s, e.e>>)
          [] e.k = "handle" ->
               plain(<<e.e>>) \cup UNION {under(<<cl.e>>, {cl.x, e.kx}) : cl \in Range(e.clauses)}
               \cup (IF e.els = None THEN {} ELSE under(<<e.els.e>>, {e.els.x}))
          [] e.k = "defer" -> plain(<<e.c, e.e>>)
          [] e.k = "ascribe" -> plain(<<e.e>>)
          [] OTHER -> {}

free_globals(e, globals) ==
    IF e.k = "var" THEN {e.x} \cap globals
    ELSE UNION {free_globals(s.t, globals \ s.bound) : s \in scoped(e)}

\* The definitions each definition refers to, by name.
dependency_graph(defs) ==
    LET names == {d.x : d \in Range(defs)}
    IN  [x \in names |-> free_globals((CHOOSE d \in Range(defs) : d.x = x).e, names)]
=============================================================================
