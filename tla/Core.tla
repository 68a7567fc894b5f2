-------------------------------- MODULE Core --------------------------------
(***************************************************************************)
(* The Core language of frontend/src/core.rs: what desugaring produces and *)
(* the lowering passes rewrite.  A term is a record whose field k names    *)
(* its constructor.  A name is a tuple: <<"x">> for one the source writes, *)
(* a tag followed by a position in the term for one a pass invents, which  *)
(* no source name equals.  Real literals behave as integers here, and a    *)
(* byte string is a sequence of numbers.                                   *)
(***************************************************************************)
EXTENDS Naturals, Sequences, SequencesExt, FiniteSets, Functions

Num(n) == [k |-> "int", i |-> n]
Bool(b) == [k |-> "bool", b |-> b]
Str(s) == [k |-> "str", s |-> s]
Unit == [k |-> "unit"]
Var(x) == [k |-> "var", x |-> x]
App(f, a) == [k |-> "app", f |-> f, a |-> a]
Lam(x, e) == [k |-> "lam", x |-> x, e |-> e]
Let(x, rec, v, e) == [k |-> "let", x |-> x, rec |-> rec, v |-> v, e |-> e]
Tuple(fs) == [k |-> "tuple", fs |-> fs]
Variant(tag, fs) == [k |-> "variant", tag |-> tag, fs |-> fs]
Field(r, l) == [k |-> "field", r |-> r, l |-> l]
Defer(c, e) == [k |-> "defer", c |-> c, e |-> e]
Fault(w) == [k |-> "fault", w |-> w]

\* A name that says which module its global is of; the others are the root's, or
\* local, or a builtin's.
qualified(x) == Head(x) = "LIB"

\* A foreign function of one argument: the only observable effect of a program.
Extern == [k |-> "extern"]

\* What stands for an absent guard, default, base, value clause or rest pattern.
None == [k |-> "none"]

\* base is a term or None, ls the labels of the terms fs.
Struct(base, ls, fs) == [k |-> "struct", base |-> base, ls |-> ls, fs |-> fs]

\* d is a term or None; an arm's guard too.
Case(s, arms, d) == [k |-> "case", s |-> s, arms |-> arms, d |-> d]
Arm(pat, guard, e) == [pat |-> pat, guard |-> guard, e |-> e]

\* do e ctl kx ...: els is None or [x, e].
Handle(e, kx, clauses, els) ==
    [k |-> "handle", e |-> e, kx |-> kx, clauses |-> clauses, els |-> els]
Clause(op, x, e) == [op |-> op, x |-> x, e |-> e]

\* Patterns.
PWild == [k |-> "wild"]
PVar(x) == [k |-> "pvar", x |-> x]
PLit(t) == [k |-> "plit", t |-> t]
PTuple(ps) == [k |-> "ptuple", ps |-> ps]
PVariant(tag, ps) == [k |-> "pvariant", tag |-> tag, ps |-> ps]
PStruct(ls, ps, rest) == [k |-> "pstruct", ls |-> ls, ps |-> ps, rest |-> rest]
PRange(lo, hi) == [k |-> "prange", lo |-> lo, hi |-> hi]
PHookEq(eq, t) == [k |-> "phook", eq |-> eq, t |-> t]
PPrefix(s, back, rest) == [k |-> "pprefix", s |-> s, back |-> back, rest |-> rest]
PSeqView(view, back, ps, rest) ==
    [k |-> "pseq", view |-> view, back |-> back, ps |-> ps, rest |-> rest]
PTensor(len, front, mid, back) ==
    [k |-> "ptensor", len |-> len, front |-> front, mid |-> mid, back |-> back]

\* The builtins and their operands.
Prims == [x \in {<<"not">>, <<"@iadd">>, <<"@isub">>, <<"@ilt">>, <<"==">>, <<"<=">>, <<">=">>, <<"@array_len">>, <<"@array_slice">>,
                 <<"record_without">>, <<"@delay">>, <<"@vec_new">>, <<"@vec_push">>, <<"@vec_get">>,
                 <<"@vec_len">>, <<"@vec_set">>, <<"@vec_slice">>, <<"@array_get">>, <<"@acat">>, <<"@tensor_index">>,
                 <<"@tensor_slice">>} |->
             CASE x \in {<<"not">>, <<"@array_len">>, <<"@delay">>, <<"@vec_new">>, <<"@vec_len">>} -> 1
               [] x \in {<<"@array_slice">>, <<"@tensor_slice">>, <<"@vec_slice">>, <<"@vec_set">>} -> 3
               [] OTHER -> 2]

\* op l r
bin(op, l, r) == App(App(Var(<<op>>), l), r)

let_(x, v, e) == Let(x, FALSE, v, e)

is_atom(t) == t.k \in {"int", "bool", "str", "unit", "var", "extern", "lam"}

\* op of every element, as an explicit sequence: TLC evaluates it once.
Each(op(_), s) == [i \in DOMAIN s |-> op(s[i])] \o << >>

\* FoldLeft, each intermediate result computed before the next is begun.
InTurn(op(_, _), base, s) ==
    LET go[i \in 0..Len(s)] == IF i = 0 THEN base ELSE CHOOSE r \in {op(a, s[i]) : a \in {go[i - 1]}} : TRUE
    IN  go[Len(s)]

Opt(t) == IF t = None THEN << >> ELSE <<t>>

-----------------------------------------------------------------------------
\* The children of a node, in evaluation order, each with the names the node
\* binds around it.  The terms inside patterns (range bounds, hooks) are global
\* names and literals, which no pass rewrites, and are left out.
Kid(t, bound) == [t |-> t, bound |-> bound]

RECURSIVE binders(_)

\* Left to right, depth first.
binders(p) ==
    CASE p.k = "pvar" -> <<p.x>>
      [] p.k \in {"ptuple", "pvariant"} -> FlattenSeq(Each(binders, p.ps))
      [] p.k = "pstruct" ->
           FlattenSeq(Each(binders, p.ps)) \o (IF p.rest = None THEN << >> ELSE <<p.rest.x>>)
      [] p.k = "pprefix" -> binders(p.rest)
      [] p.k = "pseq" ->
           LET all == p.ps \o Opt(p.rest) IN FlattenSeq(Each(binders, all))
      [] p.k = "ptensor" ->
           LET all == p.front \o Opt(p.mid) \o p.back
           IN  FlattenSeq(Each(binders, all))
      [] OTHER -> << >>

Kids(t) ==
    LET plain(ts) == [i \in DOMAIN ts |-> Kid(ts[i], << >>)]
    IN  CASE t.k = "app" -> plain(<<t.f, t.a>>)
          [] t.k = "lam" -> <<Kid(t.e, <<t.x>>)>>
          [] t.k = "let" -> <<Kid(t.v, IF t.rec THEN <<t.x>> ELSE << >>), Kid(t.e, <<t.x>>)>>
          [] t.k = "case" ->
               plain(<<t.s>>)
               \o FlattenSeq([i \in DOMAIN t.arms |->
                      LET a == t.arms[i]
                          b == binders(a.pat)
                          ts == Opt(a.guard) \o <<a.e>>
                      IN  [j \in DOMAIN ts |-> Kid(ts[j], b)]])
               \o plain(Opt(t.d))
          [] t.k \in {"tuple", "variant"} -> plain(t.fs)
          [] t.k = "struct" -> plain(Opt(t.base) \o t.fs)
          [] t.k = "field" -> plain(<<t.r>>)
          [] t.k = "handle" ->
               plain(<<t.e>>)
               \o [i \in DOMAIN t.clauses |-> Kid(t.clauses[i].e, <<t.clauses[i].x, t.kx>>)]
               \o (IF t.els = None THEN << >> ELSE <<Kid(t.els.e, <<t.els.x>>)>>)
          [] t.k = "defer" -> plain(<<t.c, t.e>>)
          [] OTHER -> << >>

\* t with its children, in the order of Kids, replaced by ts.
map_node(t, ts) ==
    LET n == Len(ts)
        opt(x, at) == IF x = None THEN None ELSE ts[at]
        \* where the guard (if any) and the body of arm i are among ts
        at(i) == 1 + FoldLeft(LAMBDA s, a: s + 1 + Len(Opt(a.guard)), 0, SubSeq(t.arms, 1, i))
    IN  CASE t.k = "app" -> App(ts[1], ts[2])
          [] t.k = "lam" -> Lam(t.x, ts[1])
          [] t.k = "let" -> Let(t.x, t.rec, ts[1], ts[2])
          [] t.k = "case" ->
               Case(ts[1],
                    [i \in DOMAIN t.arms |->
                        Arm(t.arms[i].pat, opt(t.arms[i].guard, at(i) - 1), ts[at(i)])],
                    opt(t.d, n))
          [] t.k = "tuple" -> Tuple(ts)
          [] t.k = "variant" -> Variant(t.tag, ts)
          [] t.k = "struct" ->
               Struct(opt(t.base, 1), t.ls, SubSeq(ts, n - Len(t.fs) + 1, n))
          [] t.k = "field" -> Field(ts[1], t.l)
          [] t.k = "handle" ->
               Handle(ts[1], t.kx,
                      [i \in DOMAIN t.clauses |-> [t.clauses[i] EXCEPT !.e = ts[i + 1]]],
                      IF t.els = None THEN None ELSE [t.els EXCEPT !.e = ts[n]])
          [] t.k = "defer" -> Defer(ts[1], ts[2])
          [] OTHER -> t

\* t with op of each child in the child's place.
Rewrite(op(_), t) == map_node(t, Each(op, Kids(t)))

RECURSIVE mentions(_, _)

\* Shadowing is ignored.
mentions(t, x) ==
    IF t.k = "var" THEN t.x = x ELSE \E kid \in Range(Kids(t)) : mentions(kid.t, x)

RECURSIVE FreeVars(_)

\* The free names of a term: the reference's notion of what a term still needs.
FreeVars(t) ==
    IF t.k = "var" THEN {t.x}
    ELSE UNION {FreeVars(kid.t) \ Range(kid.bound) : kid \in Range(Kids(t))}
=============================================================================
