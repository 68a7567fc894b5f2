------------------------------ MODULE Meaning -------------------------------
(***************************************************************************)
(* What a Core program means, as core.rs and the language define it: the   *)
(* reference the compiled program is checked against.  Terms are evaluated *)
(* as they stand (nested patterns, names, no IR) over immutable values and *)
(* environments; the store only holds recursive bindings and lazy slots.   *)
(* A continuation is an immutable value, so resuming it twice needs no     *)
(* copy, and it is abandoned at the end of its clause exactly when it was  *)
(* never resumed and nothing that is still to run can reach it.            *)
(***************************************************************************)
EXTENDS Core

Eval(t, env) == [k |-> "eval", t |-> t, env |-> env]
Give(v) == [k |-> "give", v |-> v]
Slot(at) == [k |-> "slot", at |-> at]

\* env cut down to what the terms ts still read.
Needed(env, ts) == LET fv == UNION {FreeVars(ts[i]) : i \in DOMAIN ts} IN [x \in DOMAIN env \cap fv |-> env[x]]

\* env with the names xs bound to vs.
With(env, xs, vs) ==
    [x \in DOMAIN env \cup Range(xs) |->
        IF x \in Range(xs) THEN vs[CHOOSE i \in DOMAIN xs : xs[i] = x /\ \A j \in DOMAIN xs : xs[j] = x => j <= i]
        ELSE env[x]]

RECURSIVE Seen(_, _)

\* A value, looking through the slots that have one.
Seen(st, v) == IF v.k = "slot" /\ st[v.at].k # "lazy" THEN Seen(st, st[v.at]) ELSE v

RECURSIVE Shown(_, _)

\* As the outside sees it.
Shown(st, v) ==
    LET x == Seen(st, v)
    IN  CASE x.k \in {"variant", "tuple", "struct", "vec"} -> [x EXCEPT !.fs = [i \in DOMAIN @ |-> Shown(st, @[i])]]
          [] x.k \in {"fun", "prim", "op", "extern", "cont"} -> [k |-> "fun"]
          [] OTHER -> x

RECURSIVE Lazy(_, _)

\* The first lazy slot among the values vs, the last one searched first.
Lazy(st, vs) ==
    IF vs = << >> THEN << >>
    ELSE LET x == Seen(st, Last(vs))
             kids == IF x.k \in {"variant", "tuple", "struct", "vec"} THEN x.fs ELSE << >>
         IN  IF x.k = "slot" THEN <<x.at>> ELSE Lazy(st, Front(vs) \o kids)

-----------------------------------------------------------------------------
(* Patterns.  A match says yes with the values of binders(pat), no, or which *)
(* lazy slot has to be looked into first.                                    *)
Yes(vs) == [k |-> "yes", vs |-> vs]
No == [k |-> "no"]
Look(at) == [k |-> "look", at |-> at]

RECURSIVE Match(_, _, _), MatchAll(_, _, _)

\* Left to right, until one fails.
MatchAll(st, ps, vs) ==
    IF ps = << >> THEN Yes(<< >>)
    ELSE LET m == Match(st, Head(ps), Head(vs))
             r == MatchAll(st, Tail(ps), Tail(vs))
         IN  IF m.k # "yes" THEN m ELSE IF r.k # "yes" THEN r ELSE Yes(m.vs \o r.vs)

Match(st, pat, v) ==
    LET x == Seen(st, v)
        n == IF pat.k = "pseq" THEN Len(pat.ps) ELSE 0
        at(r, l) == r.fs[CHOOSE i \in DOMAIN r.ls : r.ls[i] = l]
    IN  IF pat.k = "wild" THEN Yes(<< >>)
        ELSE IF pat.k = "pvar" THEN Yes(<<v>>)
        ELSE IF pat.k = "pseq" /\ n = 0 /\ pat.rest # None THEN Match(st, pat.rest, v)
        ELSE IF x.k = "slot" THEN Look(x.at)
        ELSE CASE pat.k \in {"plit", "phook"} -> IF Shown(st, x) = pat.t THEN Yes(<< >>) ELSE No
               [] pat.k = "prange" ->
                    IF x.i >= pat.lo.i /\ (pat.hi = None \/ x.i <= pat.hi.i) THEN Yes(<< >>) ELSE No
               [] pat.k = "ptuple" -> MatchAll(st, pat.ps, x.fs)
               [] pat.k = "pvariant" -> IF x.tag # pat.tag THEN No ELSE MatchAll(st, pat.ps, x.fs)
               [] pat.k = "pstruct" ->
                    LET m == MatchAll(st, pat.ps, [i \in DOMAIN pat.ls |-> at(x, pat.ls[i])])
                        left == SelectSeq(x.ls, LAMBDA l: l \notin Range(pat.ls))
                        rest == [k |-> "struct", ls |-> left, fs |-> [i \in DOMAIN left |-> at(x, left[i])]]
                    IN  IF m.k = "yes" /\ pat.rest # None THEN Yes(Append(m.vs, rest)) ELSE m
               [] pat.k = "pprefix" ->
                    LET k == Len(x.s) - Len(pat.s)
                        hit == k >= 0 /\ (IF pat.back THEN IsSuffix(pat.s, x.s) ELSE IsPrefix(pat.s, x.s))
                        rest == IF pat.back THEN SubSeq(x.s, 1, k) ELSE SubSeq(x.s, Len(pat.s) + 1, Len(x.s))
                    IN  IF hit THEN Match(st, pat.rest, Str(rest)) ELSE No
               \* a list of Cons cells from the front, of Snoc cells from the back
               [] pat.k = "pseq" ->
                    IF n = 0 THEN (IF x.tag = "Nil" THEN Yes(<< >>) ELSE No)
                    ELSE IF x.tag = "Nil" THEN No
                    ELSE IF pat.back
                    THEN LET m == Match(st, pat.ps[n], x.fs[2])
                             r == Match(st, [pat EXCEPT !.ps = Front(@)], x.fs[1])
                             k == Len(FlattenSeq([i \in 1..(n - 1) |-> binders(pat.ps[i])]))
                         IN  IF m.k # "yes" THEN m ELSE IF r.k # "yes" THEN r
                             ELSE Yes(SubSeq(r.vs, 1, k) \o m.vs \o SubSeq(r.vs, k + 1, Len(r.vs)))
                    ELSE MatchAll(st, <<pat.ps[1], [pat EXCEPT !.ps = Tail(@)]>>, x.fs)
               [] pat.k = "ptensor" ->
                    LET f == Len(pat.front)
                        b == Len(pat.back)
                        mid == [k |-> "vec", fs |-> SubSeq(x.fs, f + 1, Len(x.fs) - b)]
                    IN  MatchAll(st, pat.front \o Opt(pat.mid) \o pat.back,
                                 SubSeq(x.fs, 1, f) \o (IF pat.mid = None THEN << >> ELSE <<mid>>)
                                 \o SubSeq(x.fs, Len(x.fs) - b + 1, Len(x.fs)))

-----------------------------------------------------------------------------
(* The continuations a value, or a stack of frames, can still reach. *)
RECURSIVE Conts(_, _, _), FrameConts(_, _, _)

Conts(st, v, seen) ==
    LET all(vs) == UNION {Conts(st, w, seen) : w \in vs}
    IN  CASE v.k \in {"variant", "tuple", "struct", "vec"} -> all(Range(v.fs))
          [] v.k = "prim" -> all(Range(v.args))
          [] v.k = "fun" -> all(Range(v.env))
          [] v.k = "slot" -> IF v.at \in seen THEN {} ELSE Conts(st, st[v.at], seen \cup {v.at})
          [] v.k = "lazy" -> Conts(st, v.f, seen)
          [] v.k = "cont" -> {v.id} \cup FrameConts(st, v.seg, seen)
          [] OTHER -> {}

FrameConts(st, kont, seen) ==
    UNION {LET f == kont[i]
               vs == (IF "env" \in DOMAIN f THEN Range(f.env) ELSE {})
                     \cup (IF "vs" \in DOMAIN f THEN Range(f.vs) ELSE {})
           IN  UNION {Conts(st, v, seen) : v \in vs} : i \in DOMAIN kont}

-----------------------------------------------------------------------------
(* One step of evaluation.  s holds the control c, the stack k, the store    *)
(* st, the globals' terms gs and values memo, the trace, the continuations   *)
(* resumed and the outcome.                                                  *)
Stop(s, o) == [s EXCEPT !.outcome = o]
Goto(s, c) == [s EXCEPT !.c = c]
Push(s, f, c) == [s EXCEPT !.k = Append(@, f), !.c = c]
Fresh(s) == Len(s.st) + 1

\* Run the lazy slot, on a stack of its own, then go back to c.
Force(s, at, c) ==
    LET f == Seen(s.st, s.st[at].f)
    IN  Push(s, [k |-> "barrier", at |-> at, back |-> c], Eval(f.e, With(f.env, <<f.x>>, <<Unit>>)))

MPrim(st, op, a) ==
    LET x == [i \in DOMAIN a |-> Seen(st, a[i])]
    IN  CASE op = <<"@iadd">> -> Num(x[1].i + x[2].i)
          [] op = <<"@isub">> -> Num(x[1].i - x[2].i)
          [] op = <<"@ilt">> -> Bool(x[1].i < x[2].i)
          [] op = <<"not">> -> Bool(~x[1].b)
          [] op = <<"<=">> -> Bool(x[1].i <= x[2].i)
          [] op = <<">=">> -> Bool(x[1].i >= x[2].i)
          [] op = <<"==">> -> Bool(Shown(st, x[1]) = Shown(st, x[2]))
          [] op = <<"@vec_new">> -> [k |-> "vec", fs |-> << >>]
          [] op = <<"@vec_push">> -> [x[1] EXCEPT !.fs = Append(@, a[2])]
          [] op = <<"@vec_get">> ->
               IF x[2].i < Len(x[1].fs) THEN x[1].fs[x[2].i + 1] ELSE Fault("vec index out of bounds")
          [] op = <<"@vec_set">> ->
               IF x[2].i < Len(x[1].fs) THEN [x[1] EXCEPT !.fs[x[2].i + 1] = a[3]] ELSE Fault("vec index out of bounds")
          [] op = <<"@vec_slice">> -> [x[1] EXCEPT !.fs = SubSeq(@, x[2].i + 1, x[3].i)]
          [] op = <<"@array_get">> ->
               IF x[2].i < Len(x[1].s) THEN Num(x[1].s[x[2].i + 1]) ELSE Fault("array index out of bounds")
          [] op = <<"@acat">> -> Str(x[1].s \o x[2].s)
          [] op = <<"@vec_len">> -> Num(Len(x[1].fs))

Call(s, op, a) ==
    LET lazy == Lazy(s.st, a)
    IN  IF op = <<"@delay">>
        THEN Goto([s EXCEPT !.st = Append(@, [k |-> "lazy", f |-> a[1]])], Give(Slot(Fresh(s))))
        ELSE IF op = <<"==">> /\ lazy # << >> THEN Force(s, Head(lazy), [k |-> "call", op |-> op, a |-> a])
        ELSE LET r == MPrim(s.st, op, a) IN IF r.k = "fault" THEN Stop(s, r) ELSE Goto(s, Give(r))

Perform_(s, op, a) ==
    LET bars == {i \in DOMAIN s.k : s.k[i].k = "barrier"}
        at == {i \in DOMAIN s.k : /\ s.k[i].k = "prompt"
                                  /\ \E j \in DOMAIN s.k[i].t.clauses : s.k[i].t.clauses[j].op = op
                                  /\ \A b \in bars : b < i}
        i == CHOOSE j \in at : \A l \in at : l <= j
        t == s.k[i].t
        cl == Head(SelectSeq(t.clauses, LAMBDA c: c.op = op))
        seg == SubSeq(s.k, i, Len(s.k))
        cont == [k |-> "cont", id |-> s.ids, seg |-> seg]
    IN  IF at = {} THEN Stop(s, Fault("unhandled effect operation"))
        ELSE [s EXCEPT !.ids = @ + 1,
                       !.k = Append(SubSeq(@, 1, i - 1), [k |-> "after", id |-> s.ids, seg |-> seg]),
                       !.c = Eval(cl.e, Needed(With(s.k[i].env, <<cl.x, t.kx>>, <<a, cont>>), <<cl.e>>))]

Apply(s, f, a) ==
    LET g == Seen(s.st, f)
    IN  CASE g.k = "fun" -> Goto(s, Eval(g.e, Needed(With(g.env, <<g.x>>, <<a>>), <<g.e>>)))
          [] g.k = "prim" ->
               IF Len(g.args) + 1 = Prims[g.op] THEN Call(s, g.op, Append(g.args, a))
               ELSE Goto(s, Give([g EXCEPT !.args = Append(@, a)]))
          [] g.k = "extern" -> Goto([s EXCEPT !.trace = Append(@, Shown(s.st, a))], Give(Unit))
          [] g.k = "op" -> Perform_(s, g.op, a)
          [] g.k = "cont" -> [s EXCEPT !.resumed = @ \cup {g.id}, !.k = @ \o g.seg, !.c = Give(a)]
          [] OTHER -> Stop(s, Fault("applied a non-function value"))

RECURSIVE Set(_, _, _)

\* The record x with the labels ls set to vs.
Set(x, ls, vs) ==
    IF ls = << >> THEN x
    ELSE LET at == {i \in DOMAIN x.ls : x.ls[i] = Head(ls)}
         IN  Set([x EXCEPT !.ls = IF at = {} THEN Append(@, Head(ls)) ELSE @,
                           !.fs = IF at = {} THEN Append(@, Head(vs))
                                  ELSE [@ EXCEPT ![CHOOSE i \in at : TRUE] = Head(vs)]], Tail(ls), Tail(vs))

\* The node t with the values vs of its operands.
Combine(s, t, vs) ==
    LET x == Seen(s.st, vs[1])
        again == [k |-> "combine", t |-> t, vs |-> vs]
    IN  CASE t.k = "app" -> Apply(s, vs[1], vs[2])
          [] t.k \in {"tuple", "variant"} -> Goto(s, Give([t EXCEPT !.fs = vs]))
          [] t.k \in {"field", "struct"} /\ vs # << >> /\ x.k = "slot" /\ (t.k = "struct" => t.base # None) ->
               Force(s, x.at, again)
          [] t.k = "struct" ->
               Goto(s, Give(IF t.base = None THEN [k |-> "struct", ls |-> t.ls, fs |-> vs] ELSE Set(x, t.ls, Tail(vs))))
          [] t.k = "field" ->
               LET at == {i \in DOMAIN x.fs : IF x.k = "tuple" THEN i - 1 = t.l ELSE x.ls[i] = t.l}
               IN  IF at = {} THEN Stop(s, Fault("no field")) ELSE Goto(s, Give(x.fs[CHOOSE i \in at : TRUE]))

EvalStep(s, t, env) ==
    LET kids == Each(LAMBDA kid: kid.t, Kids(t))
        cell == Slot(Fresh(s))
        rec == t.k = "let" /\ t.rec /\ mentions(t.v, t.x)
    IN  CASE t.k \in {"int", "bool", "str", "unit", "extern"} -> Goto(s, Give(t))
          [] t.k = "var" ->
               CASE t.x \in DOMAIN env -> Goto(s, Give(env[t.x]))
                 [] t.x \in DOMAIN s.memo -> Goto(s, Give(s.memo[t.x]))
                 [] t.x \in DOMAIN s.gs \ DOMAIN s.memo ->
                      IF \E i \in DOMAIN s.k : s.k[i] = [k |-> "barrier", x |-> t.x]
                      THEN Stop(s, Fault("a value global refers to itself while being defined"))
                      ELSE Push(s, [k |-> "barrier", x |-> t.x], Eval(s.gs[t.x], << >>))
                 [] t.x \in DOMAIN Prims -> Goto(s, Give([k |-> "prim", op |-> t.x, args |-> << >>]))
                 [] OTHER -> Goto(s, Give([k |-> "op", op |-> t.x]))
          [] t.k = "lam" -> Goto(s, Give([k |-> "fun", x |-> t.x, e |-> t.e, env |-> Needed(env, <<t>>)]))
          [] t.k = "let" ->
               LET f == [k |-> "let", x |-> t.x, e |-> t.e, env |-> Needed(env, <<t.e>>), at |-> IF rec THEN cell.at ELSE 0]
               IN  IF rec
                   THEN Push([s EXCEPT !.st = Append(@, Unit)], f, Eval(t.v, With(env, <<t.x>>, <<cell>>)))
                   ELSE Push(s, f, Eval(t.v, env))
          [] t.k = "case" -> Push(s, [k |-> "case", t |-> t, env |-> Needed(env, Tail(kids))], Eval(t.s, env))
          [] t.k = "handle" -> Push(s, [k |-> "prompt", t |-> t, env |-> Needed(env, Tail(kids))], Eval(t.e, env))
          [] t.k = "defer" -> Push(s, [k |-> "defer", t |-> t.c, env |-> Needed(env, <<t.c>>)], Eval(t.e, env))
          [] t.k = "fault" -> Stop(s, t)
          [] kids = << >> -> Combine(s, t, << >>)
          [] OTHER -> Push(s, [k |-> "args", t |-> t, vs |-> << >>, env |-> Needed(env, Tail(kids))], Eval(kids[1], env))

\* The arms of case t from the i-th on, against v.
ArmsStep(s, c) ==
    LET t == c.t
        arm == t.arms[c.i]
        m == Match(s.st, arm.pat, c.v)
        env == With(c.env, binders(arm.pat), m.vs)
    IN  IF c.i > Len(t.arms)
        THEN IF t.d = None THEN Stop(s, Fault("no pattern matched")) ELSE Goto(s, Eval(t.d, Needed(c.env, <<t.d>>)))
        ELSE IF m.k = "look" THEN Force(s, m.at, c)
        ELSE IF m.k = "no" THEN Goto(s, [c EXCEPT !.i = @ + 1])
        ELSE IF arm.guard = None THEN Goto(s, Eval(arm.e, Needed(env, <<arm.e>>)))
        ELSE Push(s, [k |-> "guard", c |-> c, env |-> env, vs |-> <<c.v>>], Eval(arm.guard, env))

\* The value v reaches the top frame.
GiveStep(s, v) ==
    LET f == Last(s.k)
        r == [s EXCEPT !.k = Front(@)]
        st == [r EXCEPT !.st[f.at] = v]
        vs == Append(f.vs, v)
        kids == Kids(f.t)
        cleanups == LET ds == SelectSeq(f.seg, LAMBDA g: g.k = "defer") IN <<[k |-> "saved", vs |-> <<v>>]>> \o ds
    IN  CASE f.k = "let" ->
               IF f.at = 0 THEN Goto(r, Eval(f.e, Needed(With(f.env, <<f.x>>, <<v>>), <<f.e>>)))
               ELSE Goto(st, Eval(f.e, Needed(With(f.env, <<f.x>>, <<v>>), <<f.e>>)))
          [] f.k = "args" ->
               IF Len(vs) = Len(kids) THEN Combine(r, f.t, vs)
               ELSE Push(r, [f EXCEPT !.vs = vs], Eval(kids[Len(vs) + 1].t, f.env))
          [] f.k = "case" -> Goto(r, [k |-> "arms", t |-> f.t, env |-> f.env, v |-> v, i |-> 1])
          [] f.k = "guard" ->
               IF Seen(s.st, v) = Bool(TRUE) THEN Goto(r, Eval(f.c.t.arms[f.c.i].e, f.env))
               ELSE Goto(r, [f.c EXCEPT !.i = @ + 1])
          [] f.k = "prompt" ->
               IF f.t.els = None THEN Goto(r, Give(v))
               ELSE Goto(r, Eval(f.t.els.e, With(f.env, <<f.t.els.x>>, <<v>>)))
          [] f.k = "defer" -> Push(r, [k |-> "saved", vs |-> <<v>>], Eval(f.t, f.env))
          [] f.k = "saved" -> Goto(r, Give(f.vs[1]))
          [] f.k = "after" ->
               IF f.id \in s.resumed \cup Conts(s.st, v, {}) \cup FrameConts(s.st, r.k, {}) THEN Goto(r, Give(v))
               ELSE [r EXCEPT !.k = @ \o cleanups, !.c = Give(Unit)]
          [] f.k = "barrier" ->
               IF "x" \in DOMAIN f THEN Goto([r EXCEPT !.memo = [x \in DOMAIN @ \cup {f.x} |-> IF x = f.x THEN v ELSE @[x]]], Give(v))
               ELSE Goto(st, f.back)

Start(gs) ==
    [c |-> Eval(Var(<<"main">>), << >>), k |-> << >>, st |-> << >>, memo |-> << >>, trace |-> << >>,
     gs |-> [x \in {gs[i].x : i \in DOMAIN gs} |-> (CHOOSE g \in Range(gs) : g.x = x).t],
     resumed |-> {}, ids |-> 1, outcome |-> None]

\* The program's value is shown whole.
MStep(s) ==
    LET lazy == Lazy(s.st, <<s.c.v>>)
    IN  CASE s.c.k = "eval" -> EvalStep(s, s.c.t, s.c.env)
          [] s.c.k = "arms" -> ArmsStep(s, s.c)
          [] s.c.k = "call" -> Call(s, s.c.op, s.c.a)
          [] s.c.k = "combine" -> Combine(s, s.c.t, s.c.vs)
          [] s.c.k = "give" /\ s.k # << >> -> GiveStep(s, s.c.v)
          [] s.c.k = "give" /\ s.k = << >> ->
               IF lazy # << >> THEN Force(s, Head(lazy), s.c)
               ELSE Stop(s, [k |-> "value", v |-> Shown(s.st, s.c.v)])

RECURSIVE Run(_)
Run(s) == IF s.outcome # None THEN s ELSE Run(MStep(s))

\* What running the globals gs from main shows: a value or a fault, and the trace.
Means(gs) == LET s == Run(Start(gs)) IN [outcome |-> s.outcome, trace |-> s.trace]
=============================================================================
