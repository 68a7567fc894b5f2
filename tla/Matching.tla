------------------------------ MODULE Matching ------------------------------
(***************************************************************************)
(* Match compilation (frontend/src/passes/match_compilation.rs): nested    *)
(* patterns with guards become shallow one-constructor tests, tried in     *)
(* order, where every mismatch falls through to the next arm.  p is the    *)
(* position of the term at hand; it keeps the invented names apart.        *)
(***************************************************************************)
EXTENDS Core

case1(s, pat, e, d) == Case(s, <<Arm(pat, None, e)>>, d)

when(test, e, d) == case1(test, PLit(Bool(TRUE)), e, d)

RECURSIVE irrefutable(_)

\* The pattern matches every value of its type.
irrefutable(pat) ==
    \/ pat.k \in {"wild", "pvar"}
    \/ pat.k \in {"ptuple", "pstruct"} /\ \A i \in DOMAIN pat.ps : irrefutable(pat.ps[i])

\* The arm fails at one point at most, and binds nothing before it.
fails_at_most_once_unbound(arm) ==
    /\ arm.guard = None
    /\ \/ arm.pat.k \in {"plit", "phook"}
       \/ arm.pat.k = "prange" /\ arm.pat.hi = None
       \/ arm.pat.k = "pvariant" /\ \A i \in DOMAIN arm.pat.ps : irrefutable(arm.pat.ps[i])
       \/ irrefutable(arm.pat)

RECURSIVE failure_sites(_, _, _)

\* For each occurrence of target under t, the source names bound around it.
failure_sites(t, target, scope) ==
    IF t = target THEN <<scope>>
    ELSE FlattenSeq(Each(LAMBDA kid: failure_sites(kid.t, target, scope \cup {x \in Range(kid.bound) : Len(x) = 1}),
                         Kids(t)))

RECURSIVE replace_node(_, _, _)

replace_node(t, target, with) ==
    IF t = target THEN with
    ELSE Rewrite(LAMBDA kid: replace_node(kid.t, target, with), t)

-----------------------------------------------------------------------------
\* Shallow arm groups: a literal or a constructor of plain binders, unguarded.
is_head(arm) ==
    /\ arm.guard = None
    /\ \/ arm.pat.k = "plit" /\ arm.pat.t.k # "str"
       \/ arm.pat.k = "pvariant" /\ \A i \in DOMAIN arm.pat.ps : arm.pat.ps[i].k \in {"pvar", "wild"}

same_head(a, b) ==
    /\ a.k = b.k
    /\ \/ a.k = "plit" /\ a.t = b.t
       \/ a.k = "pvariant" /\ a.tag = b.tag

\* The arms of the group that starts at arm i: i .. group_end - 1.
group_end(arms, i) ==
    CHOOSE j \in i..(Len(arms) + 1) :
        /\ \A m \in i..(j - 1) :
              /\ is_head(arms[m])
              /\ \A l \in i..(m - 1) : ~same_head(arms[l].pat, arms[m].pat)
        /\ j <= Len(arms) =>
              ~is_head(arms[j]) \/ \E l \in i..(j - 1) : same_head(arms[l].pat, arms[j].pat)

\* A wildcard field gets a name: each field occupies a binder slot.
named(pat, p) ==
    IF pat.k = "plit" THEN pat
    ELSE [pat EXCEPT !.ps = [i \in DOMAIN pat.ps |->
             IF pat.ps[i] = PWild THEN PVar(<<"%w">> \o p \o <<i>>) ELSE pat.ps[i]]]

-----------------------------------------------------------------------------
array_len(sv) == App(Var(<<"@array_len">>), Var(sv))

array_slice(sv, lo, hi) == App(App(App(Var(<<"@array_slice">>), Var(sv)), lo), hi)

RECURSIVE record_without(_, _)

\* The record minus the labels: its ..rest.
record_without(t, ls) ==
    IF ls = << >> THEN t
    ELSE record_without(App(App(Var(<<"record_without">>), t), Str(<<Head(ls)>>)), Tail(ls))

RECURSIVE compile_pat(_, _, _, _, _), compile_binders(_, _, _, _, _), compile_fields(_, _, _, _, _),
          compile_seqview(_, _, _, _, _)

\* The values vals, each bound to a fresh name and matched in turn.
compile_fields(vals, ps, onMatch, onFail, p) ==
    IF ps = << >> THEN onMatch
    ELSE LET fv == <<"%f">> \o p
         IN  let_(fv, Head(vals),
                  compile_pat(fv, Head(ps),
                              compile_fields(Tail(vals), Tail(ps), onMatch, onFail, Append(p, 2)),
                              onFail, Append(p, 1)))

\* The already bound xs, matched in turn.
compile_binders(xs, ps, onMatch, onFail, p) ==
    IF ps = << >> THEN onMatch
    ELSE compile_pat(Head(xs), Head(ps),
                     compile_binders(Tail(xs), Tail(ps), onMatch, onFail, Append(p, 2)),
                     onFail, Append(p, 1))

\* Unfold a sequence_view hook one step at a time, from the back when it says so.
compile_seqview(sv, pat, onMatch, onFail, p) ==
    LET vw == <<"%vw">> \o p
        view(e) == let_(vw, App(pat.view, Var(sv)), e)
        h == <<"%h">> \o p
        tl == <<"%t">> \o p
        n == Len(pat.ps)
        elem == IF pat.back THEN pat.ps[n] ELSE pat.ps[1]
        others == IF pat.back THEN SubSeq(pat.ps, 1, n - 1) ELSE Tail(pat.ps)
    IN  IF n = 0
        THEN IF pat.rest # None
             THEN compile_pat(sv, pat.rest, onMatch, onFail, Append(p, 1))
             ELSE view(case1(Var(vw), PVariant("Empty", << >>), onMatch, onFail))
        ELSE view(case1(Var(vw), PVariant("More", <<PVar(h), PVar(tl)>>),
                        compile_pat(h, elem,
                                    compile_seqview(tl, [pat EXCEPT !.ps = others], onMatch, onFail,
                                                    Append(p, 2)),
                                    onFail, Append(p, 1)),
                        onFail))

compile_pat(sv, pat, onMatch, onFail, p) ==
    CASE pat.k = "wild" -> onMatch
      [] pat.k = "pvar" -> let_(pat.x, Var(sv), onMatch)
      [] pat.k = "plit" ->
           IF pat.t.k = "str" THEN when(bin("==", Var(sv), pat.t), onMatch, onFail)
           ELSE case1(Var(sv), pat, onMatch, onFail)
      [] pat.k = "phook" -> when(App(App(pat.eq, Var(sv)), pat.t), onMatch, onFail)
      [] pat.k = "pseq" -> compile_seqview(sv, pat, onMatch, onFail, p)
      [] pat.k = "ptensor" ->
           LET at(i) == App(App(Var(<<"@tensor_index">>), Var(sv)), Num(i))
               from == pat.len - Len(pat.back)
               mid == App(App(App(Var(<<"@tensor_slice">>), Var(sv)), Num(Len(pat.front))), Num(from))
           IN  compile_fields([i \in DOMAIN pat.front |-> at(i - 1)]
                                 \o (IF pat.mid = None THEN << >> ELSE <<mid>>)
                                 \o [i \in DOMAIN pat.back |-> at(from + i - 1)],
                              pat.front \o Opt(pat.mid) \o pat.back, onMatch, onFail, p)
      [] pat.k = "prange" ->
           when(bin(">=", Var(sv), pat.lo),
                IF pat.hi = None THEN onMatch ELSE when(bin("<=", Var(sv), pat.hi), onMatch, onFail),
                onFail)
      [] pat.k = "ptuple" ->
           compile_fields([i \in DOMAIN pat.ps |-> Field(Var(sv), i - 1)], pat.ps, onMatch, onFail, p)
      [] pat.k = "pstruct" ->
           compile_fields([i \in DOMAIN pat.ps |-> Field(Var(sv), pat.ls[i])], pat.ps,
                          IF pat.rest = None THEN onMatch
                          ELSE let_(pat.rest.x, record_without(Var(sv), pat.ls), onMatch),
                          onFail, p)
      [] pat.k = "pvariant" ->
           LET xs == [i \in DOMAIN pat.ps |-> <<"%v">> \o Append(p, i)]
           IN  case1(Var(sv), PVariant(pat.tag, [i \in DOMAIN xs |-> PVar(xs[i])]),
                     compile_binders(xs, pat.ps, onMatch, onFail, p), onFail)
      [] pat.k = "pprefix" ->
           LET n == Num(Len(pat.s))
               cut == IF pat.back THEN bin("@isub", array_len(sv), n) ELSE n
               front == array_slice(sv, Num(0), cut)
               rear == array_slice(sv, cut, array_len(sv))
               tv == <<"%r">> \o p
           IN  when(bin(">=", array_len(sv), n),
                    when(bin("==", IF pat.back THEN rear ELSE front, Str(pat.s)),
                         let_(tv, IF pat.back THEN front ELSE rear,
                              compile_pat(tv, pat.rest, onMatch, onFail, Append(p, 1))),
                         onFail),
                    onFail)

compile_arm(s, arm, onFail, p) ==
    compile_pat(s, arm.pat, IF arm.guard = None THEN arm.e ELSE when(arm.guard, arm.e, onFail), onFail, p)

-----------------------------------------------------------------------------
RECURSIVE compile_arms(_, _, _, _, _), go(_, _)

\* Mutant: the remaining arms replace a single failure point whatever is bound
\* around it.
compile_arms_capture(s, arms, i, fail, p) ==
    IF i > Len(arms) THEN fail
    ELSE LET rest == compile_arms(s, arms, i + 1, fail, p)
             target == App(Var(<<"%k">> \o Append(p, i)), Unit)
             code == compile_arm(s, arms[i], target, Append(p, i))
         IN  replace_node(code, target, rest)

\* The remaining arms go inline where the arm can fail once, and into a thunk
\* called from every failure point otherwise.
compile_arms(s, arms, i, fail, p) ==
    LET j == group_end(arms, i)
        pi == Append(p, i)
        rest == compile_arms(s, arms, i + 1, fail, p)
        fk == <<"%k">> \o pi
        target == App(Var(fk), Unit)
        code == compile_arm(s, arms[i], target, pi)
        sites == failure_sites(code, target, {})
    IN  IF i > Len(arms) THEN fail
        ELSE IF j > i
        THEN Case(Var(s),
                  [m \in 1..(j - i) |->
                      Arm(named(arms[i + m - 1].pat, pi \o <<m>>), None, arms[i + m - 1].e)],
                  IF j <= Len(arms) /\ arms[j].guard = None /\ arms[j].pat.k \in {"wild", "pvar"}
                  THEN compile_pat(s, arms[j].pat, arms[j].e, fail, pi)
                  ELSE compile_arms(s, arms, j, fail, p))
        ELSE IF fails_at_most_once_unbound(arms[i]) THEN compile_arm(s, arms[i], rest, pi)
        ELSE IF sites = << >> THEN code
        ELSE IF Len(sites) = 1 /\ \A x \in sites[1] : ~mentions(rest, x)
        THEN replace_node(code, target, rest)
        ELSE let_(fk, Lam(<<"_">>, rest), code)

\* Flatten every Case under t: bind the scrutinee once, then chain the arms.
go(t, p) ==
    LET kids == Kids(t)
        u == map_node(t, [i \in DOMAIN kids |-> go(kids[i].t, Append(p, i))])
        s == <<"%s">> \o p
    IN  IF u.k # "case" THEN u
        ELSE let_(s, u.s, compile_arms(s, u.arms, 1, IF u.d = None THEN Fault("no pattern matched") ELSE u.d, p))

compile_matches(t) == go(t, <<0>>)
=============================================================================
