------------------------------- MODULE Native -------------------------------
(***************************************************************************)
(* The program ccg/src/gen.rs emits for the IR, running on the driver of   *)
(* ccg/src/runtime.c.  A block of C is a pair [e, sink]: the expression it *)
(* evaluates and where the value goes, up the continuation stack (Ret) or  *)
(* into a slot before the block cont runs (None: the code goes on in this  *)
(* block).  exec runs a block to its terminator, left in the register act. *)
(* A global function that provably never suspends is also a C function,    *)
(* whose activation lives on the C stack: d is that activation's function, *)
(* None in a block.  Runs that nest on the C stack (a global's first read, *)
(* a lazy slot, a call from such a function) happen within one step.       *)
(***************************************************************************)
EXTENDS NativeHeap

\* The runtime's state S has, besides the fields of NativeHeap:
\*   prog   codes, globals, known, direct and order: what the generator knows
\*   cur    the running activation fr (0: none) and its block blk
\*   act    the terminator of the block, None before it
\*   res    the value of the run that has just ended
\*   memo, busy   the globals' values by code, and those in progress
\*   todo   the globals main has yet to force
\*   depth, room  the C calls in progress and how many the stack holds
\*   trace  the values handed to the foreign function
\*   shown  the value main shows, None before it

Ret == [k |-> "ret"]
Into(s, cont) == [k |-> "slot", s |-> s, cont |-> cont]
Block(e, sink) == [k |-> "block", e |-> e, sink |-> sink]
NoCur == [fr |-> 0, blk |-> None]

-----------------------------------------------------------------------------
(* What the generator knows of the program. *)
RECURSIVE returned_closure(_), known_chain(_, _)

\* The closure an expression returns, under the drop of an unread parameter.
returned_closure(e) ==
    CASE e.k = "ret" /\ e.a.k = "clos" -> e.a
      [] e.k = "drop" /\ e.ss = {1} -> returned_closure(e.e)
      [] OTHER -> None

\* f extended by the lambdas its last code returns; env[j] is the argument that
\* field j of the last code's environment holds.
known_chain(codes, f) ==
    LET r == returned_closure(codes[Last(f.codes)].e)
        argument(a) == CASE a.k \in {"local", "move"} /\ a.s = 1 -> Len(f.codes)
                         [] a.k \in {"env", "moveenv"} /\ a.j \in DOMAIN f.env -> f.env[a.j]
                         [] OTHER -> 0
        into == Each(argument, r.caps)
    IN  IF r = None THEN f
        ELSE IF codes[r.code].nparams # 1 \/ 0 \in Range(into) THEN f
        ELSE known_chain(codes, [codes |-> Append(f.codes, r.code), env |-> into])

known_fn(codes, caf) ==
    LET r == returned_closure(codes[caf].e)
    IN  IF r = None THEN None
        ELSE IF r.caps # << >> \/ codes[r.code].nparams # 1 THEN None
        ELSE known_chain(codes, [codes |-> <<r.code>>, env |-> << >>])

inner(f) == Last(f.codes)

RECURSIVE Atoms(_)
\* Every atom under e, captures included.
Atoms(e) ==
    LET RECURSIVE all(_)
        all(a) == {a} \cup (IF a.k = "clos" THEN UNION {all(b) : b \in Range(a.caps)} ELSE {})
    IN  UNION {all(a) : a \in Range(Operands(e))} \cup UNION {Atoms(kid) : kid \in Range(IKids(e))}

RECURSIVE reachable_codes(_, _)
reachable_codes(ir, seen) ==
    LET next == UNION {LET as == Atoms(ir.codes[c].e)
                       IN  {a.code : a \in {b \in as : b.k = "clos"}}
                           \cup {ir.globals[a.x] : a \in {b \in as : b.k = "glob" /\ b.x \in DOMAIN ir.globals}}
                       : c \in seen}
    IN  IF next \subseteq seen THEN seen ELSE reachable_codes(ir, seen \cup next)

\* What applying the global named x calls, and its arity n.
gcallee(p, x) ==
    IF x \in DOMAIN p.globals
    THEN LET caf == p.globals[x]
         IN  IF caf \in DOMAIN p.known THEN [k |-> "known", caf |-> caf, n |-> Len(p.known[caf].codes)]
             ELSE IF p.codes[caf].e = IRet(Lit(Extern)) THEN [k |-> "extern", n |-> 1] ELSE None
    ELSE IF x \in DOMAIN Prims THEN [k |-> "prim", op |-> x, n |-> Prims[x]] ELSE None

NoCall == [callee |-> None]

lone_call(p, e) ==
    LET c == IF e.f.k = "glob" THEN gcallee(p, e.f.x) ELSE None
    IN  IF c = None THEN NoCall
        ELSE IF c.n = 1 THEN [callee |-> c, args |-> <<e.a>>, drops |-> {}, rest |-> << >>] ELSE NoCall

RECURSIVE chain_on(_, _, _)

\* The call extended over e, where partial is the slot of the last application.
chain_on(call, partial, e) ==
    LET n == Len(call.args)
        more(a) == [call EXCEPT !.args = Append(@, a)]
        applies(x) == x.k = "app" /\ x.f = Move(partial)
    IN  CASE n = call.callee.n -> [call EXCEPT !.rest = <<[s |-> partial, e |-> e]>>]
          [] n < call.callee.n /\ e.k = "drop" -> chain_on([call EXCEPT !.drops = @ \cup e.ss], partial, e.e)
          [] n + 1 = call.callee.n /\ applies(e) -> more(e.a)
          [] n < call.callee.n /\ e.k = "let" /\ applies(e.rhs) -> chain_on(more(e.rhs.a), e.s, e.e)
          [] OTHER -> NoCall

\* A built-in or known function applied to all its operands, spelt as lets.
call_chain(p, e) ==
    LET c == IF e.rhs.k = "app" /\ e.rhs.f.k = "glob" THEN gcallee(p, e.rhs.f.x) ELSE None
    IN  IF c = None THEN NoCall
        ELSE chain_on([callee |-> c, args |-> <<e.rhs.a>>, drops |-> {}, rest |-> << >>], e.s, e.e)

\* Applying fun to one argument only builds a value.
partial_callee(p, fun) ==
    LET c == IF fun.k = "glob" THEN gcallee(p, fun.x) ELSE None IN c # None /\ c.k # "extern" /\ c.n > 1

RECURSIVE never_suspends(_, _, _)
never_suspends(p, e, safe) ==
    LET ok(call) == call.callee.k = "known" => call.callee.caf \in safe
        ch == call_chain(p, e)
        lone == lone_call(p, e)
    IN  CASE e.k = "let" ->
               IF ch # NoCall THEN ok(ch) /\ \A i \in DOMAIN ch.rest : never_suspends(p, ch.rest[i].e, safe)
               ELSE never_suspends(p, e.rhs, safe) /\ never_suspends(p, e.e, safe)
          [] e.k = "app" -> IF lone # NoCall THEN ok(lone) ELSE partial_callee(p, e.f)
          [] e.k \in {"case", "drop"} -> \A kid \in Range(IKids(e)) : never_suspends(p, kid, safe)
          [] e.k \in {"handle", "defer"} -> FALSE
          [] OTHER -> TRUE

RECURSIVE direct_safe(_, _)
\* The greatest set of known functions that only call each other.
direct_safe(p, safe) ==
    LET left == {c \in safe : never_suspends(p, p.codes[inner(p.known[c])].e, safe)}
    IN  IF left = safe THEN safe ELSE direct_safe(p, left)

\* order: the codes of the globals main forces, in the order they are defined.
generate(ir, names) ==
    LET reach == reachable_codes(ir, {ir.globals[<<"main">>]})
        cafs == {ir.globals[x] : x \in DOMAIN ir.globals} \cap reach
        p == [codes |-> ir.codes, globals |-> ir.globals,
              known |-> [c \in {d \in cafs : known_fn(ir.codes, d) # None} |-> known_fn(ir.codes, c)] @@ << >>]
        codes == [i \in DOMAIN names |-> ir.globals[names[i]]]
    IN  [codes |-> p.codes, globals |-> p.globals, known |-> p.known,
         direct |-> direct_safe(p, DOMAIN p.known),
         order |-> SelectSeq(codes, LAMBDA c: c \in reach)]

RECURSIVE has_call(_)
\* A let's value that calls anything is delivered to a block of its own.
has_call(e) == e.k \in {"app", "handle", "defer"} \/ \E kid \in Range(IKids(e)) : has_call(kid)

-----------------------------------------------------------------------------
(* The driver. *)
Act(S, a) == [S EXCEPT !.act = a]

push(S, k) == [S EXCEPT !.kont = Append(@, k)]

pop(S) == [S EXCEPT !.kont = Front(@)]

\* A K_RET for the activation, which it keeps alive.
push_ret(S, fr, cont, s) == push([S EXCEPT !.f[fr].rc = @ + 1], [k |-> "kret", frame |-> fr, cont |-> cont, slot |-> s])

RECURSIVE put_args(_, _, _, _)
put_args(S, fr, args, i) ==
    IF i > Len(args) THEN S ELSE put_args(setlocal(S, fr, i, args[i]), fr, args, i + 1)

\* The activation of clo on args, the first one lent; it replaces the running one.
enter_clo(S, clo, args, lent) ==
    LET x == At(S, clo)
        new == frame_new(S, S.prog.codes[x.code].nlocals, clo)
        T == IF lent THEN [put(new.S, new.fr, 1, args[1]) EXCEPT !.f[new.fr].lent = {1}]
             ELSE put_args(new.S, new.fr, args, 1)
    IN  IF x.k # "code" THEN Bad(S, "entering a non-closure")
        ELSE [frame_release(T, S.cur.fr) EXCEPT !.cur = [fr |-> new.fr, blk |-> Block(S.prog.codes[x.code].e, Ret)]]

\* The defer cleanups of a slice, each with a reference of its own.
segment_cleanups(seg) == LET ds == SelectSeq(seg, LAMBDA k: k.k = "kdefer") IN Each(LAMBDA k: k.c, ds)

queue_cleanups(S, cs, v) ==
    FoldLeft(LAMBDA T, c: push(retain(T, c), [k |-> "kdefer", c |-> c]), push(S, [k |-> "kthunk", saved |-> v]), cs)

RECURSIVE return_to(_, _, _)

\* A clause is over.  Its continuation was abandoned if it was never resumed and
\* only clause boundaries still own it: its cleanups run now.
after_clause(S, v, base) ==
    LET k == Last(S.kont)
        T == pop(S)
        res == S.r[k.res]
    IN  IF res.used \/ res.rc > res.bound THEN return_to(kframe_release(T, k), v, base)
        ELSE return_to(kframe_release(queue_cleanups(T, segment_cleanups(res.seg.ks), v), k), Unit, base)

\* The value v, with one reference in flight, reaches the continuation stack.
return_to(S, v, base) ==
    LET k == Last(S.kont)
        T == pop(S)
        slot == Local_(T, k.frame, k.slot)
        back == [T EXCEPT !.cur = [fr |-> k.frame, blk |-> k.cont]]
    IN  IF S.fault # None THEN S
        ELSE IF Len(S.kont) = base THEN [S EXCEPT !.cur = NoCur, !.res = v]
        ELSE CASE k.k = "kret" ->
                    IF slot = Empty THEN put(back, k.frame, k.slot, v) ELSE release(patch_box(back, slot, v), v)
               [] k.k = "kprompt" -> release(kframe_release(enter_clo(T, k.els, <<v>>, FALSE), k), v)
               [] k.k = "kdefer" ->
                    kframe_release(enter_clo(push(T, [k |-> "kthunk", saved |-> v]), k.c, << >>, FALSE), k)
               [] k.k = "kthunk" -> return_to(release(T, v), k.saved, base)
               [] k.k = "kafter" -> after_clause(S, v, base)
               [] k.k = "kcleanups" -> return_to(kframe_release(queue_cleanups(T, k.cs, v), k), Unit, base)

\* The returning activation goes first: what it held must not look like an owner.
do_ret(S, v, base) ==
    return_to([frame_release(retain(S, v), S.cur.fr) EXCEPT !.cur.fr = 0], v, base)

-----------------------------------------------------------------------------
(* Built-ins. *)
RECURSIVE show(_, _)

\* A value as the outside sees it.
show(S, v) ==
    LET x == At(S, v)
    IN  CASE x.k \in {"variant", "tuple", "struct", "vec"} -> [x EXCEPT !.fs = Each(LAMBDA w: show(S, w), @)]
          [] x.k \in {"code", "builtin", "op", "extern", "resump"} -> [k |-> "fun"]
          [] x.k \in {"thunk", "blackhole"} -> [k |-> "unforced"]
          [] OTHER -> x

\* Mutant: a vector is updated in place whoever holds it.
vec_update_shared(S, args, fs, owned) ==
    LET v == args[1]
        old == At(S, v).fs
    IN  IF owned
        THEN Val([release_all(retain_all(S, fs), old) EXCEPT !.c[v.at].x.fs = fs], v)
        ELSE alloc_value(S, [k |-> "vec", fs |-> fs])

\* The vector args[1] with contents fs.  It is updated in place when the caller
\* gave up the only reference to it.
vec_update(S, args, fs, owned) ==
    LET v == args[1]
        old == At(S, v).fs
    IN  IF owned /\ unique(S, v)
        THEN Val([release_all(retain_all(S, fs), old) EXCEPT !.c[v.at].x.fs = fs], v)
        ELSE alloc_value(S, [k |-> "vec", fs |-> fs])

\* Structural equality, of values as they are: a lazy slot, like a function,
\* equals nothing.  Records agree label by label.
RECURSIVE value_eq(_, _, _)
value_eq(S, v, w) ==
    LET x == At(S, v)
        y == At(S, w)
        pairwise == Len(x.fs) = Len(y.fs) /\ \A i \in DOMAIN x.fs : value_eq(S, x.fs[i], y.fs[i])
    IN  CASE x.k # y.k -> FALSE
          [] x.k \in {"int", "str", "bool", "unit"} -> x = y
          [] x.k \in {"tuple", "vec"} -> pairwise
          [] x.k = "variant" -> x.tag = y.tag /\ pairwise
          [] x.k = "struct" ->
               /\ Len(x.ls) = Len(y.ls)
               /\ \A i \in DOMAIN x.ls :
                     \E j \in DOMAIN y.ls : y.ls[j] = x.ls[i] /\ value_eq(S, x.fs[i], y.fs[j])
          [] OTHER -> FALSE

clamp(i, n) == IF i < n THEN i ELSE n

Sliced(s, lo, hi) == LET b == clamp(lo, Len(s)) IN SubSeq(s, b + 1, IF clamp(hi, Len(s)) < b THEN b ELSE clamp(hi, Len(s)))

\* The operands are borrowed, the result is fresh or a child of one of them.
run_builtin(S, op, args, owned) ==
    LET x == Each(LAMBDA v: At(S, v), args)
        within(i, s) == i < Len(s)
    IN  CASE op = <<"@iadd">> -> Val(S, Num(x[1].i + x[2].i))
          [] op = <<"@isub">> -> Val(S, Num(x[1].i - x[2].i))
          [] op = <<"@ilt">> -> Val(S, Bool(x[1].i < x[2].i))
          [] op = <<"not">> -> Val(S, Bool(~x[1].b))
          [] op = <<"<=">> -> Val(S, Bool(x[1].i <= x[2].i))
          [] op = <<">=">> -> Val(S, Bool(x[1].i >= x[2].i))
          [] op = <<"==">> -> Val(S, Bool(value_eq(S, args[1], args[2])))
          [] op = <<"@array_len">> -> Val(S, Num(Len(x[1].s)))
          [] op = <<"@array_slice">> -> Val(S, Str(Sliced(x[1].s, x[2].i, x[3].i)))
          [] op = <<"@array_get">> ->
               IF within(x[2].i, x[1].s) THEN Val(S, Num(x[1].s[x[2].i + 1]))
               ELSE Val(Bad(S, "array index out of bounds"), Unit)
          [] op = <<"@acat">> -> Val(S, Str(x[1].s \o x[2].s))
          [] op = <<"record_without">> ->
               LET keep == SelectSeq([i \in DOMAIN x[1].ls |-> i], LAMBDA i: x[1].ls[i] # x[2].s[1])
               IN  alloc_value(S, [k |-> "struct", ls |-> Each(LAMBDA i: x[1].ls[i], keep),
                                   fs |-> Each(LAMBDA i: x[1].fs[i], keep)])
          [] op = <<"@delay">> -> alloc_value(S, [k |-> "thunk", f |-> args[1]])
          [] op = <<"@vec_new">> -> alloc_value(S, [k |-> "vec", fs |-> << >>])
          [] op = <<"@vec_len">> -> Val(S, Num(Len(x[1].fs)))
          [] op = <<"@vec_slice">> -> alloc_value(S, [k |-> "vec", fs |-> Sliced(x[1].fs, x[2].i, x[3].i)])
          [] op = <<"@vec_push">> -> vec_update(S, args, Append(x[1].fs, args[2]), owned)
          [] op = <<"@vec_set">> ->
               IF within(x[2].i, x[1].fs) THEN vec_update(S, args, [x[1].fs EXCEPT ![x[2].i + 1] = args[3]], owned)
               ELSE Val(Bad(S, "vec index out of bounds"), Unit)
          [] op = <<"@vec_get">> ->
               IF within(x[2].i, x[1].fs) THEN Val(S, x[1].fs[x[2].i + 1])
               ELSE Val(Bad(S, "vec index out of bounds"), Unit)

\* The foreign function.
emit_call_out(S, v) == Val([S EXCEPT !.trace = Append(@, show(S, v))], Unit)

-----------------------------------------------------------------------------
(* Applications, by what the callee is. *)
do_perform(S, op, arg, base) ==
    LET handles(k) == k.k = "kprompt" /\ \E i \in DOMAIN k.clauses : k.clauses[i].op = op
        at == {i \in (base + 1)..Len(S.kont) : handles(S.kont[i])}
        i == CHOOSE j \in at : \A l \in at : l <= j
        cl == Head(SelectSeq(S.kont[i].clauses, LAMBDA c: c.op = op))
        seg == SubSeq(S.kont, i, Len(S.kont))
        below == [S EXCEPT !.kont = SubSeq(@, 1, i - 1)]
        \* the clause never resumes: only the cleanups are kept
        cs == segment_cleanups(seg)
        kept == FoldLeft(kframe_release, retain_all(retain(below, cl.fun), cs), seg)
        never == enter_clo(IF cs = << >> THEN kept ELSE push(kept, [k |-> "kcleanups", cs |-> cs]),
                           cl.fun, <<arg, Unit>>, FALSE)
        \* the slice moves into a resumption, which the clause boundary owns too
        slice == [rc |-> 2, bound |-> 1, seg |-> [k |-> "seg", ks |-> seg], used |-> FALSE]
        kval == alloc_value([below EXCEPT !.r = (S.n :> slice) @@ @, !.n = @ + 1], [k |-> "resump", to |-> S.n])
        captured == enter_clo(push(kval.S, [k |-> "kafter", res |-> S.n]), cl.fun, <<arg, kval.v>>, FALSE)
    IN  IF at = {} THEN Bad(S, "unhandled effect operation")
        ELSE IF cl.never THEN release(never, cl.fun) ELSE captured

\* A resumption nobody else can resume moves its slice back; otherwise a private
\* copy is spliced in.
do_resume(S, fn, arg, base, owned) ==
    LET id == At(S, fn).to
        res == S.r[id]
        T == [S EXCEPT !.r[id].used = TRUE]
        copy == segment_copy(T, res.seg.ks)
    IN  IF res.seg = None THEN Bad(S, "resumed a continuation that was moved out")
        ELSE IF owned /\ unique(S, fn) /\ res.rc = res.bound + 1
        THEN do_ret([T EXCEPT !.r[id].seg = None, !.kont = @ \o res.seg.ks], arg, base)
        ELSE do_ret([copy.S EXCEPT !.kont = @ \o copy.out], arg, base)

do_builtin(S, fn, arg, base, owned) ==
    LET x == At(S, fn)
        args == Append(x.args, arg)
        r == IF Len(args) < Prims[x.op] THEN alloc_value(S, [x EXCEPT !.args = args])
             ELSE run_builtin(S, x.op, args, x.args # << >> /\ owned /\ unique(S, fn))
    IN  IF r.S.fault # None THEN r.S ELSE do_ret(r.S, r.v, base)

\* The call owns fn, and arg unless it is lent.
do_apply(S0, fn, arg, base, owned, lent) ==
    LET S == IF owned THEN S0 ELSE retain(retain(S0, fn), arg)
        x == At(S, fn)
        T == CASE x.k = "code" -> enter_clo(S, fn, <<arg>>, lent)
               [] x.k = "builtin" -> do_builtin(S, fn, arg, base, owned)
               [] x.k = "extern" -> LET r == emit_call_out(S, arg) IN do_ret(r.S, r.v, base)
               [] x.k = "op" -> do_perform(S, x.op, arg, base)
               [] x.k = "resump" -> do_resume(S, fn, arg, base, owned)
               [] OTHER -> Bad(S, "applied a non-function value")
        U == release(T, fn)
    IN  IF T.fault # None THEN T ELSE IF lent THEN U ELSE release(U, arg)

-----------------------------------------------------------------------------
(* Generated code. *)
RECURSIVE exec(_, _, _, _, _), run_loop(_, _), force(_, _), gatom(_, _, _), gatoms(_, _, _), direct_call(_, _, _)

\* Run what start left in cur until the stack is back at base, then go on where
\* S was.
nested(S, start, base) ==
    LET T == run_loop([start EXCEPT !.depth = @ + 1], base)
    IN  Val([T EXCEPT !.cur = S.cur, !.act = S.act, !.depth = S.depth], T.res)

Idle(S) == [S EXCEPT !.cur = NoCur]

kcall(S, f, arg, owned) ==
    nested(S, do_apply(Idle(S), f, arg, Len(S.kont), owned, FALSE), Len(S.kont))

start_code(S, code) ==
    LET new == frame_new(S, S.prog.codes[code].nlocals, Empty)
    IN  [new.S EXCEPT !.cur = [fr |-> new.fr, blk |-> Block(S.prog.codes[code].e, Ret)], !.busy = @ \cup {code}]

end_code(S, code, v) == [S EXCEPT !.memo = (code :> v) @@ @, !.busy = @ \ {code}]

\* A global's first read computes it; a later one finds it.
force_code(S, code) ==
    IF code \in DOMAIN S.memo THEN Val(S, S.memo[code])
    ELSE IF code \in S.busy THEN Val(Bad(S, "a value global refers to itself while being defined"), Unit)
    ELSE LET r == nested(S, start_code(S, code), Len(S.kont)) IN Val(end_code(r.S, code, r.v), r.v)

glob_atom(S, x) ==
    CASE x \in DOMAIN S.prog.globals -> force_code(S, S.prog.globals[x])
      [] x \in DOMAIN Prims -> alloc_value(S, [k |-> "builtin", op |-> x, args |-> << >>])
      [] OTHER -> Val(S, [k |-> "op", op |-> x])

gatom(S, fr, a) ==
    CASE a.k = "local" -> local(S, fr, a.s)
      [] a.k = "move" -> take(S, fr, a.s)
      [] a.k = "env" -> env(S, fr, a.j)
      [] a.k = "moveenv" -> take_env(S, fr, a.j)
      [] a.k = "glob" -> glob_atom(S, a.x)
      [] a.k = "lit" -> Val(S, a.t)
      [] a.k = "clos" ->
           LET r == gatoms(S, fr, a.caps) IN alloc_value(r.S, [k |-> "code", code |-> a.code, env |-> r.vs])

\* The atoms in order, none after a fault.
gatoms(S, fr, as) ==
    IF as = << >> THEN [S |-> S, vs |-> << >>]
    ELSE LET r == gatom(S, fr, Head(as))
             q == gatoms(r.S, fr, Tail(as))
         IN  IF r.S.fault # None THEN [S |-> r.S, vs |-> [i \in DOMAIN as |-> Unit]]
             ELSE [S |-> q.S, vs |-> <<r.v>> \o q.vs]

\* Run a lazy slot's closure and patch the cell.  The run takes over a closure
\* only the cell owns, and the cell is a black hole meanwhile.
force(S, v) ==
    LET f == At(S, v).f
        sole == unique(S, f)
        r == IF sole THEN kcall([S EXCEPT !.c[v.at].x = [k |-> "blackhole", f |-> Empty]], f, Unit, TRUE)
             ELSE LET q == kcall(retain(S, f), f, Unit, FALSE) IN Val(release(q.S, f), q.v)
        T == IF Steals(r.S, v, r.v) THEN steal_payload(r.S, v, r.v) ELSE release(patch_box(r.S, v, r.v), r.v)
    IN  CASE At(S, v).k = "blackhole" -> Val(Bad(S, "a lazy value depends on itself"), v)
          [] At(S, v).k # "thunk" -> Val(S, v)
          [] At(S, v).k = "thunk" ->
               IF r.S.fault # None THEN Val(r.S, v)
               ELSE IF r.v = v THEN Val(IF sole THEN Bad(r.S, "a lazy value depends on itself") ELSE r.S, v)
               ELSE force(T, v)

RECURSIVE updated(_, _, _)
updated(x, ls, vs) ==
    IF ls = << >> THEN x
    ELSE LET at == {i \in DOMAIN x.ls : x.ls[i] = Head(ls)}
         IN  updated(IF at = {} THEN [x EXCEPT !.ls = Append(@, Head(ls)), !.fs = Append(@, Head(vs))]
                     ELSE [x EXCEPT !.fs[CHOOSE i \in at : TRUE] = Head(vs)],
                     Tail(ls), Tail(vs))

struct_update(S, base, ls, vs) ==
    LET b == force(S, base)
        x == At(b.S, b.v)
    IN  IF b.S.fault # None THEN b
        ELSE IF x.k # "struct" THEN Val(Bad(b.S, "record update of a non-struct value"), b.v)
        ELSE alloc_value(b.S, updated(x, ls, vs))

field(S, v, l) ==
    LET r == force(S, v)
        x == At(r.S, r.v)
        at == CASE x.k = "struct" -> {i \in DOMAIN x.ls : x.ls[i] = l}
                [] x.k = "tuple" -> {i \in DOMAIN x.fs : i - 1 = l}
                [] OTHER -> {}
    IN  IF r.S.fault # None THEN r
        ELSE IF at = {} THEN Val(Bad(r.S, "no field"), r.v) ELSE Val(r.S, x.fs[CHOOSE i \in at : TRUE])

value_expr(S, fr, e) ==
    LET r == gatoms(S, fr, Operands(e))
    IN  IF r.S.fault # None THEN Val(r.S, Unit)
        ELSE CASE e.k = "ret" -> Val(r.S, r.vs[1])
               [] e.k = "tuple" -> alloc_value(r.S, [k |-> "tuple", fs |-> r.vs])
               [] e.k = "field" -> field(r.S, r.vs[1], e.l)
               [] e.k = "struct" ->
                    IF e.base = None THEN alloc_value(r.S, [k |-> "struct", ls |-> e.ls, fs |-> r.vs])
                    ELSE struct_update(r.S, r.vs[1], e.ls, Tail(r.vs))
               [] e.k = "variant" ->
                    LET x == [k |-> "variant", tag |-> e.tag, fs |-> r.vs]
                    IN  IF e.reuse = 0 THEN alloc_value(r.S, x) ELSE variant_at(r.S, fr, e.reuse, x)

\* A direct activation ends: its slots, its parameter row, its temporaries.
d_reset(S, fr, d) ==
    LET f == S.f[fr]
    IN  pool_drain(release_all([S EXCEPT !.f = Without(@, fr)], f.locals \o f.env), d.mark)

deliver(S, fr, d, v, sink) ==
    CASE S.fault # None -> S
      [] S.fault = None /\ sink.k = "slot" ->
           LET T == backpatch(S, fr, sink.s, v)
           IN  IF sink.cont = None THEN T ELSE Act(T, [k |-> "jump", blk |-> sink.cont])
      [] S.fault = None /\ sink = Ret ->
           IF d = None THEN Act(S, [k |-> "ret", v |-> v])
           ELSE Act(d_reset(retain(S, v), fr, d), [k |-> "leave", v |-> v])

-----------------------------------------------------------------------------
(* Calls. *)
\* The result of call goes into rest's slot and rest runs, or to the sink.
emit_prim(S, fr, d, call, sink) ==
    LET to == call.rest[1]
        S0 == IF call.rest = << >> THEN S ELSE drop(S, fr, to.s)
        r == gatoms(S0, fr, call.args)
        a == call.args[1]
        owned == a.k = "move" \/ (a.k = "moveenv" /\ EnvOf(r.S, fr)[a.j] = Empty)
        p == IF call.callee.k = "extern" THEN emit_call_out(r.S, r.vs[1])
             ELSE run_builtin(r.S, call.callee.op, r.vs, owned)
    IN  IF r.S.fault # None THEN r.S
        ELSE IF p.S.fault # None THEN p.S
        ELSE IF call.rest = << >> THEN deliver(drop_all(p.S, fr, call.drops), fr, d, p.v, sink)
        ELSE exec(drop_all(backpatch(p.S, fr, to.s, p.v), fr, call.drops), fr, d, to.e, sink)

\* An argument for a direct function, which owns it.
give_atom(S, fr, a) ==
    CASE a.k = "move" -> give(S, fr, a.s)
      [] a.k = "moveenv" -> give_env(S, fr, a.j)
      [] OTHER -> LET r == gatom(S, fr, a) IN Val(retain(r.S, r.v), r.v)

RECURSIVE give_atoms(_, _, _)
give_atoms(S, fr, as) ==
    IF as = << >> THEN [S |-> S, vs |-> << >>]
    ELSE LET r == give_atom(S, fr, Head(as))
             q == give_atoms(r.S, fr, Tail(as))
         IN  [S |-> q.S, vs |-> <<r.v>> \o q.vs]

\* Without room on the C stack: the closure of the last code over the arguments
\* it reads, whose references go to the pool, as does the last argument's.
fallback(S, f, vs) ==
    LET T == FoldLeft(LAMBDA U, i: pool_adopt(U, vs[i]), S, Append(f.env, Len(vs)))
    IN  alloc_value(T, [k |-> "code", code |-> inner(f), env |-> Each(LAMBDA i: vs[i], f.env)])

Room(S) == S.depth < S.room

\* A saturated call of a direct function.  A self tail call is a loop.
emit_call(S, fr, d, call, sink) ==
    LET f == S.prog.known[call.callee.caf]
        g == give_atoms(S, fr, call.args)
        last == Last(g.vs)
        to == call.rest[1]
        clos == fallback(g.S, f, g.vs)
        direct == own(direct_call(g.S, call.callee.caf, g.vs))
        byMachine == own(kcall(clos.S, clos.v, last, FALSE))
        r == IF Room(g.S) THEN direct ELSE byMachine
        \* in a block: what follows is a block of its own
        next == IF call.rest = << >> THEN sink ELSE Into(to.s, Block(to.e, sink))
        clear(T) == LET U == drop_all(T, fr, call.drops) IN IF call.rest = << >> THEN U ELSE drop(U, fr, to.s)
        applied == Act(IF next = Ret THEN clear(clos.S) ELSE push_ret(clear(clos.S), fr, next.cont, next.s),
                       [k |-> "apply", fn |-> clos.v, arg |-> last, lend |-> FALSE])
    IN  IF g.S.fault # None THEN g.S
        ELSE IF d # None /\ call.rest = << >> /\ sink = Ret /\ inner(S.prog.known[d.caf]) = inner(f)
        THEN Act(d_reset(g.S, fr, d), [k |-> "again", args |-> g.vs])
        ELSE IF d = None /\ ~Room(g.S) THEN applied
        ELSE IF r.S.fault # None THEN r.S
        ELSE IF d = None \/ call.rest = << >> THEN deliver(clear(r.S), fr, d, r.v, next)
        ELSE exec(backpatch(clear(r.S), fr, to.s, r.v), fr, d, to.e, sink)

\* d_<code>(vs): the row of arguments is the activation's environment, the last
\* argument its first slot.
direct_call(S, caf, vs) ==
    LET f == S.prog.known[caf]
        n == Len(vs)
        code == S.prog.codes[inner(f)]
        new == frame_new(S, code.nlocals, Empty)
        T == [put(new.S, new.fr, 1, vs[n]) EXCEPT !.f[new.fr].env = [vs EXCEPT ![n] = Empty], !.depth = @ + 1]
        U == exec([T EXCEPT !.act = None], new.fr, [k |-> "direct", caf |-> caf, mark |-> Len(S.pool)], code.e, Ret)
    IN  IF U.fault # None THEN Val(U, Unit)
        ELSE IF U.act.k = "again" THEN direct_call([U EXCEPT !.depth = S.depth], caf, U.act.args)
        ELSE Val([U EXCEPT !.act = None, !.depth = S.depth], U.act.v)

\* A call through the machine, in a block.  A lent argument must outlive the
\* callee: a tail call lends a global, or passes on a slot that was lent to it.
machine_call(S, fr, e, sink) ==
    LET f == gatom(S, fr, e.f)
        r == gatom(f.S, fr, e.a)
        global == e.a.k = "glob" /\ e.a.x \in DOMAIN S.prog.globals
        pass == sink = Ret /\ e.lend /\ e.a.k = "local"
        lent == pass /\ e.a.s \in f.S.f[fr].lent
        p == IF ~pass THEN r ELSE IF lent THEN local(f.S, fr, e.a.s) ELSE take(f.S, fr, e.a.s)
        lends == IF pass THEN lent ELSE e.lend /\ (global \/ (sink # Ret /\ e.a.k \in {"local", "env"}))
    IN  IF p.S.fault # None THEN p.S
        ELSE Act(IF sink = Ret THEN p.S ELSE push_ret(p.S, fr, sink.cont, sink.s),
                 [k |-> "apply", fn |-> f.v, arg |-> p.v, lend |-> lends])

emit_app(S, fr, d, e, sink) ==
    LET call == lone_call(S.prog, e)
        r == gatoms(S, fr, <<e.f, e.a>>)
        q == own(kcall(r.S, r.vs[1], r.vs[2], FALSE))
    IN  IF d = None
        THEN IF call # NoCall /\ call.callee.k = "known" /\ call.callee.caf \in S.prog.direct
             THEN emit_call(S, fr, d, call, sink) ELSE machine_call(S, fr, e, sink)
        ELSE IF call = NoCall THEN (IF r.S.fault # None THEN r.S ELSE deliver(q.S, fr, d, q.v, sink))
        ELSE IF call.callee.k = "known" THEN emit_call(S, fr, d, call, sink) ELSE emit_prim(S, fr, d, call, sink)

-----------------------------------------------------------------------------
emit_let(S, fr, d, e, sink) ==
    LET call == call_chain(S.prog, e)
        T == IF imentions(e.rhs, e.s) THEN setbox(S, fr, e.s) ELSE drop(S, fr, e.s)
        blocks == d = None /\ has_call(e.rhs)
        U == exec(T, fr, d, e.rhs, Into(e.s, None))
    IN  IF call # NoCall /\ call.callee.k \in {"prim", "extern"} THEN emit_prim(S, fr, d, call, sink)
        ELSE IF call # NoCall /\ call.callee.caf \in S.prog.direct THEN emit_call(S, fr, d, call, sink)
        ELSE IF blocks THEN exec(T, fr, d, e.rhs, Into(e.s, Block(e.e, sink)))
        ELSE exec(U, fr, d, e.e, sink)

emit_case(S, fr, d, e, sink) ==
    LET a == gatom(S, fr, e.a)
        r == force(a.S, a.v)
        x == At(r.S, r.v)
        matches(alt) == IF alt.head.k = "pvariant" THEN x.tag = alt.head.tag ELSE x = alt.head.t
        wrong(alt) == alt.head.k = "pvariant" /\ x.k # "variant"
        hits == SelectSeq(e.alts, matches)
        alt == hits[1]
        T == IF alt.head.k # "pvariant" THEN r.S
             ELSE IF alt.eats # 0 THEN unpack(r.S, fr, r.v, alt) ELSE share_fields(r.S, fr, alt, x.fs, 1)
    IN  IF a.S.fault # None THEN a.S
        ELSE IF r.S.fault # None THEN r.S
        ELSE IF \E i \in DOMAIN e.alts : wrong(e.alts[i]) THEN Bad(r.S, "expected a variant")
        ELSE IF hits = << >> THEN exec(r.S, fr, d, e.d, sink) ELSE exec(T, fr, d, alt.e, sink)

\* A handler or a defer: its mark goes on the stack and its body is a block.
emit_marked(S, fr, e, sink) ==
    LET r == gatoms(S, fr, Operands(e))
        T == IF sink = Ret THEN r.S ELSE push_ret(r.S, fr, sink.cont, sink.s)
        k == IF e.k = "defer" THEN [k |-> "kdefer", c |-> r.vs[1]]
             ELSE [k |-> "kprompt", els |-> Last(r.vs),
                   clauses |-> [i \in DOMAIN e.clauses |-> [e.clauses[i] EXCEPT !.fun = r.vs[i]]] \o << >>]
    IN  IF r.S.fault # None THEN r.S
        ELSE Act(push(retain_all(T, KVals(k)), k), [k |-> "jump", blk |-> Block(e.e, Ret)])

exec(S, fr, d, e, sink) ==
    IF S.fault # None THEN S
    ELSE CASE e.k = "ret" /\ e.a.k = "move" /\ d = None /\ sink # Ret /\ sink.cont = None ->
                kmove(S, fr, sink.s, e.a.s)
           [] e.k \in {"ret", "struct", "field", "variant", "tuple"} /\
              ~(e.k = "ret" /\ e.a.k = "move" /\ d = None /\ sink # Ret /\ sink.cont = None) ->
                LET r == value_expr(S, fr, e) IN deliver(r.S, fr, d, r.v, sink)
           [] e.k = "fault" -> Bad(S, e.w)
           [] e.k = "app" -> emit_app(S, fr, d, e, sink)
           [] e.k = "let" -> emit_let(S, fr, d, e, sink)
           [] e.k = "case" -> emit_case(S, fr, d, e, sink)
           [] e.k \in {"handle", "defer"} -> emit_marked(S, fr, e, sink)
           [] e.k = "drop" -> exec(drop_all(S, fr, e.ss), fr, d, e.e, sink)

-----------------------------------------------------------------------------
(* One bounce of run_loop: the block, then its terminator, once the block's  *)
(* temporaries are gone.                                                     *)
bounce(S, base) ==
    LET pm == Len(S.pool)
        T == exec(Act(S, None), S.cur.fr, None, S.cur.blk.e, S.cur.blk.sink)
        a == T.act
        x == At(T, a.fn)
        lent == a.lend /\ x.k = "code" /\ 1 \in S.prog.codes[x.code].borrowed
        U == CASE a.k = "jump" -> [T EXCEPT !.cur.blk = a.blk]
               [] a.k = "ret" -> LET R == do_ret(pool_drain(retain(T, a.v), pm), a.v, base)
                                 IN  IF R.fault # None THEN R ELSE release(R, a.v)
               [] a.k = "apply" ->
                    LET R == retain(T, a.fn)
                    IN  do_apply(pool_drain(IF lent THEN R ELSE retain(R, a.arg), pm), a.fn, a.arg, base, TRUE, lent)
    IN  IF T.fault # None THEN T ELSE IF U.fault # None THEN U ELSE Act(pool_drain(U, pm), None)

run_loop(S, base) ==
    IF S.fault # None \/ S.cur = NoCur THEN S ELSE run_loop(bounce(S, base), base)

=============================================================================
