------------------------------ MODULE Machine -------------------------------
(***************************************************************************)
(* The reified-K abstract machine (interpreter/src/machine.rs), which runs *)
(* the IR over a heap of reference-counted cells.  A value is an immediate *)
(* or Ref(a); an activation, a resumption and a vector's buffer are cells  *)
(* too.  A strong count is the number of references to a cell from the     *)
(* roots and from the other cells, and a cell nothing refers to is gone.   *)
(* Nested runs (a global's first read, a lazy slot's first look) are a     *)
(* stack of executions: the node at hand waits, and starts over once the   *)
(* value it needs is there.                                                *)
(***************************************************************************)
EXTENDS Ir

VARIABLES
    ir,        \* the lowered program
    cells,     \* the heap: a function from addresses to cells
    next,      \* the address of the next cell; none is used twice
    ex,        \* the running Exec: frame (0 when idle), ctrl, kont, live, for
    outer,     \* the executions that wait for it
    memo,      \* the values of the globals computed so far, by code
    trace,     \* the values handed to the foreign function
    outcome    \* None while running

vars == <<ir, cells, next, ex, outer, memo, trace, outcome>>

Deep == {<<"==">>}

Unk == [k |-> "unk"]
\* What a weak reference to a freed cell gives: the machine panics on it.
Gone == [k |-> "gone"]
Ref(a) == [k |-> "ref", at |-> a]

-----------------------------------------------------------------------------
(* The heap.  m is a pair [c, n]: the cells and the next address. *)
mk(m, cell) == [m |-> [c |-> (m.n :> cell) @@ m.c, n |-> m.n + 1], v |-> Ref(m.n)]

\* A value's content.
At(c, v) == IF v.k = "ref" THEN c[v.at] ELSE v

RefsOf(vs) == LET rs == SelectSeq(vs, LAMBDA v: v.k = "ref") IN [i \in DOMAIN rs |-> rs[i].at]

\* Mutant: a pending let does not own the activation it returns to.
KRefsNoFrame(f) ==
    CASE f.k = "kret" -> IF f.box = 0 THEN << >> ELSE <<f.box>>
      [] f.k = "kprompt" -> RefsOf(Append([i \in DOMAIN f.clauses |-> f.clauses[i].fun], f.els))
      [] f.k = "kafter" -> <<f.res>>
      [] OTHER -> << >>

\* The strong references a continuation frame holds.
KRefs(f) ==
    CASE f.k = "kret" -> (IF f.box = 0 THEN << >> ELSE <<f.box>>) \o <<f.frame>>
      [] f.k = "kprompt" -> RefsOf(Append([i \in DOMAIN f.clauses |-> f.clauses[i].fun], f.els))
      [] f.k = "kdefer" -> RefsOf(<<f.c>>)
      [] f.k = "kthunk" -> RefsOf(<<f.saved>>)
      [] f.k = "kafter" -> <<f.res>>
      [] f.k = "kcleanups" -> RefsOf(f.cs)

SegRefs(seg) == FlattenSeq([i \in DOMAIN seg |-> KRefs(seg[i])])

\* The strong references a cell holds; the one of a rec cell is weak.
CellRefs(x) ==
    CASE x.k \in {"variant", "tuple", "struct", "buf"} -> RefsOf(x.fs)
      [] x.k = "code" -> RefsOf(x.env)
      [] x.k = "builtin" -> RefsOf(x.args)
      [] x.k \in {"resump", "vec"} -> <<x.to>>
      [] x.k = "thunk" -> RefsOf(<<x.f>>)
      [] x.k = "frame" -> RefsOf(x.locals \o x.env)
      [] x.k = "res" -> SegRefs(x.seg)
      [] OTHER -> << >>

\* The values ctrl itself holds: one being returned, or a builtin's operands.
CtrlVals(e) == CASE e.k = "return" -> <<e.v>> [] e.k = "call" -> e.args [] OTHER -> << >>

ExRefs(e) ==
    (IF e.frame = 0 THEN << >> ELSE <<e.frame>>) \o RefsOf(CtrlVals(e.ctrl)) \o SegRefs(e.kont) \o RefsOf(e.live)
    \o (IF e.for.k = "thunk" THEN RefsOf(<<e.for.f>>) ELSE << >>)

Roots(e, out, mem) ==
    ExRefs(e) \o FlattenSeq([i \in DOMAIN out |-> ExRefs(out[i])])
    \o LET codes == SetToSeq(DOMAIN mem) IN RefsOf([i \in DOMAIN codes |-> mem[codes[i]]])

\* How often a occurs among roots and in the cells c.
strong_count(c, roots, a) ==
    LET in(s) == Cardinality({i \in DOMAIN s : s[i] = a})
    IN  FoldFunction(+, in(roots), [x \in DOMAIN c |-> in(CellRefs(c[x]))])

weakly_held(c, a) == \E x \in DOMAIN c : c[x].k = "rec" /\ c[x].to = a

\* Nothing but a reference the step itself holds reaches the cell.
Unshared(c, roots, v) == v.k = "ref" /\ strong_count(c, roots, v.at) = 0 /\ ~weakly_held(c, v.at)

RECURSIVE Freed(_, _)

\* The cells left once those nothing refers to are freed, and theirs in turn.
Freed(c, roots) ==
    LET held == Range(roots) \cup UNION {Range(CellRefs(c[a])) : a \in DOMAIN c}
    IN  IF DOMAIN c \subseteq held THEN c
        ELSE Freed([a \in DOMAIN c \cap held |-> c[a]], roots)

RECURSIVE deref(_, _)

\* Collapse recursive placeholder cells.
deref(c, v) ==
    IF At(c, v).k # "rec" THEN v
    ELSE IF At(c, v).to \in DOMAIN c THEN deref(c, Ref(At(c, v).to)) ELSE Gone

-----------------------------------------------------------------------------
(* Atoms. *)
glob(m, x) ==
    CASE x \in DOMAIN ir.globals -> [m |-> m, v |-> memo[ir.globals[x]]]
      [] x \in DOMAIN Prims -> mk(m, [k |-> "builtin", op |-> x, args |-> << >>])
      [] OTHER -> [m |-> m, v |-> [k |-> "op", op |-> x]]

RECURSIVE eval_atom(_, _, _), eval_atoms(_, _, _)

\* In the activation fr; a move leaves Unk behind.
eval_atom(m, fr, a) ==
    CASE a.k = "local" -> [m |-> m, v |-> m.c[fr].locals[a.s]]
      [] a.k = "move" -> [m |-> [m EXCEPT !.c[fr].locals[a.s] = Unk], v |-> m.c[fr].locals[a.s]]
      [] a.k = "env" -> [m |-> m, v |-> m.c[fr].env[a.j]]
      [] a.k = "moveenv" -> [m |-> [m EXCEPT !.c[fr].env[a.j] = Unk], v |-> m.c[fr].env[a.j]]
      [] a.k = "glob" -> glob(m, a.x)
      [] a.k = "lit" -> [m |-> m, v |-> a.t]
      [] a.k = "clos" ->
           LET r == eval_atoms(m, fr, a.caps)
           IN  mk(r.m, [k |-> "code", code |-> a.code, env |-> r.vs])

eval_atoms(m, fr, as) ==
    IF as = << >> THEN [m |-> m, vs |-> << >>]
    ELSE LET r == eval_atom(m, fr, Head(as))
             q == eval_atoms(r.m, fr, Tail(as))
         IN  [m |-> q.m, vs |-> <<r.v>> \o q.vs]

\* The operands as, read in order, recursive cells collapsed.
eval_deref(m, fr, as) ==
    LET r == eval_atoms(m, fr, as) IN [r EXCEPT !.vs = [i \in DOMAIN @ |-> deref(r.m.c, @[i])]]

-----------------------------------------------------------------------------
(* A saturated builtin spelt as a chain of lets runs as one call. *)
NoChain == [k |-> "none"]

RECURSIVE chain_from(_, _)

\* Extend chain ch over e, the code after its last partial application.
chain_from(ch, e) ==
    LET n == Len(ch.args)
        partial == ch.slots[n]
        next_(a, s) == [ch EXCEPT !.args = Append(@, a), !.slots = Append(@, s)]
    IN  CASE n = Prims[ch.op] -> [ch EXCEPT !.rest = <<[s |-> partial, e |-> e]>>]
          [] n < Prims[ch.op] /\ e.k = "drop" -> chain_from([ch EXCEPT !.drops = @ \cup e.ss], e.e)
          [] n + 1 = Prims[ch.op] /\ e.k = "app" /\ e.f.k = "move" /\ e.f.s = partial -> next_(e.a, partial)
          [] n < Prims[ch.op] /\ e.k = "let" /\ e.rhs.k = "app" /\ e.rhs.f.k = "move" /\ e.rhs.f.s = partial ->
               chain_from(next_(e.rhs.a, e.s), e.e)
          [] OTHER -> NoChain

\* An operand must not name one of the chain's own slots.
prim_chain(e) ==
    IF e.k # "let" \/ e.rhs.k # "app" \/ e.rhs.f.k # "glob" THEN NoChain
    ELSE IF e.rhs.f.x \notin DOMAIN Prims \ Deep THEN NoChain
    ELSE LET ch == chain_from([k |-> "chain", op |-> e.rhs.f.x, args |-> <<e.rhs.a>>, slots |-> <<e.s>>,
                               drops |-> {}, rest |-> << >>], e.e)
         IN  IF ch = NoChain THEN NoChain
             ELSE IF \E i \in DOMAIN ch.args :
                        ch.args[i].k \in {"local", "move"} /\ ch.args[i].s \in Range(ch.slots)
             THEN NoChain ELSE ch

-----------------------------------------------------------------------------
(* What the node at hand waits for. *)
St == [c |-> cells, n |-> next]

\* The atoms that control reads when it runs.
Wants(e) ==
    CASE e.k = "let" -> LET ch == prim_chain(e) IN IF ch = NoChain THEN << >> ELSE ch.args
      [] e.k = "main" -> <<Glob(<<"main">>)>>
      [] e.k \in {"return", "call"} -> << >>
      [] OTHER -> Operands(e)

\* The codes of the globals among the atoms wants that have no value yet, in order.
unread(wants) ==
    LET gs == SelectSeq(wants, LAMBDA a: a.k = "glob")
        cs == [i \in DOMAIN gs |-> IF gs[i].x \in DOMAIN ir.globals THEN ir.globals[gs[i].x] ELSE 0]
    IN  SelectSeq(cs, LAMBDA c: c # 0 /\ c \notin DOMAIN memo)

UnreadGlobals == unread(Wants(ex.ctrl))

RECURSIVE lazy_slots(_, _, _)

\* The lazy slots of the values on the work list vs, in the order force_deep
\* visits them: the last value first.
lazy_slots(c, vs, seen) ==
    IF vs = << >> THEN << >>
    ELSE LET v == deref(c, Last(vs))
             x == At(c, v)
             kids == CASE x.k \in {"tuple", "variant", "struct"} -> x.fs
                       [] x.k = "vec" -> c[x.to].fs
                       [] OTHER -> << >>
         IN  IF v \in seen THEN lazy_slots(c, Front(vs), seen)
             ELSE IF x.k = "thunk" THEN <<v.at>>
             ELSE lazy_slots(c, Front(vs) \o kids, seen \cup {v})

\* The lazy slots to be forced before ctrl can run: a scrutinee, a record, the
\* operands of a builtin that compares whole values, the program's result.
UnforcedSlots ==
    LET e == ex.ctrl
        of(a) == LET v == deref(cells, eval_atom(St, ex.frame, a).v)
                 IN  IF At(cells, v).k = "thunk" THEN <<v.at>> ELSE << >>
    IN  CASE e.k \in {"case", "field"} -> of(e.a)
          [] e.k = "struct" -> IF e.base = None THEN << >> ELSE of(e.base)
          [] e.k = "call" -> IF e.op \in Deep THEN lazy_slots(cells, e.args, {}) ELSE << >>
          [] e.k = "main" -> lazy_slots(cells, <<memo[ir.globals[<<"main">>]]>>, {})
          [] OTHER -> << >>

Runs(k) == outcome = None /\ ex.ctrl.k = k /\ UnreadGlobals = << >>

Ready(k) == Runs(k) /\ UnforcedSlots = << >>

-----------------------------------------------------------------------------
(* Steps end here: the execution becomes e2 and what it let go of is freed. *)
Become(m, e2, out, mem) ==
    /\ ex' = e2
    /\ outer' = out
    /\ memo' = mem
    /\ cells' = Freed(m.c, Roots(e2, out, mem))
    /\ next' = m.n
    /\ UNCHANGED ir

Settle(m, e2) == Become(m, e2, outer, memo) /\ UNCHANGED <<trace, outcome>>

Faults(w) == outcome' = Fault(w) /\ UNCHANGED <<ir, cells, next, ex, outer, memo, trace>>

\* A fresh activation of a code: args, then empty slots.
Activation(m, code, args, env) ==
    mk(m, [k |-> "frame", env |-> env,
           locals |-> [i \in 1..ir.codes[code].nlocals |-> IF i <= Len(args) THEN args[i] ELSE Unk]])

\* The execution e entering the closure clo on args.
enter(m, e, clo, args) ==
    LET x == At(m.c, deref(m.c, clo))
        f == Activation(m, x.code, args, x.env)
    IN  [m |-> f.m, e |-> [e EXCEPT !.frame = f.v.at, !.ctrl = ir.codes[x.code].e]]

\* A finished value leaves the activation behind.
Ret(e, v) == [e EXCEPT !.frame = 0, !.ctrl = [k |-> "return", v |-> v]]

\* A nested run of code, for whoever waits in ex.
StartRun(m, code, args, env, for) ==
    LET f == Activation(m, code, args, env)
    IN  Become(f.m,
               [frame |-> f.v.at, ctrl |-> ir.codes[code].e, kont |-> << >>, live |-> << >>, for |-> for],
               Append(outer, ex), memo)

InProgress == {e.for.code : e \in {x \in Range(Append(outer, ex)) : x.for.k = "global"}}

\* The first global the node reads that has no value: compute it.
ForceGlobal ==
    /\ outcome = None /\ UnreadGlobals # << >>
    /\ LET code == Head(UnreadGlobals)
       IN  IF code \in InProgress THEN Faults("a value global refers to itself while being defined")
           ELSE /\ StartRun(St, code, << >>, << >>, [k |-> "global", code |-> code])
                /\ UNCHANGED <<trace, outcome>>

\* The lazy slot's closure runs on unit.  When the slot is its only owner the
\* run takes it over, and the slot is empty meanwhile.
ForceThunk ==
    /\ outcome = None /\ UnreadGlobals = << >> /\ UnforcedSlots # << >>
    /\ LET a == Head(UnforcedSlots)
           f == cells[a].f
           sole == /\ At(cells, f).k = "code" /\ f.k = "ref"
                   /\ strong_count(cells, Roots(ex, outer, memo), f.at) = 1
                   /\ ~weakly_held(cells, f.at)
           x == At(cells, deref(cells, f))
           m == IF sole THEN [St EXCEPT !.c[a] = Unk] ELSE St
       IN  IF x.k # "code" THEN Faults("machine: applying a non-function value")
           ELSE /\ StartRun(m, x.code, <<Unit>>, x.env,
                            [k |-> "thunk", cell |-> a, f |-> IF sole THEN Unit ELSE f])
                /\ UNCHANGED <<trace, outcome>>

\* The run is over: its activation, continuation and keep-alive list go, and
\* the value becomes the global's, or replaces the lazy slot.
RetRun ==
    /\ Runs("return") /\ ex.kont = << >>
    /\ LET back == Last(outer)
           out == Front(outer)
           v == ex.ctrl.v
           c == Freed(cells, Roots(back, out, memo) \o RefsOf(<<v>>))
           forced == deref(c, v)
       IN  \/ /\ ex.for.k = "global"
              /\ Become(St, back, out, (ex.for.code :> v) @@ memo)
           \/ /\ ex.for.k = "thunk"
              /\ Become([St EXCEPT !.c = [c EXCEPT ![ex.for.cell] = At(c, forced)]], back, out, memo)
    /\ UNCHANGED <<trace, outcome>>

-----------------------------------------------------------------------------
(* One action per IR node. *)
RetStep ==
    /\ Ready("ret")
    /\ LET r == eval_deref(St, ex.frame, <<ex.ctrl.a>>) IN Settle(r.m, Ret(ex, r.vs[1]))

\* A saturated builtin: read every operand, apply the drops, call.
ChainStep ==
    /\ Ready("let") /\ prim_chain(ex.ctrl) # NoChain
    /\ LET ch == prim_chain(ex.ctrl)
           r == eval_deref(St, ex.frame, ch.args)
           m == [r.m EXCEPT !.c[ex.frame].locals =
                    [s \in DOMAIN @ |-> IF s \in ch.drops THEN Unk ELSE @[s]]]
       IN  Settle(m, [ex EXCEPT !.ctrl = [k |-> "call", op |-> ch.op, args |-> r.vs, rest |-> ch.rest]])

\* Mutant: the slot reaches the box strongly.
LetStepStrong ==
    /\ Ready("let") /\ prim_chain(ex.ctrl) = NoChain
    /\ LET e == ex.ctrl
           rec == imentions(e.rhs, e.s)
           box == mk(St, Unk)
           m == IF rec THEN [box.m EXCEPT !.c[ex.frame].locals[e.s] = box.v] ELSE St
           k == [k |-> "kret", box |-> IF rec THEN box.v.at ELSE 0, slot |-> e.s, cont |-> e.e, frame |-> ex.frame]
       IN  Settle(m, [ex EXCEPT !.kont = Append(@, k), !.ctrl = e.rhs])

\* A recursive let gets a box, which its slot reaches weakly while the
\* right-hand side runs.
LetStep ==
    /\ Ready("let") /\ prim_chain(ex.ctrl) = NoChain
    /\ LET e == ex.ctrl
           rec == imentions(e.rhs, e.s)
           box == mk(St, Unk)
           cell == mk(box.m, [k |-> "rec", to |-> box.v.at])
           m == IF rec THEN [cell.m EXCEPT !.c[ex.frame].locals[e.s] = cell.v] ELSE St
           k == [k |-> "kret", box |-> IF rec THEN box.v.at ELSE 0, slot |-> e.s, cont |-> e.e, frame |-> ex.frame]
       IN  Settle(m, [ex EXCEPT !.kont = Append(@, k), !.ctrl = e.rhs])

Matches(head, x) ==
    \/ head.k = "plit" /\ x = head.t
    \/ head.k = "pvariant" /\ x.k = "variant" /\ x.tag = head.tag

\* An activation's slots with fields bound as alternative alt says.
Bound(locals, alt, fields) ==
    [s \in DOMAIN locals |->
        IF s \in alt.base..(alt.base + Len(fields) - 1) /\ alt.bind[s - alt.base + 1]
        THEN fields[s - alt.base + 1] ELSE locals[s]]

\* Bind a payload.  A consumed scrutinee that nothing else holds gives its
\* fields up and stays, emptied, as the reuse token.
unpack(m, fr, v, alt) ==
    LET held == m.c[fr].locals[alt.eats]
        c == [m.c EXCEPT ![fr].locals[alt.eats] = Unk]
        fields == At(m.c, v).fs
        token(x, locals) == IF alt.token = 0 THEN locals ELSE [locals EXCEPT ![alt.token] = x]
    IN  IF alt.eats = 0 THEN [m EXCEPT !.c[fr].locals = Bound(@, alt, fields)]
        ELSE IF held = v /\ Unshared(c, Roots(ex, outer, memo), held)
        THEN [m EXCEPT !.c = [c EXCEPT ![held.at].fs = << >>,
                                       ![fr].locals = token(held, Bound(@, alt, fields))]]
        ELSE [m EXCEPT !.c = [c EXCEPT ![fr].locals = token(Unk, Bound(@, alt, fields))]]

CaseStep ==
    /\ Ready("case")
    /\ LET r == eval_deref(St, ex.frame, <<ex.ctrl.a>>)
           v == r.vs[1]
           hits == SelectSeq(ex.ctrl.alts, LAMBDA alt: Matches(alt.head, At(r.m.c, v)))
       IN  IF hits = << >> THEN Settle(r.m, [ex EXCEPT !.ctrl = ex.ctrl.d])
           ELSE LET alt == Head(hits)
                IN  Settle(IF alt.head.k = "pvariant" THEN unpack(r.m, ex.frame, v, alt) ELSE r.m,
                           [ex EXCEPT !.ctrl = alt.e])

RECURSIVE updated(_, _, _)

\* A record's fields with the labels ls set to vs in turn.
updated(x, ls, vs) ==
    IF ls = << >> THEN x
    ELSE LET at == {i \in DOMAIN x.ls : x.ls[i] = Head(ls)}
         IN  updated(IF at = {} THEN [x EXCEPT !.ls = Append(@, Head(ls)), !.fs = Append(@, Head(vs))]
                     ELSE [x EXCEPT !.fs[CHOOSE i \in at : TRUE] = Head(vs)],
                     Tail(ls), Tail(vs))

StructStep ==
    /\ Ready("struct")
    /\ LET e == ex.ctrl
           r == eval_deref(St, ex.frame, Operands(e))
           b == IF e.base = None THEN [k |-> "struct", ls |-> << >>, fs |-> << >>] ELSE At(r.m.c, r.vs[1])
           n == mk(r.m, updated(b, e.ls, IF e.base = None THEN r.vs ELSE Tail(r.vs)))
       IN  IF b.k # "struct" THEN Faults("record update of a non-struct value") ELSE Settle(n.m, Ret(ex, n.v))

FieldStep ==
    /\ Ready("field")
    /\ LET r == eval_deref(St, ex.frame, <<ex.ctrl.a>>)
           x == At(r.m.c, r.vs[1])
           at == IF x.k = "tuple" THEN {i \in DOMAIN x.fs : i - 1 = ex.ctrl.l}
                 ELSE IF x.k = "struct" THEN {i \in DOMAIN x.fs : x.ls[i] = ex.ctrl.l} ELSE {}
       IN  IF at = {} THEN Faults("no field") ELSE Settle(r.m, Ret(ex, x.fs[CHOOSE i \in at : TRUE]))

\* The token is taken out of its slot; its cell is reused if nothing else holds it.
VariantStep ==
    /\ Ready("variant")
    /\ LET e == ex.ctrl
           held == IF e.reuse = 0 THEN Unk ELSE cells[ex.frame].locals[e.reuse]
           m == IF e.reuse = 0 THEN St ELSE [St EXCEPT !.c[ex.frame].locals[e.reuse] = Unk]
           reuse == /\ Unshared(m.c, Roots(ex, outer, memo), held)
                    /\ At(m.c, held).k = "variant"
           r == eval_deref(m, ex.frame, e.as)
           x == [k |-> "variant", tag |-> e.tag, fs |-> r.vs]
           n == mk(r.m, x)
       IN  IF reuse THEN Settle([r.m EXCEPT !.c[held.at] = x], Ret(ex, held)) ELSE Settle(n.m, Ret(ex, n.v))

TupleStep ==
    /\ Ready("tuple")
    /\ LET r == eval_deref(St, ex.frame, ex.ctrl.as)
           n == mk(r.m, [k |-> "tuple", fs |-> r.vs])
       IN  Settle(n.m, Ret(ex, n.v))

HandleStep ==
    /\ Ready("handle")
    /\ LET e == ex.ctrl
           r == eval_deref(St, ex.frame, Operands(e))
           k == [k |-> "kprompt", els |-> Last(r.vs),
                 clauses |-> [i \in DOMAIN e.clauses |-> [e.clauses[i] EXCEPT !.fun = r.vs[i]]]]
       IN  Settle(r.m, [ex EXCEPT !.kont = Append(@, k), !.ctrl = e.e])

DeferStep ==
    /\ Ready("defer")
    /\ LET r == eval_deref(St, ex.frame, <<ex.ctrl.a>>)
       IN  Settle(r.m, [ex EXCEPT !.kont = Append(@, [k |-> "kdefer", c |-> r.vs[1]]), !.ctrl = ex.ctrl.e])

DropStep ==
    /\ Ready("drop")
    /\ Settle([St EXCEPT !.c[ex.frame].locals = [s \in DOMAIN @ |-> IF s \in ex.ctrl.ss THEN Unk ELSE @[s]]],
              [ex EXCEPT !.ctrl = ex.ctrl.e])

FaultStep == Ready("fault") /\ Faults(ex.ctrl.w)

-----------------------------------------------------------------------------
(* Applications, by what the callee is. *)
Applied ==
    LET r == eval_deref(St, ex.frame, <<ex.ctrl.f, ex.ctrl.a>>)
    IN  [m |-> r.m, f |-> r.vs[1], a |-> r.vs[2], x |-> At(r.m.c, r.vs[1]),
         sole |-> Unshared(r.m.c, Roots(ex, outer, memo) \o RefsOf(<<r.vs[2]>>), r.vs[1])]

\* The keep-alive list with the target of a weak cell added, unless it is last.
Pinned(c, live, v) ==
    IF At(c, v).k = "rec" /\ At(c, v).to \in DOMAIN c /\ (live = << >> \/ Last(live) # Ref(At(c, v).to))
    THEN Append(live, Ref(At(c, v).to)) ELSE live

\* The recursive closures among the captures are pinned, and the activation is
\* replaced: a tail call keeps no frame.
AppCode ==
    /\ Ready("app")
    /\ \E p \in {Applied} :
          /\ p.x.k = "code"
          /\ LET n == enter(p.m, ex, p.f, <<p.a>>)
             IN  Settle(n.m, [n.e EXCEPT !.live = FoldLeft(LAMBDA l, v: Pinned(p.m.c, l, v), @, p.x.env)])

AppBuiltin ==
    /\ Ready("app")
    /\ \E p \in {Applied} :
          /\ p.x.k = "builtin"
          /\ LET args == Append(p.x.args, p.a)
                 n == mk(p.m, [p.x EXCEPT !.args = args])
             IN  IF Len(args) >= Prims[p.x.op]
                 THEN Settle(p.m, [ex EXCEPT !.ctrl = [k |-> "call", op |-> p.x.op, args |-> args, rest |-> << >>]])
                 ELSE Settle(n.m, Ret(ex, n.v))

RECURSIVE Data(_, _), value_eq(_, _)

\* A value as the outside sees it.
Data(c, v) ==
    LET x == At(c, deref(c, v))
        each(vs) == [i \in DOMAIN vs |-> Data(c, vs[i])]
    IN  CASE x.k \in {"variant", "tuple", "struct"} -> [x EXCEPT !.fs = each(@)]
          [] x.k = "vec" -> [k |-> "vec", fs |-> each(c[x.to].fs)]
          [] x.k \in {"code", "builtin", "op", "extern", "resump"} -> [k |-> "fun"]
          [] OTHER -> x

AppExtern ==
    /\ Ready("app")
    /\ \E p \in {Applied} :
          /\ p.x.k = "extern"
          /\ Become(p.m, Ret(ex, Unit), outer, memo)
          /\ trace' = Append(trace, Data(cells, p.a))
    /\ UNCHANGED outcome

\* The defer cleanups a slice holds, outermost first.
segment_cleanups(seg) ==
    LET ds == SelectSeq(seg, LAMBDA f: f.k = "kdefer") IN [i \in DOMAIN ds |-> ds[i].c]

\* The innermost prompt with a clause for op takes the continuation down to and
\* including itself; its clause runs below it.  A clause that never resumes only
\* keeps the cleanups.
Perform ==
    /\ Ready("app")
    /\ \E p \in {Applied} :
          /\ p.x.k = "op"
          /\ LET handles(f) == f.k = "kprompt" /\ \E i \in DOMAIN f.clauses : f.clauses[i].op = p.x.op
                 at == {i \in DOMAIN ex.kont : handles(ex.kont[i])}
                 i == CHOOSE j \in at : \A l \in at : l <= j
                 cl == Head(SelectSeq(ex.kont[i].clauses, LAMBDA q: q.op = p.x.op))
                 seg == SubSeq(ex.kont, i, Len(ex.kont))
                 below == SubSeq(ex.kont, 1, i - 1)
                 cs == segment_cleanups(seg)
                 res == mk(p.m, [k |-> "res", seg |-> seg, used |-> FALSE])
                 cell == mk(res.m, [k |-> "resump", to |-> res.v.at])
                 n == IF cl.never THEN enter(p.m, ex, cl.fun, <<p.a, Unit>>)
                      ELSE enter(cell.m, ex, cl.fun, <<p.a, cell.v>>)
                 mark == IF ~cl.never THEN <<[k |-> "kafter", res |-> res.v.at]>>
                         ELSE IF cs = << >> THEN << >> ELSE <<[k |-> "kcleanups", cs |-> cs]>>
             IN  IF at = {} THEN Faults("unhandled effect operation")
                 ELSE Settle(n.m, [n.e EXCEPT !.kont = below \o mark])

\* A private copy of one frame of a slice; acc.seen maps the activations copied
\* so far.  A let's box is copied, and its slot's weak cell follows the copy.
copy_frame(acc, f) ==
    LET old == acc.m.c[f.frame]
        fr == IF f.frame \in DOMAIN acc.seen THEN [m |-> acc.m, v |-> Ref(acc.seen[f.frame])] ELSE mk(acc.m, old)
        box == IF f.box = 0 THEN [m |-> fr.m, v |-> Ref(0)] ELSE mk(fr.m, fr.m.c[f.box])
        slot == At(fr.m.c, fr.m.c[fr.v.at].locals[f.slot])
        cell == mk(box.m, [k |-> "rec", to |-> box.v.at])
        m == IF f.box # 0 /\ slot.k = "rec" /\ slot.to = f.box
             THEN [cell.m EXCEPT !.c[fr.v.at].locals[f.slot] = cell.v] ELSE box.m
    IN  IF f.k # "kret" THEN [acc EXCEPT !.out = Append(@, f)]
        ELSE [m |-> m, seen |-> (f.frame :> fr.v.at) @@ acc.seen,
              out |-> Append(acc.out, [f EXCEPT !.frame = fr.v.at, !.box = box.v.at])]

copy_segment(m, seg) == FoldLeft(copy_frame, [m |-> m, seen |-> << >>, out |-> << >>], seg)

\* The resumptions that refer to res, its clause boundaries aside.
Owners(c, res) == {a \in DOMAIN c : c[a].k = "resump" /\ c[a].to = res}

\* The captured slice goes back on.  A resumption this call alone owns hands its
\* slice over; another stays resumable and a copy is spliced.
Resume ==
    /\ Ready("app")
    /\ \E p \in {Applied} :
          /\ p.x.k = "resump"
          /\ LET res == p.x.to
                 unique == p.sole /\ Cardinality(Owners(p.m.c, res)) = 1
                 seg == p.m.c[res].seg
                 used == [p.m EXCEPT !.c[res].used = TRUE]
                 copy == copy_segment(used, seg)
             IN  IF unique THEN Settle([used EXCEPT !.c[res].seg = << >>], Ret([ex EXCEPT !.kont = @ \o seg], p.a))
                 ELSE Settle(copy.m, Ret([ex EXCEPT !.kont = @ \o copy.out], p.a))

AppOther ==
    /\ Ready("app") /\ Applied.x.k \notin {"code", "builtin", "extern", "op", "resump"}
    /\ Faults("applied a non-function value")

\* A builtin's result: the heap with it and the value.
Pure(m, v) == [m |-> m, v |-> v]

\* A byte range, clamped.
slice(s, lo, hi) ==
    LET b == IF lo < Len(s) THEN lo ELSE Len(s)
        e == IF hi < b THEN b ELSE IF hi < Len(s) THEN hi ELSE Len(s)
    IN  SubSeq(s, b + 1, e)

\* The vector v with contents fs: the buffer is updated in place when the operand
\* list is the cell's only owner and the cell the buffer's.
with_contents(m, v, fs) ==
    LET roots == Roots(ex, outer, memo)
        buf == At(m.c, v).to
        alone == /\ strong_count(m.c, roots, v.at) = 1 /\ ~weakly_held(m.c, v.at)
                 /\ strong_count(m.c, roots, buf) = 1
        n == mk(m, [k |-> "buf", fs |-> fs])
    IN  IF alone THEN mk([m EXCEPT !.c[buf].fs = fs], [k |-> "vec", to |-> buf])
        ELSE mk(n.m, [k |-> "vec", to |-> n.v.at])

\* Of the arithmetic and the comparisons, those of small naturals: subtraction
\* stays within them here.
arith_intrinsic(op, x, y) == Num(IF op = <<"@iadd">> THEN x.i + y.i ELSE x.i - y.i)
compare_intrinsic(op, x, y) == Bool(x.i < y.i)
compare(op, x, y) == Bool(IF op = <<"<=">> THEN x.i <= y.i ELSE x.i >= y.i)

\* Structural equality.  Records agree label by label; functions never do.
value_eq(x, y) ==
    CASE x.k # y.k \/ x.k = "fun" -> FALSE
      [] x.k \in {"tuple", "vec"} ->
           Len(x.fs) = Len(y.fs) /\ \A i \in DOMAIN x.fs : value_eq(x.fs[i], y.fs[i])
      [] x.k = "variant" ->
           /\ x.tag = y.tag /\ Len(x.fs) = Len(y.fs)
           /\ \A i \in DOMAIN x.fs : value_eq(x.fs[i], y.fs[i])
      [] x.k = "struct" ->
           /\ Len(x.ls) = Len(y.ls)
           /\ \A i \in DOMAIN x.ls :
                 \E j \in DOMAIN y.ls : y.ls[j] = x.ls[i] /\ value_eq(x.fs[i], y.fs[j])
      [] OTHER -> x = y

concat(x, y) == Str(x.s \o y.s)

\* A cell of its own for the element y, which shares y's parts.
clone_shallow(m, y) == IF y.k = "ref" THEN mk(m, At(m.c, y)) ELSE Pure(m, y)

vec_get(m, fs, i) ==
    IF i >= Len(fs) THEN Pure(m, Fault("vec index out of bounds")) ELSE clone_shallow(m, fs[i + 1])

\* A tensor's index is modular.
tensor_index(m, fs, i) ==
    IF fs = << >> THEN Pure(m, Fault("index into an empty tensor"))
    ELSE clone_shallow(m, fs[(i % Len(fs)) + 1])

\* A new buffer with the half-open range of another.
vec_slice(m, fs, lo, hi) ==
    LET n == mk(m, [k |-> "buf", fs |-> slice(fs, lo, hi)]) IN mk(n.m, [k |-> "vec", to |-> n.v.at])

run_builtin(m, op, args) ==
    LET x == [i \in DOMAIN args |-> At(m.c, args[i])]
    IN  CASE op \in {<<"@iadd">>, <<"@isub">>} -> Pure(m, arith_intrinsic(op, x[1], x[2]))
          [] op = <<"@ilt">> -> Pure(m, compare_intrinsic(op, x[1], x[2]))
          [] op = <<"not">> -> Pure(m, Bool(~x[1].b))
          [] op \in {<<"<=">>, <<">=">>} -> Pure(m, compare(op, x[1], x[2]))
          [] op = <<"==">> -> Pure(m, Bool(value_eq(Data(m.c, args[1]), Data(m.c, args[2]))))
          [] op = <<"@array_len">> -> Pure(m, Num(Len(x[1].s)))
          [] op = <<"@array_slice">> -> Pure(m, Str(slice(x[1].s, x[2].i, x[3].i)))
          [] op = <<"record_without">> ->
               LET keep == SelectSeq([i \in DOMAIN x[1].ls |-> i], LAMBDA i: x[1].ls[i] # x[2].s[1])
               IN  mk(m, [k |-> "struct", ls |-> [i \in DOMAIN keep |-> x[1].ls[keep[i]]],
                          fs |-> [i \in DOMAIN keep |-> x[1].fs[keep[i]]]])
          [] op = <<"@delay">> -> mk(m, [k |-> "thunk", f |-> args[1]])
          [] op = <<"@vec_new">> ->
               LET n == mk(m, [k |-> "buf", fs |-> << >>]) IN mk(n.m, [k |-> "vec", to |-> n.v.at])
          [] op = <<"@vec_push">> -> with_contents(m, args[1], Append(m.c[x[1].to].fs, args[2]))
          [] op = <<"@vec_set">> ->
               IF x[2].i >= Len(m.c[x[1].to].fs) THEN Pure(m, Fault("vec index out of bounds"))
               ELSE with_contents(m, args[1], [m.c[x[1].to].fs EXCEPT ![x[2].i + 1] = args[3]])
          [] op = <<"@array_get">> ->
               Pure(m, IF x[2].i >= Len(x[1].s) THEN Fault("array index out of bounds") ELSE Num(x[1].s[x[2].i + 1]))
          [] op = <<"@acat">> -> Pure(m, concat(x[1], x[2]))
          [] op = <<"@vec_len">> -> Pure(m, Num(Len(m.c[x[1].to].fs)))
          \* a tensor here is a vector: of one axis, and never updated
          [] op \in {<<"@vec_slice">>, <<"@tensor_slice">>} ->
               vec_slice(m, m.c[x[1].to].fs, x[2].i, x[3].i)
          [] op = <<"@vec_get">> -> vec_get(m, m.c[x[1].to].fs, x[2].i)
          [] op = <<"@tensor_index">> -> tensor_index(m, m.c[x[1].to].fs, x[2].i)

\* The operands are there: bind the result and go on, or return it.
CallStep ==
    /\ Ready("call")
    /\ \E r \in {run_builtin(St, ex.ctrl.op, ex.ctrl.args)} :
          LET to == ex.ctrl.rest
          IN  IF r.v.k = "fault" THEN Faults(r.v.w)
              ELSE IF to = << >> THEN Settle(r.m, Ret(ex, r.v))
              ELSE Settle([r.m EXCEPT !.c[ex.frame].locals[to[1].s] = r.v], [ex EXCEPT !.ctrl = to[1].e])

-----------------------------------------------------------------------------
(* A value returns to the top continuation frame. *)
Returns(k) == Runs("return") /\ ex.kont # << >> /\ Last(ex.kont).k = k

Popped == [ex EXCEPT !.kont = Front(@)]

RetLet ==
    /\ Returns("kret") /\ Last(ex.kont).box = 0
    /\ LET k == Last(ex.kont)
       IN  Settle([St EXCEPT !.c[k.frame].locals[k.slot] = ex.ctrl.v],
                  [Popped EXCEPT !.frame = k.frame, !.ctrl = k.cont])

\* Mutant: the box is never pinned.
RetRecUnpinned ==
    /\ Returns("kret") /\ Last(ex.kont).box # 0
    /\ LET k == Last(ex.kont)
       IN  Settle([St EXCEPT !.c[k.box] = At(cells, ex.ctrl.v), !.c[k.frame].locals[k.slot] = Ref(k.box)],
                  [Popped EXCEPT !.frame = k.frame, !.ctrl = k.cont])

\* The box takes a copy of the value, and is pinned when something the
\* right-hand side built holds the slot's weak cell.
RetRec ==
    /\ Returns("kret") /\ Last(ex.kont).box # 0
    /\ LET k == Last(ex.kont)
           slot == cells[k.frame].locals[k.slot]
           captured == /\ At(cells, slot) = [k |-> "rec", to |-> k.box]
                       /\ strong_count(cells, Roots(ex, outer, memo), slot.at) > 1
           m == [St EXCEPT !.c[k.box] = At(cells, ex.ctrl.v), !.c[k.frame].locals[k.slot] = Ref(k.box)]
       IN  Settle(m, [Popped EXCEPT !.frame = k.frame, !.ctrl = k.cont,
                          !.live = IF captured /\ (@ = << >> \/ Last(@) # Ref(k.box))
                                   THEN Append(@, Ref(k.box)) ELSE @])

RetPrompt ==
    /\ Returns("kprompt")
    /\ LET n == enter(St, Popped, Last(ex.kont).els, <<ex.ctrl.v>>) IN Settle(n.m, n.e)

RetDefer ==
    /\ Returns("kdefer")
    /\ LET e == [Popped EXCEPT !.kont = Append(@, [k |-> "kthunk", saved |-> ex.ctrl.v])]
           n == enter(St, e, Last(ex.kont).c, << >>)
       IN  Settle(n.m, n.e)

RetThunk ==
    /\ Returns("kthunk")
    /\ Settle(St, [Popped EXCEPT !.ctrl.v = Last(ex.kont).saved])

\* The execution e with the cleanups cs queued, the last one to run first, and v
\* to be delivered after them.
run_cleanups(e, cs, v) ==
    [e EXCEPT !.kont = @ \o <<[k |-> "kthunk", saved |-> v]>>
                         \o [i \in DOMAIN cs |-> [k |-> "kdefer", c |-> cs[i]]],
              !.ctrl.v = Unk]

\* A clause is over.  A continuation it discarded runs its cleanups here.
RetAfter ==
    /\ Returns("kafter")
    /\ LET res == Last(ex.kont).res
       IN  IF cells[res].used \/ Owners(cells, res) # {} THEN Settle(St, Popped)
           ELSE Settle(St, run_cleanups(Popped, segment_cleanups(cells[res].seg), ex.ctrl.v))

RetCleanups ==
    /\ Returns("kcleanups")
    /\ Settle(St, run_cleanups(Popped, Last(ex.kont).cs, ex.ctrl.v))

\* The program's value, every lazy slot in it forced.
Finish ==
    /\ Ready("main")
    /\ outcome' = [k |-> "value", v |-> Data(cells, memo[ir.globals[<<"main">>]])]
    /\ UNCHANGED <<ir, cells, next, ex, outer, memo, trace>>

MachineInit ==
    /\ cells = << >> /\ next = 1
    /\ ex = [frame |-> 0, ctrl |-> [k |-> "main"], kont |-> << >>, live |-> << >>, for |-> [k |-> "eval"]]
    /\ outer = << >> /\ memo = << >> /\ trace = << >> /\ outcome = None

MachineNext ==
    \/ ForceGlobal \/ ForceThunk \/ RetRun
    \/ RetStep \/ ChainStep \/ LetStep \/ CaseStep \/ StructStep \/ FieldStep \/ VariantStep \/ TupleStep
    \/ HandleStep \/ DeferStep \/ DropStep \/ FaultStep
    \/ AppCode \/ AppBuiltin \/ AppExtern \/ Perform \/ Resume \/ AppOther \/ CallStep
    \/ RetLet \/ RetRec \/ RetPrompt \/ RetDefer \/ RetThunk \/ RetAfter \/ RetCleanups
    \/ Finish
=============================================================================
