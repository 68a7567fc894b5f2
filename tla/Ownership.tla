----------------------------- MODULE Ownership ------------------------------
(***************************************************************************)
(* Borrow inference (ir/borrow.rs) and the ownership pass                  *)
(* (ir/ownership.rs): which parameters a code only reads, where each       *)
(* slot's reference ends, and which constructor takes over the cell of a   *)
(* scrutinee that dies.  Every builtin but those in Keeps only reads its   *)
(* operands; those store them or update them in place, so they own them.   *)
(***************************************************************************)
EXTENDS Lowering

Keeps == {<<"@delay">>, <<"@vec_push">>, <<"@vec_set">>}

CalleeCode(d) == [k |-> "code", d |-> d]
CalleePrim(x, n) == [k |-> "prim", x |-> x, n |-> n]

\* The code whose closure code c returns outright, or None.
returns(ir, c) ==
    IF ir.codes[c].e.k = "ret" /\ ir.codes[c].e.a.k = "clos" THEN CalleeCode(ir.codes[c].e.a.code) ELSE None

\* What applying f calls, given what the slots are known to hold.
callee(ir, prims, f, known) ==
    CASE f.k = "glob" /\ f.x \in DOMAIN ir.globals -> returns(ir, ir.globals[f.x])
      [] f.k = "glob" /\ f.x \in DOMAIN prims -> CalleePrim(f.x, 0)
      [] f.k = "local" /\ f.s \in DOMAIN known -> known[f.s]
      [] f.k = "clos" -> CalleeCode(f.code)
      [] OTHER -> None

\* What a let binds, as a callee.
binds(ir, prims, rhs, known) ==
    IF rhs.k = "ret" THEN callee(ir, prims, rhs.a, known)
    ELSE IF rhs.k # "app" THEN None
    ELSE LET c == callee(ir, prims, rhs.f, known)
         IN  CASE c.k = "code" -> returns(ir, c.d)
               [] c.k = "prim" /\ c.n + 1 < prims[c.x] -> CalleePrim(c.x, c.n + 1)
               [] OTHER -> None

RECURSIVE read(_, _, _, _), walk(_, _, _, _, _, _)

\* A closure's captures are stores.
read(a, how, c, handled) ==
    IF a.k = "clos" THEN UNION {read(a.caps[i], "own", None, handled) : i \in DOMAIN a.caps}
    ELSE {[a |-> a, how |-> how, callee |-> c, handled |-> handled]}

bind_known(known, s, c) == [x \in DOMAIN known \cup {s} |-> IF x = s THEN c ELSE known[x]]

forget(known, ss) == [x \in DOMAIN known \ ss |-> known[x]]

alt_slots(alt) == {alt.base + i - 1 : i \in DOMAIN alt.bind}

\* Every read of e: how, of what callee's parameter, and whether in a handler body.
walk(ir, prims, e, tail, handled, known) ==
    LET own(as) == UNION {read(as[i], "own", None, handled) : i \in DOMAIN as}
    IN  CASE e.k = "ret" -> own(<<e.a>>)
          [] e.k = "app" ->
               own(<<e.f>>) \cup read(e.a, "arg", callee(ir, prims, e.f, known), handled)
          [] e.k = "let" ->
               walk(ir, prims, e.rhs, FALSE, handled, known)
               \cup walk(ir, prims, e.e, tail, handled,
                         bind_known(known, e.s, binds(ir, prims, e.rhs, known)))
          [] e.k = "case" ->
               read(e.a, "borrow", None, handled)
               \cup UNION {walk(ir, prims, e.alts[i].e, tail, handled, forget(known, alt_slots(e.alts[i])))
                              : i \in DOMAIN e.alts}
               \cup walk(ir, prims, e.d, tail, handled, known)
          [] e.k = "struct" ->
               own(e.as) \cup (IF e.base = None THEN {} ELSE read(e.base, "borrow", None, handled))
          [] e.k = "field" -> read(e.a, "borrow", None, handled)
          [] e.k \in {"variant", "tuple"} -> own(e.as)
          [] e.k = "handle" -> own(Operands(e)) \cup walk(ir, prims, e.e, TRUE, TRUE, known)
          [] e.k = "defer" -> own(<<e.a>>) \cup walk(ir, prims, e.e, TRUE, handled, known)
          [] OTHER -> {}

RECURSIVE parts_of_params(_, _, _), parts_of_all(_, _, _)

parts_of_all(es, n, parts) ==
    IF es = << >> THEN parts ELSE parts_of_all(Tail(es), n, parts_of_params(Head(es), n, parts))

\* The parameters whose part each slot may hold: a binder or a field out of one.
parts_of_params(e, n, parts) ==
    LET sources(a, ps) == IF a.k # "local" THEN {} ELSE IF a.s <= n THEN {a.s} ELSE ps[a.s]
    IN  CASE e.k = "let" ->
               LET p == parts_of_params(e.rhs, n, parts)
                   q == IF e.rhs.k = "field" THEN [p EXCEPT ![e.s] = @ \cup sources(e.rhs.a, p)] ELSE p
               IN  parts_of_params(e.e, n, q)
          [] e.k = "case" ->
               LET all == UNION {alt_slots(e.alts[i]) : i \in DOMAIN e.alts}
                   p == [s \in DOMAIN parts |-> parts[s] \cup (IF s \in all THEN sources(e.a, parts) ELSE {})]
               IN  parts_of_all(IKids(e), n, p)
          [] OTHER -> parts_of_all(IKids(e), n, parts)

\* What code c needs of its parameters: 0 to own it, d for it to be borrowed by d.
facts(ir, prims, c) ==
    LET code == ir.codes[c]
        parts == parts_of_params(code.e, code.nparams, [s \in 1..code.nlocals |-> {}])
        params(s) == IF s <= code.nparams THEN {s} ELSE parts[s]
        need(r) == CASE r.handled -> {0}
                     [] r.how = "borrow" -> {}
                     [] r.how = "own" -> {0}
                     [] r.callee.k = "code" -> {r.callee.d}
                     [] r.callee.k = "prim" -> IF r.callee.x \in Keeps THEN {0} ELSE {}
                     [] OTHER -> {0}
    IN  UNION {params(r.a.s) \X need(r) :
                  r \in {w \in walk(ir, prims, code.e, TRUE, FALSE, << >>) : w.a.k = "local"}}

RECURSIVE demote(_, _)

\* The greatest fixpoint: a parameter is borrowed while every use of it is.
demote(b, fs) ==
    LET b2 == [c \in DOMAIN b |->
                  {p \in b[c] : \A f \in fs[c] : f[1] = p => f[2] # 0 /\ 1 \in b[f[2]]}]
    IN  IF b2 = b THEN b ELSE demote(b2, fs)

RECURSIVE lend(_, _, _, _, _, _, _)

\* Mark the calls that lend: the argument outlives the callee.
lend(ir, prims, b, mine, e, at, known) ==
    LET sub(x, a2, k2) == lend(ir, prims, b, mine, x, a2, k2)
        c == callee(ir, prims, e.f, known)
    IN  CASE e.k = "app" ->
               [e EXCEPT !.lend =
                   /\ c.k = "code" /\ ~at.handled
                   /\ 1 \in b[c.d]
                   /\ CASE e.a.k = "local" -> IF at.tail THEN e.a.s \in mine ELSE TRUE
                        [] e.a.k = "env" -> ~at.tail
                        [] e.a.k = "glob" -> e.a.x \in DOMAIN ir.globals
                        [] OTHER -> FALSE]
          [] e.k = "let" ->
               [e EXCEPT !.rhs = sub(@, [at EXCEPT !.tail = FALSE], known),
                         !.e = sub(@, at, bind_known(known, e.s, binds(ir, prims, e.rhs, known)))]
          [] e.k = "case" ->
               [e EXCEPT !.alts = [i \in DOMAIN @ |->
                             [@[i] EXCEPT !.e = sub(@, at, forget(known, alt_slots(e.alts[i])))]],
                         !.d = sub(@, at, known)]
          [] e.k = "handle" -> [e EXCEPT !.e = sub(@, [tail |-> TRUE, handled |-> TRUE], known)]
          [] e.k = "defer" -> [e EXCEPT !.e = sub(@, [at EXCEPT !.tail = TRUE], known)]
          [] OTHER -> e

infer_borrowed_params(ir, prims) ==
    LET C == DOMAIN ir.codes
        called == UNION {{r.callee.d : r \in {w \in walk(ir, prims, ir.codes[c].e, TRUE, FALSE, << >>) :
                                                  w.how = "arg" /\ w.callee.k = "code"}} : c \in C}
        b == demote([c \in C |-> IF c \in called THEN 1..ir.codes[c].nparams ELSE {}],
                    [c \in C |-> facts(ir, prims, c)])
    IN  [ir EXCEPT !.codes = [c \in C |->
            [ir.codes[c] EXCEPT !.borrowed = b[c],
                !.e = lend(ir, prims, b, b[c], @, [tail |-> TRUE, handled |-> FALSE], << >>)]]]

-----------------------------------------------------------------------------
(* Moves and drops. *)
locals_in(ps) == {p.s : p \in {q \in ps : q.k = "local"}}

with_drops(ss, e) ==
    IF ss = {} THEN e ELSE IF e.k = "drop" THEN [e EXCEPT !.ss = @ \cup ss] ELSE IDrop(ss, e)

RECURSIVE move_atom(_, _)
move_atom(a, moved) ==
    CASE a.k = "clos" -> [a EXCEPT !.caps = [i \in DOMAIN a.caps |-> move_atom(a.caps[i], moved)]]
      [] a.k = "local" /\ a \in moved -> Move(a.s)
      [] a.k = "env" /\ a \in moved -> MoveEnv(a.j)
      [] OTHER -> a

\* Mutant: an occurrence moves although the node reads the variable again.
node_twice(e, lent, out) ==
    LET ps == {place(a) : a \in Range(Reads(e))}
    IN  [e |-> WithOperands(e, Each(LAMBDA a: move_atom(a, ps \ out), Operands(e))),
         live |-> out \cup ps, left |-> {}]

\* The atoms of one node: an occurrence moves when its variable is dead after
\* the node, appears once in it and is not lent; otherwise it is left over.
node(e, lent, out) ==
    LET rs == Each(place, Reads(e))
        once == {p \in Range(rs) : Cardinality({i \in DOMAIN rs : rs[i] = p}) = 1} \ lent
        dead == Range(rs) \ out
    IN  [e |-> WithOperands(e, Each(LAMBDA a: move_atom(a, once \cap dead), Operands(e))),
         live |-> out \cup Range(rs),
         left |-> locals_in(dead \ once)]

RECURSIVE oexpr(_, _), Nodes(_)

\* Every expression under e, e included.
Nodes(e) == {e} \cup UNION {Nodes(kid) : kid \in Range(IKids(e))}

\* Backward liveness: e annotated, what it needs on entry, and the slots it
\* leaves full although nothing reads them again.
oexpr(e, out) ==
    CASE e.k = "app" ->
           node(e, IF e.lend THEN {place(AtomVars(e.a)[i]) : i \in DOMAIN AtomVars(e.a)} ELSE {}, out)
      [] e.k \in {"ret", "struct", "field", "variant", "tuple"} -> node(e, {}, out)
      [] e.k = "fault" -> [e |-> e, live |-> {}, left |-> {}]
      [] e.k = "let" ->
           LET s == Local(e.s)
               b == oexpr(e.e, IF imentions(e.rhs, e.s) THEN out \cup {s} ELSE out)
               r == oexpr(e.rhs, b.live \cup {s})
               dead == {x \in r.left : Local(x) \notin b.live} \cup (IF s \in b.live THEN {} ELSE {e.s})
           IN  [e |-> [e EXCEPT !.rhs = r.e, !.e = with_drops(dead, b.e)],
                live |-> r.live \ {s}, left |-> b.left]
      [] e.k = "case" ->
           LET n == Len(e.alts)
               f == Each(LAMBDA kid: oexpr(kid, out), IKids(e))
               own(i) == IF i <= n THEN alt_slots(e.alts[i]) ELSE {}
               live(i) == f[i].live \ {Local(s) : s \in own(i)}
               union == UNION {live(i) : i \in 1..(n + 1)}
               body(i) == IF f[i].e.k = "fault" THEN f[i].e
                          ELSE with_drops(locals_in(union \ live(i)) \ own(i), f[i].e)
               alt(i) == [e.alts[i] EXCEPT !.e = body(i),
                             !.bind = [j \in DOMAIN @ |-> Local(e.alts[i].base + j - 1) \in f[i].live]]
               s == node([e EXCEPT !.alts = [i \in 1..n |-> alt(i)], !.d = body(n + 1)], {}, union)
           IN  [s EXCEPT !.left = @ \cup UNION {f[i].left : i \in 1..(n + 1)}]
      [] e.k \in {"handle", "defer"} ->
           LET b == oexpr(e.e, out)
               i == node([e EXCEPT !.e = b.e], {}, b.live)
           IN  [e |-> [i.e EXCEPT !.e = with_drops(i.left, @)], live |-> i.live, left |-> b.left]

\* What each handler body in e reads from outside it.
handler_reads(e) ==
    UNION {LET inner == Nodes(h.e)
               reads == UNION {{place(Reads(x)[i]) : i \in DOMAIN Reads(x)} : x \in inner}
               bound == {Local(x.s) : x \in {y \in inner : y.k = "let"}}
                        \cup UNION {{Local(s) : s \in UNION {alt_slots(x.alts[i]) : i \in DOMAIN x.alts}}
                                       : x \in {y \in inner : y.k = "case"}}
           IN  reads \ bound
              : h \in {x \in Nodes(e) : x.k = "handle"}}

-----------------------------------------------------------------------------
(* Constructor reuse. *)
RECURSIVE claim(_, _, _), consume(_, _), consume_all(_, _)

\* Hand the token to a constructor of as many fields on e's spine; a branch that
\* builds none drops it.
claim(e, arity, token) ==
    CASE e.k = "variant" ->
           IF e.reuse = 0 /\ Len(e.as) = arity
           THEN [e |-> [e EXCEPT !.reuse = token], took |-> TRUE] ELSE [e |-> e, took |-> FALSE]
      [] e.k = "let" ->
           LET r == IF e.rhs.k = "variant" THEN claim(e.rhs, arity, token) ELSE [e |-> e.rhs, took |-> FALSE]
               b == claim(e.e, arity, token)
           IN  IF r.took THEN [e |-> [e EXCEPT !.rhs = r.e], took |-> TRUE]
               ELSE [e |-> [e EXCEPT !.e = b.e], took |-> b.took]
      [] e.k = "drop" -> LET b == claim(e.e, arity, token) IN [e |-> [e EXCEPT !.e = b.e], took |-> b.took]
      [] e.k = "case" ->
           LET r == Each(LAMBDA kid: claim(kid, arity, token), IKids(e))
               any == \E i \in DOMAIN r : r[i].took
               body(i) == IF ~any \/ r[i].took \/ r[i].e.k = "fault" THEN r[i].e
                          ELSE with_drops({token}, r[i].e)
           IN  [e |-> IMap(e, [i \in DOMAIN r |-> body(i)]), took |-> any]
      [] OTHER -> [e |-> e, took |-> FALSE]

\* The alternative of a scrutinee in slot s that dies in it.
consume_alt(alt, s, n) ==
    LET c == claim(alt.e, Len(alt.bind), n + 1)
    IN  IF alt.head.k # "pvariant"
        THEN [alt |-> IF alt.e.k = "fault" THEN alt ELSE [alt EXCEPT !.e = with_drops({s}, @)], n |-> n]
        ELSE IF c.took THEN [alt |-> [alt EXCEPT !.e = c.e, !.eats = s, !.token = n + 1], n |-> n + 1]
        ELSE [alt |-> [alt EXCEPT !.eats = s], n |-> n]

\* Whether e starts by dropping s, and e without that.
drops(e, s) == e.k = "drop" /\ s \in e.ss
undrop(e, s) == IF e.ss = {s} THEN e.e ELSE [e EXCEPT !.ss = @ \ {s}]

consume_all(es, n) ==
    IF es = << >> THEN [es |-> << >>, n |-> n]
    ELSE LET c == consume(Head(es), n)
             r == consume_all(Tail(es), c.n)
         IN  [es |-> <<c.e>> \o r.es, n |-> r.n]

\* The alternatives of e from the i-th on, where moved is the slot the case
\* moved from (0 for none) and held the one it only reads.
RECURSIVE consume_alts(_, _, _, _, _)
consume_alts(alts, i, moved, held, n) ==
    IF i > Len(alts) THEN [alts |-> << >>, n |-> n]
    ELSE LET a == alts[i]
             frees == held # 0 /\ a.head.k = "pvariant" /\ drops(a.e, held)
             c == IF moved # 0 THEN consume_alt(a, moved, n)
                  ELSE IF frees THEN consume_alt([a EXCEPT !.e = undrop(@, held)], held, n)
                  ELSE [alt |-> a, n |-> n]
             r == consume_alts(alts, i + 1, moved, held, c.n)
         IN  [alts |-> <<c.alt>> \o r.alts, n |-> r.n]

\* A case whose scrutinee dies keeps it in its slot until an alternative takes it.
consume(e, n) ==
    LET con == e.k = "case" /\ \E i \in DOMAIN e.alts : e.alts[i].head.k = "pvariant"
        moved == IF con /\ e.a.k = "move" THEN e.a.s ELSE 0
        held == IF e.k = "case" /\ e.a.k = "local" THEN e.a.s ELSE 0
        cs == IF e.k = "case" THEN consume_alts(e.alts, 1, moved, held, n) ELSE [n |-> n]
        d == IF moved # 0 /\ e.d.k # "fault" THEN with_drops({moved}, e.d) ELSE e.d
        f == IF e.k # "case" THEN e
             ELSE [e EXCEPT !.a = IF moved # 0 THEN Local(moved) ELSE @, !.alts = cs.alts, !.d = d]
        ks == consume_all(IKids(f), cs.n)
    IN  [e |-> IMap(f, ks.es), n |-> ks.n]

owned_code(code) ==
    LET f == oexpr(code.e, handler_reads(code.e) \cup {Local(p) : p \in code.borrowed})
        u == consume(with_drops({p \in 1..code.nparams : Local(p) \notin f.live}, f.e), code.nlocals)
    IN  [code EXCEPT !.e = u.e, !.nlocals = u.n]

insert_moves_and_drops(ir) == [ir EXCEPT !.codes = Each(owned_code, @)]

-----------------------------------------------------------------------------
\* gs, in A-normal form with indices, lowered.
lower(gs, prims) == insert_moves_and_drops(infer_borrowed_params(convert_closures(gs, prims), prims))
=============================================================================
