--------------------------------- MODULE Ir ---------------------------------
(***************************************************************************)
(* The IR of frontend/src/ir/data.rs, which closure conversion produces    *)
(* and the engines run.  Slots, captures and codes count from 1.           *)
(***************************************************************************)
EXTENDS Core

Local(s) == [k |-> "local", s |-> s]
Move(s) == [k |-> "move", s |-> s]
Env(j) == [k |-> "env", j |-> j]
MoveEnv(j) == [k |-> "moveenv", j |-> j]
Glob(x) == [k |-> "glob", x |-> x]
Lit(t) == [k |-> "lit", t |-> t]
Clos(code, caps) == [k |-> "clos", code |-> code, caps |-> caps]

IRet(a) == [k |-> "ret", a |-> a]
ILet(s, rhs, e) == [k |-> "let", s |-> s, rhs |-> rhs, e |-> e]
IApp(f, a, tail, lend) == [k |-> "app", f |-> f, a |-> a, tail |-> tail, lend |-> lend]
ICase(a, alts, d) == [k |-> "case", a |-> a, alts |-> alts, d |-> d]
\* An alternative: its head, the slots base .. of its binders (FALSE where one is
\* unused) and how it takes its scrutinee: the slot it consumes and the slot of
\* the token that keeps the cell, 0 for none.
Alt(head, base, binders_, e) ==
    [head |-> head, base |-> base, bind |-> binders_, e |-> e, eats |-> 0, token |-> 0]
IStruct(base, ls, as) == [k |-> "struct", base |-> base, ls |-> ls, as |-> as]
IField(a, l) == [k |-> "field", a |-> a, l |-> l]
IVariant(tag, as, reuse) == [k |-> "variant", tag |-> tag, as |-> as, reuse |-> reuse]
ITuple(as) == [k |-> "tuple", as |-> as]
IHandle(e, clauses, els) == [k |-> "handle", e |-> e, clauses |-> clauses, els |-> els]
IDefer(a, e) == [k |-> "defer", a |-> a, e |-> e]
IDrop(ss, e) == [k |-> "drop", ss |-> ss, e |-> e]
IFault(w) == [k |-> "fault", w |-> w]

\* The sub-expressions of an IR node.
IKids(e) ==
    CASE e.k = "let" -> <<e.rhs, e.e>>
      [] e.k = "case" -> Append([i \in DOMAIN e.alts |-> e.alts[i].e], e.d)
      [] e.k \in {"handle", "defer", "drop"} -> <<e.e>>
      [] OTHER -> << >>

\* The node with its sub-expressions replaced.
IMap(e, ks) ==
    CASE e.k = "let" -> [e EXCEPT !.rhs = ks[1], !.e = ks[2]]
      [] e.k = "case" ->
           [e EXCEPT !.alts = [i \in DOMAIN e.alts |-> [e.alts[i] EXCEPT !.e = ks[i]]], !.d = ks[Len(ks)]]
      [] e.k \in {"handle", "defer", "drop"} -> [e EXCEPT !.e = ks[1]]
      [] OTHER -> e

\* The atoms a node reads itself.
Operands(e) ==
    CASE e.k \in {"ret", "case", "field", "defer"} -> <<e.a>>
      [] e.k = "app" -> <<e.f, e.a>>
      [] e.k \in {"variant", "tuple"} -> e.as
      [] e.k = "struct" -> Opt(e.base) \o e.as
      [] e.k = "handle" -> Append([i \in DOMAIN e.clauses |-> e.clauses[i].fun], e.els)
      [] OTHER -> << >>

\* The node with the atoms it reads replaced.
WithOperands(e, as) ==
    CASE e.k \in {"ret", "case", "field", "defer"} -> [e EXCEPT !.a = as[1]]
      [] e.k = "app" -> [e EXCEPT !.f = as[1], !.a = as[2]]
      [] e.k \in {"variant", "tuple"} -> [e EXCEPT !.as = as]
      [] e.k = "struct" ->
           IF e.base = None THEN [e EXCEPT !.as = as] ELSE [e EXCEPT !.base = as[1], !.as = Tail(as)]
      [] e.k = "handle" ->
           [e EXCEPT !.clauses = [i \in DOMAIN e.clauses |-> [e.clauses[i] EXCEPT !.fun = as[i]]],
                     !.els = as[Len(as)]]
      [] OTHER -> e

\* An atom's variable occurrences, those a closure captures included.
RECURSIVE AtomVars(_)
AtomVars(a) ==
    IF a.k = "clos" THEN FlattenSeq([i \in DOMAIN a.caps |-> AtomVars(a.caps[i])])
    ELSE IF a.k \in {"local", "move", "env", "moveenv"} THEN <<a>> ELSE << >>

\* Where the variable of an occurrence lives, Local(s) or Env(j).
place(a) == IF a.k \in {"local", "move"} THEN Local(a.s) ELSE Env(a.j)

Reads(e) == FlattenSeq(Each(AtomVars, Operands(e)))

ReadsSlot(as, s) == \E i \in DOMAIN as : as[i].k \in {"local", "move"} /\ as[i].s = s

RECURSIVE imentions(_, _)
imentions(e, s) ==
    \/ e.k = "drop" /\ s \in e.ss
    \/ ReadsSlot(Reads(e), s)
    \/ \E kid \in Range(IKids(e)) : imentions(kid, s)
=============================================================================
