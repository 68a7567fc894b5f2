------------------------------ MODULE Compiler ------------------------------
(***************************************************************************)
(* The lowering pipeline of frontend/src/ir.rs and the machine that runs   *)
(* what it produces: match compilation, A-normal form, De Bruijn indices,  *)
(* closure conversion, borrow inference and ownership, then the abstract   *)
(* machine, against what the source program means.                         *)
(***************************************************************************)
EXTENDS Machine

CONSTANTS Programs,   \* Core programs, each a sequence of globals [x, t]
          Sources     \* surface programs

(* What the compiler is put together from.  Each part is a function of its  *)
(* arguments, and the modules named define it.                              *)
CONSTANTS Declared(_),           \* Typing: the checker once a program's declarations are known
          NextComponent(_, _),   \* Typing: the definitions to check next, after those done
          Checked(_, _, _),      \* Typing: the checker after those definitions
          LiteralsChecked(_),    \* Typing: the checker after the range of every literal
          Desugared(_, _),       \* Desugar: a program in Core, with what the checker noted
          Lowered(_),            \* Passes: the IR of a program in Core
          LoweredOnto(_),        \* Passes: the same, the library lowered before the rest
          Meant(_),              \* Meaning: what a program in Core means
          HasType(_, _, _)       \* Frontend: a value's being of a declared type

VARIABLES written,   \* the surface program, None for a Core one
          phase,     \* "check", "lower", "run", "rejected"
          checker,   \* the checker's state and the definitions it is done with
          source     \* the program in Core

front == <<written, phase, checker, source>>
allVars == <<front, vars>>

Init ==
    /\ \/ written = None /\ source \in Programs /\ phase = "lower" /\ checker = None
       \/ /\ written \in Sources /\ source = None /\ phase = "check"
          /\ checker = [c |-> Declared(written), done |-> {}]
    /\ ir = None
    /\ MachineInit

-----------------------------------------------------------------------------
(* The front end. *)
accepted(c) == c.ok /\ ~c.stuck

\* One component of the definitions, if none failed.
CheckComponent ==
    /\ phase = "check"
    /\ accepted(checker.c)
    /\ \E is \in {NextComponent(written.defs, checker.done)} :
          /\ is # << >>
          /\ checker' = [c |-> Checked(checker.c, is, written.defs),
                         done |-> checker.done \cup {written.defs[i].x : i \in Range(is)}]
    /\ UNCHANGED <<written, phase, source, vars>>

\* The first error ends the compilation.
Reject ==
    /\ phase = "check"
    /\ \/ ~accepted(checker.c)
       \/ /\ NextComponent(written.defs, checker.done) = << >>
          /\ ~accepted(LiteralsChecked(checker.c))
    /\ phase' = "rejected" /\ checker' = None
    /\ UNCHANGED <<written, source, vars>>

DesugarProgram ==
    /\ phase = "check"
    /\ NextComponent(written.defs, checker.done) = << >>
    /\ accepted(LiteralsChecked(checker.c))
    /\ source' = Desugared(written, checker.c.notes)
    /\ phase' = "lower" /\ checker' = None
    /\ UNCHANGED <<written, vars>>

LowerProgram ==
    /\ phase = "lower"
    /\ ir' = Lowered(source)
    /\ phase' = "run"
    /\ UNCHANGED <<written, checker, source, cells, next, ex, outer, memo, trace, outcome>>

\* The shell lowers the library once, and what is entered onto it.
LowerOnto ==
    /\ phase = "lower"
    /\ \E i \in DOMAIN source : qualified(source[i].x)
    /\ ir' = LoweredOnto(source)
    /\ phase' = "run"
    /\ UNCHANGED <<written, checker, source, cells, next, ex, outer, memo, trace, outcome>>

Halted == (outcome # None \/ phase = "rejected") /\ UNCHANGED allVars

Next ==
    \/ CheckComponent \/ Reject \/ DesugarProgram \/ LowerProgram \/ LowerOnto
    \/ phase = "run" /\ MachineNext /\ UNCHANGED front
    \/ Halted

Spec == Init /\ [][Next]_allVars

-----------------------------------------------------------------------------
\* The continuations there are: running, waiting, captured, each with its holder.
Slices ==
    {<<"run", i, Append(outer, ex)[i].kont>> : i \in 1..(Len(outer) + 1)}
    \cup {<<"res", a, cells[a].seg>> : a \in {b \in DOMAIN cells : cells[b].k = "res"}}

\* Every strong reference of the heap and of the executions names a cell, and an
\* execution's activation and those its pending lets return to are activations
\* with a slot for the result (machine.rs 30-130).
HeapOK ==
    LET runs == Append(outer, ex)
        pending == UNION {{k \in Range(s[3]) : k.k = "kret"} : s \in Slices}
    IN  /\ Range(Roots(ex, outer, memo)) \subseteq DOMAIN cells
        /\ \A a \in DOMAIN cells : Range(CellRefs(cells[a])) \subseteq DOMAIN cells
        /\ \A i \in DOMAIN runs : runs[i].frame # 0 => runs[i].frame \in DOMAIN cells /\ cells[runs[i].frame].k = "frame"
        /\ \A k \in pending : k.frame \in DOMAIN cells /\ cells[k.frame].k = "frame" /\ k.slot \in DOMAIN cells[k.frame].locals

\* A program that has run to its end shows what it means: the same value or
\* fault, and the same calls of the foreign function in the same order, whatever
\* the passes of ir.rs 91-168 did to it.
SameAsMeaning == outcome # None => [outcome |-> outcome, trace |-> trace] = Meant(source)

\* What variable a of the activation at hand holds.
Held(a) == IF a.k \in {"local", "move"} THEN cells[ex.frame].locals[a.s] ELSE cells[ex.frame].env[a.j]

\* No node reads a slot that a move, a drop or a consuming match emptied, in an
\* earlier node or earlier in this one (ownership.rs 1-60: a moved variable is
\* dead), however often a handler body runs again.
NoEmptyRead ==
    outcome = None /\ phase = "run" =>
        LET wants == Wants(ex.ctrl)
            rs == FlattenSeq(Each(AtomVars, wants))
        IN  \A i \in DOMAIN rs :
                /\ Held(rs[i]) # Unk
                /\ \A j \in 1..(i - 1) : rs[j].k \in {"move", "moveenv"} => place(rs[j]) # place(rs[i])

\* No node reads a recursive closure whose box is gone: the panic "recursive cell
\* dropped" of machine.rs 249 never happens.
NoDanglingRead ==
    outcome = None /\ phase = "run" =>
        \A a \in {w \in Range(Wants(ex.ctrl)) : w.k \in {"local", "move", "env", "moveenv"}} :
            deref(cells, Held(a)) # Gone

\* What a node reads is there.
ReadsLive == NoEmptyRead /\ NoDanglingRead

\* Reference counts free everything: each cell is within reach of the executions
\* and the globals, recursive closures included (machine.rs 30-60).
NoLeak ==
    LET grow(S) == S \cup UNION {Range(CellRefs(cells[a])) : a \in S}
        RECURSIVE Reach(_)
        Reach(S) == IF grow(S) = S THEN S ELSE Reach(grow(S))
    IN  DOMAIN cells \subseteq Reach(Range(Roots(ex, outer, memo)))

\* No two pending lets, on a running continuation or in a captured slice, return
\* into the same slot of the same activation (closure_conversion.rs: the slots of
\* a handler body stay its own).
OnePendingPerSlot ==
    \A s, t \in Slices : \A i \in DOMAIN s[3], j \in DOMAIN t[3] :
        LET k == s[3][i]
            l == t[3][j]
        IN  (k.k = "kret" /\ l.k = "kret" /\ k.frame = l.frame /\ k.slot = l.slot) => s = t /\ i = j

\* A program the checker accepts runs to a value of the type its main declares: no
\* fault, no effect without a handler, no match without an arm (typing.rs 1-60),
\* whatever desugaring, the passes and the machine do after it.
ChecksOut ==
    outcome # None /\ written # None =>
        /\ outcome.k = "value"
        /\ HasType(written, outcome.v, (CHOOSE f \in Range(written.defs) : f.x = <<"main">>).sig)
=============================================================================
