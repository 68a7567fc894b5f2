--------------------------- MODULE NativeCompiler ---------------------------
(***************************************************************************)
(* The native compiler, end to end: the lowering pipeline, the C program   *)
(* ccg/src/gen.rs makes of its IR, and that program's run, against what    *)
(* the source program means.                                               *)
(***************************************************************************)
EXTENDS Native

CONSTANTS
    Programs,   \* each a sequence of globals [x, t]
    Rooms       \* how many nested C calls the stack has room for

(* What the compiler and its programs are put together from.  Each part is a *)
(* function of its arguments, and the modules named define it.               *)
CONSTANTS
    Lowered(_),        \* Passes: the IR of a program in Core
    Generated(_, _),   \* Native: what the generator makes of it
    Bounced(_, _),     \* Native: the runtime after the next block
    Meant(_)           \* Meaning: what a program in Core means

VARIABLES
    source,   \* the program in Core
    rt        \* the runtime's state

allVars == <<source, rt>>

-----------------------------------------------------------------------------
(* main: force every global in order, show the entry's value, release all.   *)
Running == rt.fault = None /\ rt.shown = None

ForceGlobal ==
    /\ Running /\ rt.cur = NoCur /\ rt.todo # << >>
    /\ LET code == Head(rt.todo)
       IN  IF code \in DOMAIN rt.memo THEN rt' = [rt EXCEPT !.todo = Tail(@)] ELSE rt' = start_code(rt, code)
    /\ UNCHANGED source

Bounce ==
    /\ Running /\ rt.cur # NoCur
    /\ \E T \in {Bounced(rt, 0)} :
          rt' = IF T.fault = None /\ T.cur = NoCur
                THEN [end_code(T, Head(rt.todo), T.res) EXCEPT !.todo = Tail(@), !.res = Unit] ELSE T
    /\ UNCHANGED source

Exit ==
    /\ Running /\ rt.cur = NoCur /\ rt.todo = << >>
    /\ LET T == pool_drain(FoldFunction(LAMBDA v, S: release(S, v), rt, rt.memo), 0)
       IN  rt' = [T EXCEPT !.memo = << >>,
                           !.shown = [k |-> "value", v |-> show(rt, rt.memo[rt.prog.globals[<<"main">>]])]]
    /\ UNCHANGED source

Init ==
    /\ source \in Programs
    /\ \E ir \in {Lowered(source)} : \E prog \in {Generated(ir, [i \in DOMAIN source |-> source[i].x])}, room \in Rooms :
          rt = [prog |-> prog, c |-> << >>, f |-> << >>, r |-> << >>, n |-> 1, pool |-> << >>, kont |-> << >>,
                fault |-> None, cur |-> NoCur, act |-> None, res |-> Unit, memo |-> << >>, busy |-> {},
                todo |-> prog.order, depth |-> 0, room |-> room, trace |-> << >>, shown |-> None]

Halted == ~Running /\ UNCHANGED allVars

Next == ForceGlobal \/ Bounce \/ Exit \/ Halted

Spec == Init /\ [][Next]_allVars

-----------------------------------------------------------------------------
Result == [outcome |-> IF rt.fault = None THEN rt.shown ELSE rt.fault, trace |-> rt.trace]

\* A compiled program shows what its source means: the same value or fault and
\* the same calls of the foreign function, however much of it runs as C functions
\* and wherever the C stack runs out (gen.rs, runtime.c).
NativeSameAsMeaning == Running \/ Result = Meant(source)

\* How often x occurs in the sequence s.
Count(s, x) == Cardinality({i \in DOMAIN s : s[i] = x})

\* The sequences op of the values of f, end to end.
Joined(op(_), f) == FoldFunction(LAMBDA x, s: op(x) \o s, << >>, f)

\* All continuation frames: on the stack and in the slices not moved out.
Pending == rt.kont \o Joined(LAMBDA s: IF s.seg = None THEN << >> ELSE s.seg.ks, rt.r)

\* The references to cells, by holder.
References ==
    LET strong == [a \in DOMAIN rt.c |-> SelectSeq(Children(rt.c[a].x), LAMBDA w: w # Ref(a))]
        pending == Pending
    IN  rt.pool
        \o Joined(LAMBDA s: s, strong)
        \o Joined(LAMBDA fr: Owned(fr) \o <<fr.clos>> \o fr.env, rt.f)
        \o FlattenSeq([i \in DOMAIN pending |-> KVals(pending[i])])
        \o Joined(LAMBDA v: <<v>>, rt.memo)

\* Between two blocks every count is exact: a cell's is the references to it, an
\* activation's the pending returns into it and itself if it runs, a slice's the
\* resumptions and clause boundaries over it.  A count too small frees a live
\* value, one too large leaks it or refuses a reuse (runtime.c 500-640, 2190-2420).
CountsExact ==
    Running =>
        LET refs == References
            pending == Pending
            krets == SelectSeq(pending, LAMBDA k: k.k = "kret")
            into == [i \in DOMAIN krets |-> krets[i].frame] \o <<rt.cur.fr>>
            kafters == SelectSeq(pending, LAMBDA k: k.k = "kafter")
            over == [i \in DOMAIN kafters |-> kafters[i].res]
        IN  /\ \A v \in Range(refs) : v.k = "ref" => v.at \in DOMAIN rt.c
            /\ \A a \in DOMAIN rt.c : rt.c[a].rc = Count(refs, Ref(a))
            /\ Range(into) \subseteq DOMAIN rt.f \cup {0}
            /\ \A id \in DOMAIN rt.f : rt.f[id].rc = Count(into, id)
            /\ \A id \in DOMAIN rt.r :
                   /\ rt.r[id].bound = Count(over, id)
                   /\ rt.r[id].rc = rt.r[id].bound + Cardinality({a \in DOMAIN rt.c : rt.c[a].x = [k |-> "resump", to |-> id]})

\* At the end of main, once the globals are released, nothing is left but what a
\* cycle through several cells holds (documentation/native-backend.md: "An
\* indirect local value cycle ... would leak"): reference counting reclaims
\* recursive closures, captured slices, lazy slots and parked cells alike, however
\* the program's functions call each other (lib.rs 236-283).
NothingLeftAtExit ==
    LET Next_(S) == UNION {{v.at : v \in {w \in Range(Children(rt.c[a].x)) : w.k = "ref" /\ w.at # a}} : a \in S}
        RECURSIVE Below(_)
        Below(S) == IF Next_(S) \subseteq S THEN S ELSE Below(S \cup Next_(S))
        knots == {a \in DOMAIN rt.c : a \in Below(Next_({a}))}
    IN  rt.shown # None =>
            /\ DOMAIN rt.c \subseteq knots \cup Below(knots)
            /\ knots = {} => DOMAIN rt.f \cup DOMAIN rt.r = {}
=============================================================================
