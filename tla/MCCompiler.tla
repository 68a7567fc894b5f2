----------------------------- MODULE MCCompiler -----------------------------
(* The programs that go through the compiler and run on the interpreter:    *)
(* some written in Core, which skip the front end, and some on the surface. *)
EXTENDS Compiler, Passes, Meaning, Samples

CONSTANT MaxVars   \* bound: type variables of one program

FE == INSTANCE Frontend
Surface == INSTANCE SurfaceSamples

(* The front end's parts; lower_modules and Means are the others. *)
MCDeclared(p) == LET c == FE!declared(p) IN c
MCNextComponent(defs, done) == LET is == FE!next_component(defs, done) IN is
MCChecked(c, is, defs) == LET d == FE!check_component(c, is, defs) IN d
MCLiteralsChecked(c) == LET d == FE!check_int_literals(c) IN d
MCDesugared(p, notes) == LET gs == FE!desugar_program(p, notes) IN gs
MCHasType(p, v, ty) == LET is == FE!Inhabits(p, v, ty) IN is

MCPrograms == HandPrograms \cup LibPrograms \cup MatchPrograms
MCSources == Surface!HandSources \cup Surface!LetSources \cup Surface!MatchSources \cup Surface!HandleSources

(* Programs that the code gets wrong. *)
\* let y = 1 in let x = (let y = 2 in y) in (x, y)
MCShadowing == {Main(L("y", Num(1), L("x", L("y", Num(2), V("y")), Two(V("x"), V("y")))))}

\* main : @Bool = do throw 1 ctl k | throw m => k 0
MCOpaque == {Surface!RigidLiteral}
=============================================================================
