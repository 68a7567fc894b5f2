------------------------------- MODULE Passes -------------------------------
(* The lowering pipeline of frontend/src/ir.rs, from Core to the IR that     *)
(* every engine runs: the whole program at once, or the library's modules    *)
(* first and the root's onto them, as the shell does.                        *)
EXTENDS Matching, Ownership

S == INSTANCE Specialize
E == INSTANCE EtaFold

passes_on(gs) ==
    [i \in DOMAIN gs |-> [gs[i] EXCEPT !.t = assign(to_a_normal_form(compile_matches(@)), << >>)]]

lower_modules(gs) ==
    LET merged == E!fold_primitive_methods(S!specialize_contexts(gs)) IN lower(passes_on(merged), Prims)

\* The library's IR, with the primitives the fold of other modules reads.
lower_prefix(gs) ==
    LET merged == S!specialize_contexts(gs)
        prims == E!primitive_methods(merged)
        folded == E!fold_primitive_methods_with(merged, prims)
    IN  [ir |-> lower(passes_on(folded), Prims), prims |-> prims]

\* The other modules are not specialized, and none of their parameters is lent.
lower_onto(prefix, gs) ==
    LET prims == E!inherit(E!primitive_methods(gs), prefix.prims)
        folded == E!fold_primitive_methods_with(gs, prims)
        own == insert_moves_and_drops(convert_closures_after(passes_on(folded), Prims, prefix.ir))
    IN  [codes |-> prefix.ir.codes \o own.codes, globals |-> own.globals @@ prefix.ir.globals]

\* A program whose library is lowered before it.
lower_after_library(gs) ==
    LET library == SelectSeq(gs, LAMBDA g: qualified(g.x))
        root == SelectSeq(gs, LAMBDA g: ~qualified(g.x))
    IN  lower_onto(lower_prefix(library), root)
=============================================================================
