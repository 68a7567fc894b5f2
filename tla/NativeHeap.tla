----------------------------- MODULE NativeHeap -----------------------------
(***************************************************************************)
(* The memory of the native runtime (ccg/src/runtime.c, the build without  *)
(* threads): counted value cells, the temporary pool, activations, lazy    *)
(* slots' and recursive lets' boxes, captured slices.  Every operator maps *)
(* a state S to the next:                                                  *)
(*   c     the cells, by address: the count rc and the payload x           *)
(*   f     the activations: rc, lent, clos, env, locals                    *)
(*   r     the captured slices: rc, bound (their clause boundaries), seg,  *)
(*         used                                                            *)
(*   n     the next address, for all three; none is used twice             *)
(*   pool  the references the temporary pool holds                         *)
(*   kont  the continuation stack                                          *)
(*   fault None until a check fails; it stays                              *)
(* Numbers, booleans, unit, byte strings, operations and the foreign       *)
(* function are immediates; every other value is Ref of a cell.            *)
(***************************************************************************)
EXTENDS Ir

Ref(a) == [k |-> "ref", at |-> a]

\* NULL: a slot, a field or a token that holds nothing.
Empty == [k |-> "empty"]

\* thrax_fault: the first one ends the program.
Bad(S, w) == IF S.fault = None THEN [S EXCEPT !.fault = Fault(w)] ELSE S

At(S, v) ==
    IF v.k # "ref" THEN v ELSE IF v.at \in DOMAIN S.c THEN S.c[v.at].x ELSE [k |-> "freed"]

\* The references a payload holds; one to the cell itself is weak.
Children(x) ==
    CASE x.k \in {"variant", "tuple", "struct", "vec"} -> x.fs
      [] x.k = "code" -> x.env
      [] x.k = "builtin" -> x.args
      [] x.k \in {"thunk", "blackhole"} -> <<x.f>>
      [] OTHER -> << >>

\* As an explicit function, like Each: TLC evaluates it once.
Without(f, a) == [b \in DOMAIN f \ {a} |-> f[b]] @@ << >>

-----------------------------------------------------------------------------
(* Counts. *)
retain(S, v) ==
    IF v.k # "ref" THEN S
    ELSE IF v.at \notin DOMAIN S.c THEN Bad(S, "retaining a freed value")
    ELSE [S EXCEPT !.c[v.at].rc = @ + 1]

retain_all(S, vs) == FoldLeft(retain, S, vs)

unique(S, v) == v.k = "ref" /\ v.at \in DOMAIN S.c /\ S.c[v.at].rc = 1

resump_addref(S, id) == [S EXCEPT !.r[id].rc = @ + 1]

RECURSIVE release(_, _), payload_destroy(_, _, _), frame_release(_, _), kframe_release(_, _),
          resump_release(_, _)

release_all(S, vs) == FoldLeft(LAMBDA T, v: release(T, v), S, vs)

release(S, v) ==
    IF v.k # "ref" THEN S
    ELSE IF v.at \notin DOMAIN S.c THEN Bad(S, "releasing a freed value")
    ELSE IF S.c[v.at].rc > 1 THEN [S EXCEPT !.c[v.at].rc = @ - 1]
    ELSE payload_destroy([S EXCEPT !.c = Without(@, v.at)], v, S.c[v.at].x)

payload_destroy(S, v, x) ==
    IF x.k = "resump" THEN resump_release(S, x.to)
    ELSE release_all(S, SelectSeq(Children(x), LAMBDA w: w # v))

\* The counted values of a continuation frame, the activation and the slice aside.
KVals(k) ==
    CASE k.k = "kprompt" -> Append(Each(LAMBDA cl: cl.fun, k.clauses), k.els)
      [] k.k = "kdefer" -> <<k.c>>
      [] k.k = "kthunk" -> <<k.saved>>
      [] k.k = "kcleanups" -> k.cs
      [] OTHER -> << >>

kframe_release(S, k) ==
    CASE k.k = "kret" -> frame_release(S, k.frame)
      [] k.k = "kafter" -> resump_release([S EXCEPT !.r[k.res].bound = @ - 1], k.res)
      [] OTHER -> release_all(S, KVals(k))

\* A slice that a resume moved out (seg is None) has nothing left to release.
resump_release(S, id) ==
    LET s == S.r[id]
        gone == [S EXCEPT !.r = Without(@, id)]
    IN  IF id \notin DOMAIN S.r THEN Bad(S, "releasing a freed slice")
        ELSE IF s.rc > 1 THEN [S EXCEPT !.r[id].rc = @ - 1]
        ELSE IF s.seg = None THEN gone
        ELSE FoldLeft(LAMBDA T, k: kframe_release(T, k), gone, s.seg.ks)

\* What an activation owns of its slots: a lent one is its lender's.
Owned(fr) == SelectSeq([s \in DOMAIN fr.locals |-> IF s \in fr.lent THEN Empty ELSE fr.locals[s]], LAMBDA v: v # Empty)

frame_release(S, id) ==
    LET fr == S.f[id]
    IN  IF id = 0 THEN S
        ELSE IF id \notin DOMAIN S.f THEN Bad(S, "releasing a freed frame")
        ELSE IF fr.rc > 1 THEN [S EXCEPT !.f[id].rc = @ - 1]
        ELSE release(release_all([S EXCEPT !.f = Without(@, id)], Owned(fr)), fr.clos)

-----------------------------------------------------------------------------
(* The temporary pool and the constructors. *)
pool_adopt(S, v) == IF v.k = "ref" THEN [S EXCEPT !.pool = Append(@, v)] ELSE S

pool_drain(S, mark) ==
    release_all([S EXCEPT !.pool = SubSeq(@, 1, mark)], Reverse(SubSeq(S.pool, mark + 1, Len(S.pool))))

\* A state and a value.
Val(S, v) == [S |-> S, v |-> v]

\* A fresh cell, which the pool owns; it owns its children.
alloc_value(S, x) ==
    LET v == Ref(S.n)
        T == [S EXCEPT !.c = (S.n :> [rc |-> 1, x |-> x]) @@ @, !.n = @ + 1]
    IN  Val(pool_adopt(retain_all(T, Children(x)), v), v)

fresh_box(S) == alloc_value(S, Unit)

\* The pool takes over a reference: the value is a temporary like any fresh one.
own(r) == Val(pool_adopt(r.S, r.v), r.v)

-----------------------------------------------------------------------------
(* Activations. *)
frame_new(S, nlocals, clos) ==
    LET fr == [rc |-> 1, lent |-> {}, clos |-> clos, env |-> << >>, locals |-> [s \in 1..nlocals |-> Empty] \o << >>]
    IN  [S |-> retain([S EXCEPT !.f = (S.n :> fr) @@ @, !.n = @ + 1], clos), fr |-> S.n]

Local_(S, fr, s) == S.f[fr].locals[s]

put(S, fr, s, v) == [S EXCEPT !.f[fr].locals[s] = v]

unlend(S, fr, s) == [S EXCEPT !.f[fr].lent = @ \ {s}]

\* What slot s holds is no longer the activation's: a lent value was never its own.
let_go(S, fr, s) == IF s \in S.f[fr].lent THEN unlend(S, fr, s) ELSE release(S, Local_(S, fr, s))

setlocal(S, fr, s, v) == put(let_go(retain(S, v), fr, s), fr, s, v)

drop(S, fr, s) == put(let_go(S, fr, s), fr, s, Empty)

drop_all(S, fr, ss) == FoldSet(LAMBDA s, T: drop(T, fr, s), S, ss)

local(S, fr, s) == Val(IF Local_(S, fr, s) = Empty THEN Bad(S, "read of an empty local slot") ELSE S, Local_(S, fr, s))

\* A local's last use: its reference is the taker's, a new one if it was lent.
give(S, fr, s) ==
    LET r == local(S, fr, s)
        T == put(r.S, fr, s, Empty)
    IN  Val(IF s \in S.f[fr].lent THEN retain(unlend(T, fr, s), r.v) ELSE T, r.v)

take(S, fr, s) == own(give(S, fr, s))

\* The environment: the closure's captures, or a direct activation's own row.
EnvOf(S, fr) == IF S.f[fr].clos = Empty THEN S.f[fr].env ELSE At(S, S.f[fr].clos).env

env(S, fr, j) == Val(IF EnvOf(S, fr)[j] = Empty THEN Bad(S, "read of an empty env field") ELSE S, EnvOf(S, fr)[j])

empty_env(S, fr, j) ==
    IF S.f[fr].clos = Empty THEN [S EXCEPT !.f[fr].env[j] = Empty]
    ELSE [S EXCEPT !.c[S.f[fr].clos.at].x.env[j] = Empty]

\* Mutant: a recursive closure's captures move out too.
take_env_rec(S, fr, j) ==
    LET r == env(S, fr, j)
        clos == S.f[fr].clos
    IN  IF clos = Empty \/ unique(S, clos) THEN own(Val(empty_env(r.S, fr, j), r.v)) ELSE r

\* A captured field's last use moves it out only when the activation is the
\* closure's sole owner and the closure cannot reach itself.
take_env(S, fr, j) ==
    LET r == env(S, fr, j)
        clos == S.f[fr].clos
        moves == clos = Empty \/ (unique(S, clos) /\ clos \notin Range(EnvOf(S, fr)))
    IN  IF moves THEN own(Val(empty_env(r.S, fr, j), r.v)) ELSE r

give_env(S, fr, j) ==
    IF S.f[fr].clos = Empty THEN LET r == env(S, fr, j) IN Val(empty_env(r.S, fr, j), r.v)
    ELSE LET r == take_env(S, fr, j) IN Val(retain(r.S, r.v), r.v)

-----------------------------------------------------------------------------
(* Boxes: a recursive let's, and a lazy slot's cell once it is forced. *)
\* Mutant: the copy counts its self edge.
patch_box_strong(S, box, v) ==
    LET T == payload_destroy(S, box, At(S, box))
        x == At(T, v)
        U == retain_all([T EXCEPT !.c[box.at].x = x], Children(x))
    IN  IF box = v THEN S ELSE IF x.k = "resump" THEN resump_addref(U, x.to) ELSE U

\* The box becomes a copy of v, with references of its own but for its self edge.
patch_box(S, box, v) ==
    LET T == payload_destroy(S, box, At(S, box))
        x == At(T, v)
        U == retain_all([T EXCEPT !.c[box.at].x = x], SelectSeq(Children(x), LAMBDA w: w # box))
    IN  IF box = v THEN S
        ELSE IF box.k # "ref" THEN Bad(S, "patching a shared constant")
        ELSE IF box.at \notin DOMAIN S.c THEN Bad(S, "patching a freed box")
        ELSE IF x.k = "freed" THEN Bad(S, "copy of a freed value")
        ELSE IF x.k = "resump" THEN resump_addref(U, x.to) ELSE U

\* The box takes v's payload when the caller's is the only reference to v and no
\* self edge is involved.
Steals(S, box, v) ==
    /\ box # v /\ unique(S, v)
    /\ At(S, v).k # "resump"
    /\ {v, box} \cap Range(Children(At(S, v))) = {}

steal_payload(S, box, v) ==
    LET T == payload_destroy(S, box, At(S, box))
    IN  release([T EXCEPT !.c[box.at].x = At(S, v), !.c[v.at].x = Unit], v)

\* A slot with no box takes the value itself.
backpatch(S, fr, s, v) ==
    LET box == Local_(S, fr, s) IN IF box = Empty THEN setlocal(S, fr, s, v) ELSE patch_box(S, box, v)

setbox(S, fr, s) == LET b == fresh_box(S) IN setlocal(b.S, fr, s, b.v)

\* let s = from, at from's last use: between the slots, not through the pool.
kmove(S, fr, s, from) ==
    LET r == local(S, fr, from)
        box == Local_(S, fr, s)
    IN  IF box # Empty THEN drop(patch_box(r.S, box, r.v), fr, from)
        ELSE put(put(r.S, fr, s, r.v), fr, from, Empty)

-----------------------------------------------------------------------------
(* Constructor reuse. *)
set_token(S, fr, token, v) ==
    IF token = 0 THEN release(S, v) ELSE put(release(S, Local_(S, fr, token)), fr, token, v)

\* The fields of v for the binders of alternative alt, from the i-th on, without
\* a count changing.
RECURSIVE move_fields(_, _, _, _, _)
move_fields(S, fr, alt, fs, i) ==
    IF i > Len(fs) THEN S
    ELSE LET s == alt.base + i - 1
         IN  move_fields(IF alt.bind[i] THEN put(release(S, Local_(S, fr, s)), fr, s, fs[i]) ELSE release(S, fs[i]),
                         fr, alt, fs, i + 1)

RECURSIVE share_fields(_, _, _, _, _)
share_fields(S, fr, alt, fs, i) ==
    IF i > Len(fs) THEN S
    ELSE share_fields(IF alt.bind[i] THEN setlocal(S, fr, alt.base + i - 1, fs[i]) ELSE S, fr, alt, fs, i + 1)

\* The scrutinee v dies in the alternative.  Held once, its fields move into the
\* binders and the emptied cell is parked in the token; otherwise they are shared.
unpack(S, fr, v, alt) ==
    LET x == At(S, v)
        sole == Local_(S, fr, alt.eats) = v /\ unique(S, v) /\ v \notin Range(x.fs)
        moved == move_fields([put(S, fr, alt.eats, Empty) EXCEPT !.c[v.at].x.fs = Each(LAMBDA w: Empty, @)],
                             fr, alt, x.fs, 1)
    IN  IF Len(x.fs) # Len(alt.bind) THEN Bad(S, "unpack: shape mismatch")
        ELSE IF sole THEN set_token(moved, fr, alt.token, v)
        ELSE LET T == drop(share_fields(S, fr, alt, x.fs, 1), fr, alt.eats)
             IN  IF alt.token = 0 THEN T ELSE set_token(T, fr, alt.token, Empty)

\* A variant in the token's cell, when nobody else holds that.
variant_at(S, fr, token, x) ==
    LET v == Local_(S, fr, token)
        T == put(S, fr, token, Empty)
        fits == unique(S, v) /\ At(S, v).k = "variant" /\ Len(At(S, v).fs) = Len(x.fs)
    IN  IF ~fits THEN alloc_value(release(T, v), x)
        ELSE IF Range(At(S, v).fs) \subseteq {Empty}
        THEN own(Val(retain_all([T EXCEPT !.c[v.at].x = x], x.fs), v))
        ELSE Val(Bad(S, "reuse of a cell with live fields"), v)

-----------------------------------------------------------------------------
(* Copying a captured slice, for a resume that may not be the last. *)
\* One activation stays one in the copy: acc.seen maps those copied so far.
frame_copy_of(acc, id) ==
    LET S == acc.S
        fr == S.f[id]
        T == retain(retain_all([S EXCEPT !.f = (S.n :> [fr EXCEPT !.rc = 1]) @@ @, !.n = @ + 1], Owned(fr)), fr.clos)
    IN  IF id \in DOMAIN acc.seen
        THEN [acc EXCEPT !.S.f[acc.seen[id]].rc = @ + 1]
        ELSE [acc EXCEPT !.S = T, !.seen = (id :> S.n) @@ @]

\* A slot that holds a box gets a box of its own, since the return patches it.
kret_copy(acc, k) ==
    LET a == frame_copy_of(acc, k.frame)
        c == a.seen[k.frame]
        b == fresh_box(a.S)
        boxed == put(release(retain(b.S, b.v), Local_(b.S, c, k.slot)), c, k.slot, b.v)
    IN  [a EXCEPT !.S = IF Local_(@, c, k.slot) = Empty THEN @ ELSE boxed,
                  !.out = Append(@, [k EXCEPT !.frame = c])]

kframe_copy(acc, k) ==
    CASE k.k = "kret" -> kret_copy(acc, k)
      [] k.k = "kafter" ->
           [acc EXCEPT !.S = [resump_addref(@, k.res) EXCEPT !.r[k.res].bound = @ + 1], !.out = Append(@, k)]
      [] OTHER -> [acc EXCEPT !.S = retain_all(@, KVals(k)), !.out = Append(@, k)]

segment_copy(S, seg) == FoldLeft(kframe_copy, [S |-> S, seen |-> << >>, out |-> << >>], seg)
=============================================================================
