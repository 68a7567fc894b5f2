------------------------------ MODULE Samples ------------------------------
(* Programs that bring the passes and the engines into their corner cases.   *)
EXTENDS Core

G(x, t) == [x |-> <<x>>, t |-> t, ctx |-> FALSE]
Main(t) == <<G("main", t)>>
V(x) == Var(<<x>>)
F(x, e) == Lam(<<x>>, e)
L(x, v, e) == Let(<<x>>, TRUE, v, e)
P(x) == PVar(<<x>>)
Call2(f, a, b) == App(App(f, a), b)
Add(a, b) == bin("@iadd", a, b)
Dec(a) == bin("@isub", a, Num(1))
Two(a, b) == Tuple(<<a, b>>)
ConsOf(h, t) == Variant("Cons", <<h, t>>)
Nil == Variant("Nil", << >>)
List(ns) == FoldRight(LAMBDA n, t: ConsOf(Num(n), t), ns, Nil)
PCons(h, t) == PVariant("Cons", <<h, t>>)
PNil == PVariant("Nil", << >>)
Match1(s, arms) == Case(s, arms, None)
To(pat, e) == Arm(pat, None, e)
When(pat, g, e) == Arm(pat, g, e)
Emit(a) == App(Extern, a)
Then(a, e) == L("_", a, e)
Do(op) == App(V(op), Unit)
On(op, x, e) == Clause(<<op>>, <<x>>, e)
Ctl(e, clauses) == Handle(e, <<"k">>, clauses, None)
Resume_(a) == App(V("k"), a)
Zero(n, e, f) == Case(n, <<To(PLit(Num(0)), e)>>, f)

-----------------------------------------------------------------------------
(* Constructor reuse, borrowed parameters, vectors. *)
MapFn == G("map", F("f", F("xs", Match1(V("xs"),
          <<To(PNil, Nil),
            To(PCons(P("h"), P("t")), ConsOf(App(V("f"), V("h")), Call2(V("map"), V("f"), V("t"))))>>))))
IncFn == G("inc", F("n", Add(V("n"), Num(1))))
SumFn == G("sum", F("xs", Match1(V("xs"),
          <<To(PNil, Num(0)), To(PCons(P("h"), P("t")), Add(V("h"), App(V("sum"), V("t"))))>>)))

ReuseFresh == <<MapFn, IncFn, G("main", Call2(V("map"), V("inc"), List(<<1, 2>>)))>>
ReuseShared == <<MapFn, IncFn, G("xs", List(<<1, 2>>)), G("main", Two(Call2(V("map"), V("inc"), V("xs")), V("xs")))>>
ReuseLocal == <<MapFn, IncFn, SumFn,
    G("main", L("xs", List(<<1, 2>>), Two(App(V("sum"), V("xs")), Two(Call2(V("map"), V("inc"), V("xs")), V("xs")))))>>
Swap == <<G("main", L("p", ConsOf(Num(1), Nil),
            Match1(V("p"), <<To(PCons(P("h"), P("t")), Two(ConsOf(V("h"), ConsOf(V("h"), V("t"))), V("t"))),
                             To(PWild, Two(Nil, Nil))>>)))>>

Pushed(v, n) == Call2(V("@vec_push"), v, n)
Vectors == Main(L("a", Pushed(App(V("@vec_new"), Unit), Num(1)),
              L("b", Pushed(V("a"), Num(2)), L("c", Pushed(V("a"), Num(3)), Tuple(<<V("a"), V("b"), V("c")>>)))))
VectorChain == Main(L("a", Pushed(Pushed(App(V("@vec_new"), Unit), Num(1)), Num(2)),
                Two(App(V("@vec_len"), V("a")), Call2(V("@vec_get"), V("a"), Num(1)))))

\* A vector taken by a function, set there, and read again by the caller.
Call3(f, a, b, c) == App(Call2(f, a, b), c)
SetFn == G("set", F("v", Call3(V("@vec_set"), V("v"), Num(0), Num(9))))
VectorSet == <<SetFn, G("main", L("a", Pushed(Pushed(App(V("@vec_new"), Unit), Num(1)), Num(2)),
                 L("b", App(V("set"), V("a")), Two(V("a"), Call3(V("@vec_slice"), V("b"), Num(0), Num(1))))))>>
VectorEnd == Main(Call3(V("@vec_set"), Pushed(App(V("@vec_new"), Unit), Num(1)), Num(1), Num(2)))
Bytes == Main(L("s", Call2(V("@acat"), Str(<<1, 2>>), Str(<<3>>)),
              Two(Call2(V("@array_get"), V("s"), Num(2)), Call2(V("@array_get"), V("s"), Num(3)))))

(* Recursive closures. *)
LocalRec == Main(L("go", F("n", Zero(V("n"), Num(7), App(V("go"), Dec(V("n"))))), App(V("go"), Num(2))))
LocalRec2 == Main(L("go", F("x", F("n", Zero(V("n"), V("x"), Call2(V("go"), Add(V("x"), Num(2)), Dec(V("n")))))),
                    Call2(V("go"), Num(1), Num(2))))
\* The recursive function escapes inside a closure that reaches it weakly.
Behind == Main(L("mkf", F("u", L("go", F("n", Zero(V("n"), Num(5), App(F("m", App(V("go"), V("m"))), Dec(V("n"))))), V("go"))),
                 L("f", App(V("mkf"), Unit), Two(App(V("f"), Num(1)), App(V("f"), Num(2))))))
Partial == Main(L("g", L("go", F("x", F("n", Zero(V("n"), V("x"), Call2(V("go"), V("x"), Dec(V("n")))))), App(V("go"), Num(4))),
                  App(V("g"), Num(1))))

\* Only a closure inside the function refers to the function.
Through == Main(L("go", L("h", F("m", Zero(V("m"), Num(7), App(V("go"), Dec(V("m"))))), F("n", App(V("h"), V("n")))),
                  App(V("go"), Num(2))))

(* Globals and lazy slots. *)
Caf == <<G("a", Then(Emit(Num(1)), Num(10))), G("main", Add(V("a"), V("a")))>>
SelfGlobal == <<G("a", Add(V("a"), Num(1))), G("main", V("a"))>>
\* Two globals that need each other, through a third.
Cycle == <<G("a", V("b")), G("b", Two(Num(1), V("a"))), G("main", V("b"))>>
Delayed(e) == App(V("@delay"), F("_", e))
LazyOnce == Main(L("t", Delayed(Then(Emit(Num(1)), List(<<2>>))),
               L("hd", F("xs", Match1(V("xs"), <<To(PCons(P("h"), PWild), V("h")), To(PNil, Num(0))>>)),
                 Two(App(V("hd"), V("t")), App(V("hd"), V("t"))))))
FromFn == G("from", F("n", ConsOf(V("n"), Delayed(App(V("from"), Add(V("n"), Num(1)))))))
TakeFn == G("take", F("n", F("s", Zero(V("n"), Nil,
            Match1(V("s"), <<To(PCons(P("h"), P("t")), ConsOf(V("h"), Call2(V("take"), Dec(V("n")), V("t"))))>>)))))
Stream == <<FromFn, TakeFn, G("main", Call2(V("take"), Num(2), App(V("from"), Num(1))))>>
LazyEq == Main(bin("==", ConsOf(Num(1), Delayed(Then(Emit(Num(1)), Nil))), ConsOf(Num(1), Delayed(Then(Emit(Num(2)), Nil)))))
\* An effect in a lazy slot finds no handler outside the slot.
LazyEffect == Main(Ctl(Match1(Delayed(Do("ask")), <<To(PLit(Num(1)), Num(2)), To(PWild, Num(3))>>),
                       <<On("ask", "a", Resume_(Num(1)))>>))

-----------------------------------------------------------------------------
(* Handlers, continuations, cleanups. *)
Deferred(n, e) == Defer(Emit(Num(n)), e)
Once == Main(Ctl(Add(Do("ask"), Do("ask")), <<On("ask", "a", Resume_(Num(3)))>>))
Abort == Main(Ctl(Deferred(1, Deferred(2, Add(Do("stop"), Num(1)))), <<On("stop", "a", Then(Emit(Num(0)), Num(9)))>>))
Maybe(b) == Main(Ctl(Deferred(1, Add(Do("ask"), Deferred(2, Do("ask")))),
               <<On("ask", "a", Case(Bool(b), <<To(PLit(Bool(TRUE)), Resume_(Num(4)))>>, Num(5)))>>))
\* The clause decides by the argument: resume the first, discard the second.
Second == Main(Ctl(Deferred(1, Add(App(V("ask"), Num(1)), Deferred(2, App(V("ask"), Num(0))))),
             <<On("ask", "a", Zero(V("a"), Num(5), Resume_(Num(4))))>>))
Twice(e) == Main(Ctl(e, <<On("ask", "a", Two(Resume_(Num(1)), Resume_(Num(2))))>>))
TwoShot == Twice(L("x", Do("ask"), L("y", Add(V("x"), Num(1)), Two(V("x"), V("y")))))
TwoShotTwice == Twice(L("x", Do("ask"), L("y", Do("ask"), Two(V("x"), V("y")))))
TwoShotDefer == Twice(Deferred(1, L("x", Do("ask"), Then(Emit(V("x")), V("x")))))
\* A list of the body's activation is taken apart once per resume.
TwoShotList == <<MapFn, IncFn>> \o Twice(L("xs", List(<<1, 2>>), L("x", Do("ask"), ConsOf(V("x"), Call2(V("map"), V("inc"), V("xs"))))))
\* A cell emptied before the perform is the token of both copies.
TwoShotToken == Twice(L("xs", List(<<5>>), Match1(V("xs"),
                    <<To(PCons(P("h"), P("t")), L("x", Do("ask"), ConsOf(Add(V("h"), V("x")), V("t")))), To(PNil, Nil)>>)))
\* The handler body reads a variable of the enclosing function, per resume.
TwoShotOuter == Main(L("xs", List(<<1>>),
    Ctl(L("x", Do("ask"), Two(V("x"), V("xs"))), <<On("ask", "a", Two(Resume_(Num(1)), Resume_(Num(2))))>>)))
Escapes == Main(L("r", Ctl(Deferred(1, L("x", Do("ask"), F("u", V("x")))), <<On("ask", "a", V("k"))>>),
                  Then(Emit(Num(0)), App(App(V("r"), Num(6)), Unit))))
Stored == Main(L("r", Ctl(Deferred(1, Variant("Done", <<Do("ask")>>)), <<On("ask", "a", Variant("More", <<V("k")>>))>>),
                 Then(Emit(Num(0)), Match1(V("r"), <<To(PVariant("Done", <<P("d")>>), V("d")), To(PVariant("More", <<P("j")>>), Num(8))>>))))
\* Stored, then resumed twice from outside the handler.
StoredTwice == Main(L("r", Ctl(Deferred(1, Variant("Done", <<Do("ask")>>)), <<On("ask", "a", Variant("More", <<V("k")>>))>>),
                 Match1(V("r"), <<To(PVariant("Done", <<P("d")>>), Nil),
                                  To(PVariant("More", <<P("j")>>), Two(App(V("j"), Num(1)), App(V("j"), Num(2))))>>)))
Nested == Main(Ctl(Deferred(1, Ctl(Deferred(2, Add(Do("ask"), Do("stop"))), <<On("ask", "a", Add(Resume_(Num(1)), Num(10)))>>)),
                   <<On("stop", "b", Then(Emit(Num(3)), Num(7)))>>))
\* The outer clause resumes twice a slice with an inner clause boundary in it.
NestedTwice == Main(Ctl(Ctl(Deferred(1, Add(Do("ask"), Num(1))), <<On("ask", "a", Then(Emit(Num(4)), L("y", Do("flip"), Resume_(V("y")))))>>),
                   <<On("flip", "b", Two(Resume_(Num(1)), Resume_(Num(2))))>>))
NestedDrop == Main(Ctl(Ctl(Deferred(1, Add(Do("ask"), Num(1))), <<On("ask", "a", Zero(Do("flip"), Num(0), Resume_(Num(1))))>>),
                   <<On("flip", "b", Two(Resume_(Num(0)), Resume_(Num(1))))>>))
ValueClause == Main(Handle(Add(Do("ask"), Num(1)), <<"k">>, <<On("ask", "a", Resume_(Num(1)))>>,
                           [x |-> <<"r">>, e |-> Two(V("r"), V("r"))]))
CleanupPerforms == Main(Ctl(Then(Ctl(Defer(Do("tick"), Do("stop")), <<On("stop", "a", Num(1))>>), Num(2)),
                            <<On("tick", "a", Then(Emit(Num(5)), Resume_(Unit)))>>))
Unhandled == Main(Defer(Emit(Num(1)), Do("stop")))
\* A handler in a loop; the code after it runs in the same activation.
Loop == <<G("loop", F("n", Zero(V("n"), Nil,
            L("y", Ctl(Add(Do("ask"), V("n")), <<On("ask", "a", Resume_(Num(1)))>>), ConsOf(V("y"), App(V("loop"), Dec(V("n")))))))),
          G("main", App(V("loop"), Num(2)))>>
\* The body is resumed after code that follows the handler has run.
Late == Main(L("r", Ctl(L("a", Num(1), L("x", Do("ask"), Add(V("a"), V("x")))), <<On("ask", "a", V("k"))>>),
             L("p", Num(20), L("q", Num(30), Two(App(V("r"), Num(2)), Add(V("p"), V("q")))))))
\* The code after the handler reads last what the resumed body reads again.
LateOuter == Main(L("xs", List(<<1>>),
    L("r", Ctl(L("x", Do("ask"), Two(V("x"), V("xs"))), <<On("ask", "a", V("k"))>>),
      L("ys", ConsOf(Num(2), V("xs")), Two(V("ys"), App(V("r"), Num(3)))))))
\* A recursive function performs with its activations on the slice.
Deep_ == Main(Ctl(L("go", F("n", Zero(V("n"), Do("ask"), Add(V("n"), App(V("go"), Dec(V("n")))))), App(V("go"), Num(2))),
             <<On("ask", "a", Two(Resume_(Num(1)), Resume_(Num(2))))>>))
\* The continuation is passed to a function that drops it.
Passed == Main(L("drop", F("j", Num(3)), Ctl(Deferred(1, Do("ask")), <<On("ask", "a", Then(App(V("drop"), V("k")), Then(Emit(Num(2)), Num(4))))>>)))

-----------------------------------------------------------------------------
(* Records, byte strings, sequences, tensors, hooks. *)
Rec(a, b) == Struct(None, <<"a", "b">>, <<a, b>>)
Records == Main(L("r", Rec(Num(1), List(<<2>>)), L("s", Struct(V("r"), <<"a">>, <<Num(3)>>),
    Tuple(<<Field(V("r"), "a"), V("s"),
            Match1(V("s"), <<To(PStruct(<<"a">>, <<PLit(Num(1))>>, None), Nil),
                             To(PStruct(<<"a">>, <<P("x")>>, P("rest")), Two(V("x"), V("rest")))>>)>>))))
StringFn == G("f", F("s", Match1(V("s"),
    <<To(PLit(Str(<<1, 2>>)), Num(1)), To(PPrefix(<<1>>, FALSE, P("r")), V("r")),
      To(PPrefix(<<2>>, TRUE, P("r")), V("r")), To(PWild, Num(0))>>)))
Strings == {<<StringFn, G("main", App(V("f"), Str(s)))>> : s \in {<<1, 2>>, <<1, 3>>, <<1>>, <<3, 2>>, << >>}}
ViewFn == G("view", F("xs", Match1(V("xs"), <<To(PNil, Variant("Empty", << >>)),
                                            To(PCons(P("h"), P("t")), Variant("More", <<V("h"), V("t")>>))>>)))
SeqFns(back) == <<IF back
        THEN G("view", F("xs", Match1(V("xs"), <<To(PNil, Variant("Empty", << >>)),
                                                 To(PVariant("Snoc", <<P("t"), P("h")>>), Variant("More", <<V("h"), V("t")>>))>>)))
        ELSE ViewFn,
    G("f", F("s", Match1(V("s"),
       <<To(PSeqView(V("view"), back, << >>, None), Num(0)),
         To(PSeqView(V("view"), back, <<PLit(Num(1)), P("x")>>, None), V("x")),
         To(PSeqView(V("view"), back, <<P("x")>>, P("r")), Two(V("x"), V("r")))>>)))>>
SnocList(ns) == FoldLeft(LAMBDA t, n: Variant("Snoc", <<t, Num(n)>>), Nil, ns)
Sequences_ == {SeqFns(FALSE) \o Main(App(V("f"), List(s))) : s \in {<< >>, <<1, 2>>, <<2, 1>>, <<1>>}}
              \cup {SeqFns(TRUE) \o Main(App(V("f"), SnocList(s))) : s \in {<< >>, <<1, 2>>, <<2, 1>>}}
Tensor == Main(Match1(Pushed(Pushed(Pushed(App(V("@vec_new"), Unit), Num(1)), Num(2)), Num(3)),
    <<To(PTensor(3, <<PLit(Num(2))>>, PWild, << >>), Num(0)),
      To(PTensor(3, <<P("a")>>, P("m"), <<P("b")>>), Tuple(<<V("a"), V("m"), V("b")>>))>>))
Hook == <<G("f", F("n", Match1(V("n"), <<To(PHookEq(V("=="), Num(2)), Num(20)), To(PRange(Num(1), None), Num(10)), To(PWild, Num(0))>>))),
          G("main", Tuple(<<App(V("f"), Num(2)), App(V("f"), Num(1)), App(V("f"), Num(0))>>))>>
\* An arm binds a name that a later arm reads from outside.
Outside == <<G("f", F("x", F("v", Match1(V("v"),
               <<To(PTuple(<<P("x"), PCons(PLit(Num(1)), PWild)>>), V("x")), To(PWild, V("x"))>>)))),
             G("main", Two(Call2(V("f"), Num(8), Two(Num(1), List(<<1>>))), Call2(V("f"), Num(8), Two(Num(1), List(<<2>>)))))>>

\* What is applied is no function.
NotFunction == Main(App(Num(1), Num(2)))

HandPrograms ==
    {NotFunction, ReuseFresh, ReuseShared, ReuseLocal, Swap, Vectors, VectorChain, VectorSet, VectorEnd, Bytes, LocalRec, LocalRec2, Behind, Partial, Through, Caf,
     SelfGlobal, Cycle, LazyOnce, Stream, LazyEq, LazyEffect, Once, Abort, Maybe(TRUE), Maybe(FALSE), Second,
     TwoShot, TwoShotTwice, TwoShotDefer, TwoShotList, TwoShotToken, TwoShotOuter, Escapes, Stored, StoredTwice,
     Nested, NestedTwice, NestedDrop, ValueClause, CleanupPerforms, Unhandled, Loop, Late, LateOuter, Deep_, Passed,
     Records, Tensor, Hook, Outside} \cup Strings \cup Sequences_

-----------------------------------------------------------------------------
(* A library of interfaces, their instances and functions over them. *)
Lib(x, t) == [x |-> <<"LIB", x>>, t |-> t, ctx |-> FALSE]
Use(x, t) == [x |-> <<"LIB", x>>, t |-> t, ctx |-> TRUE]
Q(x) == Var(<<"LIB", x>>)
Of(d, l) == Field(d, l)
Num2(l, m, a, b) == Struct(None, <<l, m>>, <<a, b>>)
AddInt == Lib("add_int", Num2("add", "zero", F("a", F("b", Add(V("a"), V("b")))), Num(0)))
OrdInt == Lib("ord_int", Num2("lt", "le", F("a", F("b", bin("@ilt", V("a"), V("b")))),
                              F("a", F("b", App(V("not"), bin("@ilt", V("b"), V("a")))))))
\* Pairs add and compare by their first component's instance.
AddPair == Use("add_pair", F("d", Num2("add", "zero",
    F("p", F("q", Match1(Two(V("p"), V("q")),
        <<To(PTuple(<<PTuple(<<P("a"), P("b")>>), PTuple(<<P("x"), P("y")>>)>>),
             Two(Call2(Of(V("d"), "add"), V("a"), V("x")), Call2(Of(V("d"), "add"), V("b"), V("y"))))>>))),
    Two(Of(V("d"), "zero"), Of(V("d"), "zero")))))
Ge == Use("ge", F("d", F("a", F("b", App(V("not"), Call2(Of(V("d"), "lt"), V("a"), V("b")))))))
Gt == Use("gt", F("d", F("a", F("b", Call2(Of(V("d"), "lt"), V("b"), V("a"))))))
SumOf == Use("sum", F("d", F("xs", Match1(V("xs"),
    <<To(PNil, Of(V("d"), "zero")),
      To(PCons(P("h"), P("t")), Call2(Of(V("d"), "add"), V("h"), Call2(Q("sum"), V("d"), V("t"))))>>))))
\* Its context is a bundle of two instances.
Clamp == Use("clamp", F("c", F("x", F("y", Case(Call2(Of(Of(V("c"), 1), "lt"), V("x"), V("y")),
    <<To(PLit(Bool(TRUE)), V("y"))>>, Call2(Of(Of(V("c"), 0), "add"), V("x"), V("y")))))))
\* A parameter of the context's name hides it.
Hides == Use("hides", F("d", F("d", Case(V("d"), <<To(P("d"), Two(V("d"), V("d")))>>, None))))
\* Every call makes a larger instance.
Grows == Use("grows", F("d", F("n", Zero(V("n"), Of(V("d"), "zero"), Call2(Q("grows"), App(Q("add_pair"), V("d")), Dec(V("n")))))))
\* Applying this function to its context is an effect, not a value.
Effect == Use("effect", F("d", Then(Emit(Of(V("d"), "zero")), F("x", V("x")))))
Interfaces == <<AddInt, OrdInt, AddPair, Ge, Gt, SumOf, Clamp, Hides, Grows, Effect>>
WithLib(t) == Append(Interfaces, G("main", t))

Ai == Q("add_int")
Oi == Q("ord_int")
Steps(n) == Then(Emit(Num(n)), Num(n))
LibPrograms == {WithLib(t) : t \in {
    Two(Call2(Q("sum"), Ai, List(<<1, 2>>)), Call2(Of(Ai, "add"), Num(3), Num(4))),
    Call2(Q("sum"), App(Q("add_pair"), Ai), ConsOf(Two(Num(1), Num(2)), Nil)),
    Two(Call3(Q("ge"), Oi, Num(1), Num(2)), Call3(Q("ge"), Oi, Steps(2), Steps(1))),
    Two(Call3(Q("gt"), Oi, Num(1), Num(2)), Call3(Q("gt"), Oi, Steps(2), Num(1))),
    Call3(Q("gt"), Oi, Steps(2), Steps(1)),
    Tuple(<<Call2(Of(Oi, "le"), Num(1), Steps(1)), Call2(Of(Oi, "le"), Steps(2), Steps(1))>>),
    Two(Call3(Q("clamp"), Two(Ai, Oi), Num(1), Num(2)), Call3(Q("clamp"), Two(Ai, Oi), Num(2), Num(2))),
    L("f", App(Q("clamp"), Two(Ai, Oi)), Two(Call2(V("f"), Num(1), Num(5)), Of(Two(Ai, Steps(1)), 1))),
    Call2(Q("hides"), Ai, Num(3)),
    Two(Call2(Q("grows"), Ai, Num(1)), Call2(Q("grows"), Ai, Num(0))),
    Two(Call2(Q("effect"), Ai, Num(1)), Call2(Q("effect"), Ai, Num(2))),
    L("add", Of(Ai, "add"), L("one", App(V("add"), Num(1)), Two(App(V("one"), Num(2)), App(Of(Ai, "add"), Num(3))))),
    L("d", App(Q("add_pair"), Ai), Two(Of(V("d"), "zero"), Call2(Q("sum"), V("d"), Nil)))}}

-----------------------------------------------------------------------------
(* Every match of two arms over a pair of a list and a number. *)
ListPats == {PWild, P("t"), PNil, PCons(P("h"), PWild), PCons(PLit(Num(1)), P("t"))}
NumPats == {PWild, P("n"), PLit(Num(1)), PRange(Num(2), Num(3))}
PairPats == {PTuple(<<l, n>>) : l \in ListPats, n \in NumPats}
Guards(pat) == {None} \cup (IF <<"n">> \in Range(binders(pat)) THEN {bin(">=", V("n"), Num(2))} ELSE {})
Body(i, pat) == Tuple(<<Num(i)>> \o [j \in DOMAIN binders(pat) |-> Var(binders(pat)[j])])
Arms(i) == UNION {{Arm(p, g, Body(i, p)) : g \in Guards(p)} : p \in PairPats}
Values_ == <<Two(Nil, Num(1)), Two(List(<<1>>), Num(2)), Two(List(<<2>>), Num(1)), Two(List(<<1, 2>>), Num(4))>>
MatchPrograms ==
    {<<G("f", F("v", Match1(V("v"), <<a, b, To(PWild, Num(0))>>))),
       G("main", Tuple([i \in DOMAIN Values_ |-> App(V("f"), Values_[i])]))>> : a \in Arms(1), b \in Arms(2)}
=============================================================================
