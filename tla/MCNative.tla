------------------------------ MODULE MCNative ------------------------------
(* The programs that are compiled to C: those of the interpreter's runs and *)
(* more about functions that become C functions.                            *)
EXTENDS NativeCompiler, Passes, Meaning, Samples

(* Functions that become C functions, and their calls from either side. *)
Out == G("emit", Extern)
Len_ == G("len", F("acc", F("xs", Match1(V("xs"),
          <<To(PNil, V("acc")), To(PCons(PWild, P("t")), Call2(V("len"), Add(V("acc"), Num(1)), V("t")))>>))))
Rev == G("rev", F("acc", F("xs", Match1(V("xs"),
          <<To(PNil, V("acc")), To(PCons(P("h"), P("t")), Call2(V("rev"), ConsOf(V("h"), V("acc")), V("t")))>>))))
Cat == G("cat", F("xs", F("ys", Match1(V("xs"),
          <<To(PNil, V("ys")), To(PCons(P("h"), P("t")), ConsOf(V("h"), Call2(V("cat"), V("t"), V("ys"))))>>))))
Even == G("even", F("n", Zero(V("n"), Bool(TRUE), App(V("odd"), Dec(V("n"))))))
Odd == G("odd", F("n", Zero(V("n"), Bool(FALSE), App(V("even"), Dec(V("n"))))))
Add3 == G("add3", F("a", F("b", F("c", Tuple(<<V("a"), V("b"), V("c")>>)))))
Each_ == G("each", F("xs", Match1(V("xs"),
          <<To(PNil, Unit), To(PCons(P("h"), P("t")), Then(App(V("emit"), V("h")), App(V("each"), V("t"))))>>)))
Fill == G("fill", F("v", F("n", Zero(V("n"), V("v"), Call2(V("fill"), Pushed(V("v"), V("n")), Dec(V("n")))))))

Tails == <<Len_, Rev, G("main", L("xs", List(<<1, 2, 3>>), Two(Call2(V("len"), Num(0), V("xs")), Call2(V("rev"), Nil, V("xs")))))>>
CatShared == <<Cat, G("main", L("xs", List(<<1, 2>>), Two(Call2(V("cat"), V("xs"), V("xs")), V("xs"))))>>
CatFresh == <<Cat, G("main", Call2(V("cat"), List(<<1, 2>>), List(<<3>>)))>>
Mutual == <<Even, Odd, G("main", Two(App(V("even"), Num(3)), App(V("odd"), Num(3))))>>
PartialKnown == <<Add3, G("main", L("f", Call2(V("add3"), List(<<1>>), List(<<2>>)), Two(App(V("f"), Num(3)), App(V("f"), Nil))))>>
Curried == <<Add3, G("twice", F("g", F("x", Two(App(V("g"), V("x")), App(V("g"), V("x")))))),
             G("main", Call2(V("twice"), Call2(V("add3"), List(<<1>>), Nil), List(<<4>>)))>>
Outs == <<Out, Each_, G("main", App(V("each"), List(<<1, 2>>)))>>
FillVec == <<Fill, G("main", L("v", Call2(V("fill"), App(V("@vec_new"), Unit), Num(2)),
               Two(Call2(V("fill"), V("v"), Num(1)), V("v"))))>>
\* A C function's case forces a lazy slot, whose run finds no handler outside.
ForceInDirect == <<SumFn, G("main", Ctl(App(V("sum"), ConsOf(Num(1), Delayed(Do("ask")))),
                                    <<On("ask", "a", Resume_(Nil))>>))>>
ForceList == <<SumFn, FromFn, G("main", App(V("sum"), ConsOf(Num(1), Delayed(Then(Emit(Num(7)), List(<<2>>))))))>>
\* C functions around a performing one, resumed twice.
Ask == G("ask2", F("xs", Match1(V("xs"), <<To(PNil, Num(0)),
          To(PCons(P("h"), P("t")), Add(App(V("ask"), V("h")), App(V("ask2"), V("t"))))>>)))
AskTwice == <<SumFn, Ask, G("main", Ctl(L("xs", List(<<1, 2>>), Two(App(V("ask2"), V("xs")), App(V("sum"), V("xs")))),
                                    <<On("ask", "a", Two(Resume_(V("a")), Resume_(Num(5))))>>))>>
\* A parameter that is only read, lent by its callers.
Peek == G("peek", F("xs", Match1(V("xs"), <<To(PNil, Do("ask")), To(PCons(P("h"), PWild), Add(V("h"), Do("ask")))>>)))
Lent == <<Peek, G("main", Ctl(L("xs", List(<<1, 2>>), Two(App(V("peek"), V("xs")), Two(App(V("peek"), V("xs")), V("xs")))),
                          <<On("ask", "a", Two(Resume_(Num(1)), Resume_(Num(2))))>>))>>
LentTail == <<Peek, G("both", F("xs", Then(App(V("peek"), V("xs")), App(V("peek"), V("xs"))))),
              G("main", L("xs", List(<<3>>), Ctl(Two(App(V("both"), V("xs")), App(V("both"), List(<<4>>))), <<On("ask", "a", Resume_(Num(1)))>>)))>>
LentGlobal == <<Peek, G("xs", List(<<3>>)), G("tail", F("u", App(V("peek"), V("xs")))),
                G("main", Ctl(Two(App(V("tail"), Unit), V("xs")), <<On("ask", "a", Resume_(Num(1)))>>))>>
\* A record updated and read in a C function.
Move_ == G("shift", F("r", L("s", Struct(V("r"), <<"a">>, <<Add(Field(V("r"), "a"), Num(1))>>), Two(Field(V("s"), "a"), V("s")))))
Shift == <<Move_, G("main", L("r", Rec(Num(1), List(<<2>>)), Two(App(V("shift"), V("r")), V("r"))))>>
\* An argument applied to more than its function's parameters.
Over == <<G("const", F("a", F("b", V("a")))), IncFn, G("main", App(Call2(V("const"), V("inc"), List(<<9>>)), Num(1)))>>
\* A C function fails under two others.
Fails == <<G("third", F("v", Call2(V("@vec_get"), V("v"), Num(2)))), G("wrap", F("v", Two(App(V("third"), V("v")), V("v")))),
           G("main", App(V("wrap"), Pushed(App(V("@vec_new"), Unit), Num(1))))>>
NotAll == <<G("hd", F("xs", Match1(V("xs"), <<To(PCons(P("h"), PWild), V("h"))>>))), G("main", Add(App(V("hd"), List(<<1>>)), App(V("hd"), Nil)))>>

DirectPrograms ==
    {Tails, CatShared, CatFresh, Mutual, PartialKnown, Curried, Outs, FillVec, ForceInDirect, ForceList, AskTwice,
     Lent, LentTail, LentGlobal, Shift, Over, Fails, NotAll}

\* LazyEq is below, among the programs that the code gets wrong; Native has no
\* tensors.
MCPrograms == (HandPrograms \ {LazyEq, Tensor}) \cup DirectPrograms \cup MatchPrograms

-----------------------------------------------------------------------------
(* Programs that the code gets wrong. *)
\* value_eq forces no lazy slot: lists that are equal once forced are not equal.
MCLazyEq == {LazyEq}

\* f p = let r = defer emit 1 do g p in (r, g p), where g may perform.
MCDefer == {<<G("g", F("xs", Match1(V("xs"), <<To(PNil, Num(0)), To(PCons(PWild, PWild), Do("tick"))>>))),
              G("f", F("p", L("r", Deferred(1, App(V("g"), V("p"))), Two(V("r"), App(V("g"), V("p")))))),
              G("main", Ctl(App(V("f"), List(<<1>>)), <<On("tick", "a", Resume_(Num(2)))>>))>>}

\* f never reads its first argument, and the C stack is full when it is called.
MCRoom == {<<G("f", F("x", F("y", V("y")))), G("g", F("n", Add(Call2(V("f"), List(<<1>>), V("n")), Num(1)))),
             G("main", App(V("g"), Num(2)))>>}
=============================================================================
