--------------------------- MODULE SurfaceSamples ---------------------------
(* Surface programs that use each typing and desugaring rule.               *)
EXTENDS Declarations

Source(structs, unions, effects, defs) == [structs |-> structs, unions |-> unions, effects |-> effects, defs |-> defs]
Plain(defs) == Source(<< >>, << >>, << >>, defs)
D(x, sig, e) == Def(<<x>>, sig, e)
MainIs(sig, e) == Plain(<<D("main", sig, e)>>)
V(x) == Var(<<x>>)
P(x) == PVar(<<x>>)
Fn(xs, e) == Fun(Each(LAMBDA x: LamParam(P(x), None), xs), e)
FnP(p, e) == Fun(<<LamParam(p, None)>>, e)
L(x, v, e) == LetIn(P(x), None, v, e)
Call2(f, a, b) == App(App(f, a), b)
Add(a, b) == bin("@iadd", a, b)
Dec(a) == bin("@isub", a, Num(1))
Two(a, b) == Tuple(<<a, b>>)
To(p, e) == SArm(<<p>>, None, e)
When(p, g, e) == SArm(<<p>>, g, e)
A == TName("a")
B == TName("b")
Pair(s, t) == TTuple(<<s, t>>)
Fields(fs) == TRecord(row_of(fs, RowEmpty))
Open(fs) == TRecord(row_of(fs, TName("r")))
Named(l, e) == FieldInit(l, e)
Pos(e) == FieldInit("", e)
Rec(fs) == Record(fs, None, None)
Emitter == D("emit", arrow(IntTy, UnitTy), Extern)
Emit(e) == App(V("emit"), e)

-----------------------------------------------------------------------------
(* Polymorphism, levels and literals. *)
Id == D("id", arrow(A, A), Fn(<<"x">>, V("x")))
Identity == Plain(<<Id, D("main", Pair(IntTy, BoolTy), Two(App(V("id"), Num(1)), App(V("id"), Bool(TRUE))))>>)
LetPoly == MainIs(Pair(IntTy, BoolTy), L("f", Fn(<<"x">>, V("x")), Two(App(V("f"), Num(1)), App(V("f"), Bool(TRUE)))))
\* What a parameter returns has one type, however it is let-bound.
Escaping == MainIs(Pair(IntTy, IntTy),
    App(Fn(<<"x">>, L("y", App(V("x"), Unit), Two(App(V("y"), Num(1)), Add(V("y"), Num(1))))), FnP(PWild, Num(5))))
Outer == MainIs(Pair(IntTy, BoolTy),
    App(Fn(<<"x">>, L("y", V("x"), Two(Add(V("y"), Num(1)), If(V("y"), Bool(TRUE), Bool(FALSE))))), Num(1)))
LiteralLet == MainIs(Pair(Con("@Int8"), Con("@Int8")), L("n", Num(127), Two(V("n"), V("n"))))
LiteralWide == MainIs(Con("@Int8"), Num(128))
LocalLoop == MainIs(IntTy, L("go", Fn(<<"n">>, If(bin("==", V("n"), Num(0)), Num(7), App(V("go"), Dec(V("n"))))), App(V("go"), Num(2))))
Mutual == Plain(<<D("even", arrow(IntTy, BoolTy), Fn(<<"n">>, If(bin("==", V("n"), Num(0)), Bool(TRUE), App(V("odd"), Dec(V("n")))))),
                  D("odd", arrow(IntTy, BoolTy), Fn(<<"n">>, If(bin("==", V("n"), Num(0)), Bool(FALSE), App(V("even"), Dec(V("n")))))),
                  D("main", BoolTy, App(V("even"), Num(1)))>>)
NotRigid == Plain(<<D("bad", arrow(A, A), Fn(<<"x">>, Add(V("x"), Num(1)))), D("main", BoolTy, App(V("bad"), Bool(TRUE)))>>)
NotApart == Plain(<<D("bad", arrow(A, arrow(B, B)), Fn(<<"x", "y">>, V("x"))), D("main", BoolTy, Call2(V("bad"), Num(1), Bool(TRUE)))>>)
Annotated == MainIs(Pair(IntTy, BoolTy), LetIn(P("f"), arrow(A, A), Fn(<<"x">>, V("x")), Two(App(V("f"), Ascribe(Num(1), IntTy)), App(V("f"), Bool(TRUE)))))
Pipes == MainIs(IntTy, BinOp("|>", BinOp("<|", Fn(<<"x">>, Add(V("x"), Num(1))), Num(1)), Fn(<<"y">>, Add(V("y"), V("y")))))

(* Records, tuples, structs. *)
GetX == D("getx", arrow(Open(<<FieldDecl("x", IntTy)>>), IntTy), Fn(<<"p">>, Field(V("p"), "x")))
RowPoly == Plain(<<GetX, D("main", IntTy, App(V("getx"), Rec(<<Named("y", Bool(TRUE)), Named("x", Num(3))>>)))>>)
WH == Fields(<<FieldDecl("w", IntTy), FieldDecl("h", IntTy)>>)
Area == D("area", arrow(WH, IntTy), Add(V("w"), V("h")))
Promoted(e) == Plain(<<Area, D("main", IntTy, e)>>)
Promotions == {Promoted(App(V("area"), Two(Num(1), Num(2)))), Promoted(L("t", Two(Num(1), Num(2)), App(V("area"), V("t")))),
               Promoted(App(V("area"), Rec(<<Named("h", Num(1)), Named("w", Num(2))>>))), Promoted(App(V("area"), Num(1))),
               Promoted(App(V("area"), Two(Num(1), Bool(TRUE)))),
               Plain(<<D("one", arrow(Fields(<<FieldDecl("w", IntTy)>>), IntTy), V("w")), D("main", IntTy, App(V("one"), Num(4)))>>)}
\* Sugar for the first parameter, a lambda for the second.
Scaled == Plain(<<D("scale", arrow(WH, arrow(IntTy, IntTy)), Fn(<<"k">>, Add(V("k"), V("w")))),
                  D("main", IntTy, Call2(V("scale"), Rec(<<Named("w", Num(1)), Named("h", Num(2))>>), Num(3)))>>)
Thunk == Plain(<<D("later", arrow(UnitTy, IntTy), Num(3)), D("main", IntTy, App(V("later"), Unit))>>)
Pt == StructDecl("Pt", << >>, <<FieldDecl("x", IntTy), FieldDecl("ok", BoolTy)>>)
Box == StructDecl("Box", <<"a">>, <<FieldDecl("it", A)>>)
WithStructs(sig, e) == Source(<<Box, Pt>>, << >>, << >>, <<D("main", sig, e)>>)
PtLit == StructLit("Pt", <<Named("ok", Bool(TRUE)), Named("x", Num(1))>>, None)
BoxOf(e) == StructLit("Box", <<Pos(e)>>, None)
BoxTy(t) == TApp(Con("Box"), t)
Structs == {WithStructs(Con("Pt"), PtLit), WithStructs(Con("Pt"), StructLit("", <<Pos(Num(2)), Pos(Bool(FALSE))>>, None)),
            WithStructs(Con("Pt"), Rec(<<Named("ok", Bool(TRUE)), Named("x", Num(1))>>)),
            WithStructs(Con("Pt"), StructLit("", <<Named("x", Num(9))>>, PtLit)),
            WithStructs(Con("Pt"), StructLit("", <<Named("x", Bool(TRUE))>>, PtLit)),
            WithStructs(Pair(IntTy, BoolTy), With(PtLit, Two(V("x"), V("ok")))),
            WithStructs(Pair(BoxTy(IntTy), BoxTy(BoolTy)), Two(BoxOf(Num(1)), BoxOf(Bool(TRUE)))),
            WithStructs(BoxTy(BoxTy(IntTy)), StructLit("", <<Named("it", StructLit("", <<Named("it", Num(1))>>, None))>>, None)),
            WithStructs(IntTy, SMatch(PtLit, <<To(SPStruct("Pt", <<FieldPat("ok", PLit(Bool(FALSE)))>>), Num(0)),
                                               To(SPStruct("Pt", <<FieldPat("x", None)>>), V("x"))>>)),
            WithStructs(Fields(<<FieldDecl("x", IntTy), FieldDecl("ok", BoolTy), FieldDecl("z", UnitTy)>>),
                        Record(<<Named("z", Unit)>>, PtLit, None)),
            WithStructs(Pair(IntTy, Fields(<<FieldDecl("b", BoolTy)>>)),
                        LetIn(SPRecord(<<FieldPat("a", P("n"))>>, P("rest")), None, Rec(<<Named("a", Num(1)), Named("b", Bool(TRUE))>>),
                              Two(V("n"), V("rest")))),
            WithStructs(WH, Record(<<Named("w", Num(5))>>, None, Rec(<<Named("w", Num(1)), Named("h", Num(2))>>))),
            WithStructs(WH, Record(<<Named("w", Bool(TRUE))>>, None, Rec(<<Named("w", Num(1)), Named("h", Num(2))>>)))}
Scoped == Source(<<Pt>>, << >>, << >>,
    <<D("f", arrow(TRecord(WithField("p", Con("Pt"), RowEmpty)), IntTy), Add(V("x"), Field(V("p"), "x"))),
      D("main", IntTy, App(V("f"), Rec(<<Named("p", PtLit)>>)))>>)

-----------------------------------------------------------------------------
(* Unions, matches, lazy slots. *)
ListTy(t) == TApp(Con("List"), t)
ListDecl == UnionDecl("List", <<"a">>, <<VariantDecl("Nil", << >>), VariantDecl("Cons", <<FieldDecl("", A), FieldDecl("", ListTy(A))>>)>>)
Shape == UnionDecl("Shape", << >>, <<VariantDecl("Dot", << >>), VariantDecl("Rect", <<FieldDecl("w", IntTy), FieldDecl("flat", BoolTy)>>)>>)
Nil == VariantLit("", "Nil", << >>)
ConsOf(h, t) == VariantLit("", "Cons", <<Pos(h), Pos(t)>>)
PNil == SPVariant("", "Nil", << >>)
PCons(h, t) == SPVariant("", "Cons", <<FieldPat("", h), FieldPat("", t)>>)
WithUnions(defs) == Source(<< >>, <<ListDecl, Shape>>, << >>, defs)
From == D("from", arrow(IntTy, ListTy(IntTy)), Fn(<<"n">>, ConsOf(V("n"), App(V("from"), Add(V("n"), Num(1))))))
Second == D("second", arrow(ListTy(A), arrow(A, A)), Fn(<<"xs", "d">>,
            SMatch(V("xs"), <<To(PCons(PWild, PCons(P("y"), PWild)), V("y")), SArm(<<PNil, PCons(PWild, PNil)>>, None, V("d"))>>)))
Streams == {WithUnions(<<From, Second, D("main", IntTy, Call2(V("second"), App(V("from"), Num(1)), Num(0)))>>),
            WithUnions(<<Second, D("main", BoolTy, Call2(V("second"), ConsOf(Bool(TRUE), Nil), Bool(FALSE)))>>),
            WithUnions(<<D("main", ListTy(BoolTy), ConsOf(Bool(TRUE), ConsOf(Num(1), Nil)))>>),
            WithUnions(<<D("main", ListTy(BoolTy), ConsOf(Bool(TRUE), ConsOf(Bool(FALSE), Nil)))>>)}
RectLit(fs) == VariantLit("Shape", "Rect", fs)
PRect(fs) == SPVariant("Shape", "Rect", fs)
PDot == SPVariant("Shape", "Dot", << >>)
Width(pats) == D("width", arrow(Con("Shape"), IntTy), Fn(<<"s">>, SMatch(V("s"), pats)))
WidthMain(pats) == WithUnions(<<Width(pats), D("main", IntTy, App(V("width"), RectLit(<<Named("flat", Bool(TRUE)), Named("w", Num(4))>>)))>>)
Shapes == {WidthMain(<<To(PDot, Num(0)), To(PRect(<<FieldPat("w", P("n"))>>), V("n"))>>),
           WidthMain(<<To(PDot, Num(0)), To(PRect(<<FieldPat("flat", PLit(Bool(FALSE)))>>), Num(1)), To(PRect(<<FieldPat("w", None)>>), V("w"))>>),
           WidthMain(<<To(PDot, Num(0)), To(PRect(<<FieldPat("flat", PLit(Bool(FALSE)))>>), Num(1))>>),
           WidthMain(<<To(PDot, Num(0)), When(PRect(<<FieldPat("", P("n"))>>), bin("<=", V("n"), Num(3)), V("n")), To(PWild, Num(2))>>),
           WidthMain(<<To(PDot, Num(0)), When(PRect(<<FieldPat("", P("n"))>>), bin("<=", V("n"), Num(3)), V("n"))>>),
           WithUnions(<<D("main", Con("Shape"), RectLit(<<Named("w", Num(1))>>))>>)}
Ranges(pats) == Plain(<<D("f", arrow(Con("@Nat8"), IntTy), Fn(<<"n">>, SMatch(V("n"), pats))), D("main", IntTy, App(V("f"), Num(255)))>>)
Bytes == {Ranges(<<To(PRange(Num(0), Num(9)), Num(1)), To(PRange(Num(10), None), Num(2))>>),
          Ranges(<<To(PRange(Num(0), Num(9)), Num(1)), To(PRange(Num(10), Num(254)), Num(2))>>),
          Ranges(<<To(PLit(Num(256)), Num(1)), To(PWild, Num(2))>>)}

-----------------------------------------------------------------------------
(* Effects. *)
Ask == EffectDecl("Ask", << >>, <<OpDecl(<<"ask">>, arrow(UnitTy, IntTy))>>)
State == EffectDecl("State", <<"s">>, <<OpDecl(<<"get">>, arrow(UnitTy, TName("s"))), OpDecl(<<"put">>, arrow(TName("s"), UnitTy))>>)
Exn == EffectDecl("Exn", << >>, <<OpDecl(<<"throw">>, arrow(IntTy, A))>>)
WithEffects(defs) == Source(<< >>, <<ListDecl>>, <<Ask, State, Exn>>, defs)
Do(op) == App(V(op), Unit)
On(op, x, e) == SClause("", <<op>>, <<x>>, e)
Ctl(e, clauses) == HandleE(e, <<"k">>, clauses, None)
Resume(e) == App(V("k"), e)
Row(l, args, rest) == RowExtend(l, args, rest)
AskTwice == D("twice", arrow_eff(UnitTy, IntTy, Row("Ask", RowEmpty, RowEmpty)), Add(Do("ask"), Do("ask")))
Effectful == {
    WithEffects(<<AskTwice, D("main", IntTy, Ctl(App(V("twice"), Unit), <<On("ask", "u", Resume(Num(2)))>>))>>),
    WithEffects(<<D("main", Pair(IntTy, BoolTy), HandleE(Do("ask"), <<"k">>, <<On("ask", "u", Resume(Num(2)))>>,
                                                        [x |-> <<"v">>, e |-> Two(V("v"), Bool(TRUE))]))>>),
    WithEffects(<<AskTwice, D("main", IntTy, App(V("twice"), Unit))>>),
    WithEffects(<<D("pure", arrow(UnitTy, IntTy), Do("ask")), D("main", IntTy, Ctl(App(V("pure"), Unit), <<On("ask", "u", Num(1))>>))>>),
    WithEffects(<<D("main", BoolTy, Ctl(If(App(V("throw"), Num(1)), Add(App(V("throw"), Num(2)), Num(1)) , Num(3)) , <<On("throw", "m", Bool(FALSE))>>))>>),
    WithEffects(<<D("main", IntTy, Ctl(If(App(V("throw"), Num(1)), Add(App(V("throw"), Num(2)), Num(1)) , Num(3)) , <<On("throw", "m", V("m"))>>))>>),
    WithEffects(<<D("main", IntTy, Ctl(If(App(V("throw"), Num(1)), Num(2), Num(3)), <<On("throw", "m", Resume(V("m")))>>))>>),
    WithEffects(<<D("main", BoolTy, Ctl(BinOp(";", App(V("put"), Bool(TRUE)), Do("get")), <<On("put", "s", Resume(Unit)), On("get", "u", Resume(Bool(FALSE)))>>))>>),
    WithEffects(<<D("main", IntTy, Ctl(BinOp(";", App(V("put"), Bool(TRUE)), Do("get")), <<On("put", "s", Resume(Unit)), On("get", "u", Resume(Num(0)))>>))>>),
    \* The clause performs again what it handles: the outer handler's.
    WithEffects(<<D("main", IntTy, Ctl(Ctl(Do("ask"), <<On("ask", "u", Resume(Do("ask")))>>), <<On("ask", "u", Resume(Num(5)))>>))>>),
    \* A function that runs its argument performs what that performs.
    WithEffects(<<D("run", arrow(arrow_eff(UnitTy, A, TName("e")), arrow_eff(UnitTy, A, TName("e"))), Fn(<<"f", "u">>, App(V("f"), Unit))),
                  D("main", IntTy, Ctl(Call2(V("run"), FnP(PWild, Do("ask")), Unit), <<On("ask", "u", Resume(Num(4)))>>))>>),
    WithEffects(<<D("run", arrow(arrow_eff(UnitTy, A, TName("e")), arrow_eff(UnitTy, A, TName("e"))), Fn(<<"f", "u">>, App(V("f"), Unit))),
                  D("main", IntTy, Call2(V("run"), FnP(PWild, Do("ask")), Unit))>>),
    WithEffects(<<Emitter, D("main", IntTy, Ctl(Defer(Emit(Num(1)), Add(Do("ask"), App(V("throw"), Num(3)))),
                                               <<On("ask", "u", Resume(Num(2))), On("throw", "m", V("m"))>>))>>)}

-----------------------------------------------------------------------------
(* Programs that the code gets wrong. *)
\* Shape.Rect.{ .w = 1, True }
MixedPayload == WithUnions(<<D("main", Con("Shape"), RectLit(<<Named("w", Num(1)), Pos(Bool(TRUE))>>))>>)
\* f : {w : @Int, h : @Int} -> @Int -> @Int = \{.w = a, .h = b} c => a + c
PatternParams == Plain(<<D("f", arrow(WH, arrow(IntTy, IntTy)),
                         Fun(<<LamParam(SPRecord(<<FieldPat("w", P("a")), FieldPat("h", P("b"))>>, None), None), LamParam(P("c"), None)>>,
                             Add(V("a"), V("c")))),
                       D("main", IntTy, Call2(V("f"), Rec(<<Named("w", Num(1)), Named("h", Num(2))>>), Num(3)))>>)
\* .{ .w = True | r }, r being an anonymous record
SpreadRecord == MainIs(WH, L("r", Rec(<<Named("w", Num(1)), Named("h", Num(2))>>), StructLit("", <<Named("w", Bool(TRUE))>>, V("r"))))
\* main : @Bool = do throw 1 ctl k | throw m => k 0
RigidLiteral == WithEffects(<<D("main", BoolTy, Ctl(App(V("throw"), Num(1)), <<On("throw", "m", Resume(Num(0)))>>))>>)
\* The tail of a list performs; nothing looks at it inside the handler.
LazyEffect == WithEffects(<<D("main", ListTy(IntTy), Ctl(ConsOf(Num(1), ConsOf(Do("ask"), Nil)), <<On("ask", "u", Resume(Num(2)))>>))>>)
\* Two unions with one tag.
SharedTag == Source(<< >>, <<UnionDecl("Left", << >>, <<VariantDecl("T", <<FieldDecl("p", IntTy), FieldDecl("q", BoolTy)>>)>>),
                             UnionDecl("Right", << >>, <<VariantDecl("T", <<FieldDecl("q", BoolTy), FieldDecl("p", IntTy)>>)>>)>>, << >>,
                    <<D("main", Con("Left"), VariantLit("Left", "T", <<Named("p", Num(1)), Named("q", Bool(TRUE))>>))>>)

HandSources ==
    {Identity, LetPoly, Escaping, Outer, LiteralLet, LiteralWide, LocalLoop, Mutual, NotRigid, NotApart, Annotated, Pipes, RowPoly,
     Scaled, Thunk, Scoped} \cup Promotions \cup Structs \cup Streams \cup Shapes \cup Bytes \cup Effectful

-----------------------------------------------------------------------------
(* Families, well typed or not: what the checker lets through has to run. *)

\* (\x => let y = .. in ..) argument
LetSources ==
    LET five == FnP(PWild, Num(5))
        values == {V("x"), App(V("x"), Unit), App(V("x"), Num(1)), FnP(PWild, V("x")), Fn(<<"z">>, App(V("x"), V("z"))), Two(V("x"), Num(1)), Num(1)}
        uses == {V("y"), App(V("y"), Unit), Two(App(V("y"), Num(1)), Add(V("y"), Num(1))), Two(App(V("y"), Num(1)), App(V("y"), Bool(TRUE))),
                 Two(V("x"), V("y")), Two(Add(V("y"), Num(1)), App(V("x"), V("y"))), App(V("x"), App(V("x"), V("y"))), If(V("y"), V("x"), V("x"))}
        args == {Num(1), Bool(TRUE), five, Fn(<<"z">>, V("z"))}
        types == {IntTy, BoolTy, Pair(IntTy, IntTy), Pair(IntTy, BoolTy)}
    IN  {MainIs(t, App(Fn(<<"x">>, L("y", v, u)), a)) : t \in types, v \in values, u \in uses, a \in args}

\* Two arms over a pair, and every pair of a few values.
MatchSources ==
    LET lists == {PWild, PNil, PCons(PWild, PWild), PCons(PLit(Bool(TRUE)), P("r")), PCons(PLit(Bool(FALSE)), PNil)}
        nums == {PWild, PRange(Num(0), Num(1)), PRange(Num(2), None), PLit(Num(2))}
        pats == {PTuple(<<l, n>>) : l \in lists, n \in nums}
        three == {PTuple(<<PWild, PRange(Num(0), Num(1))>>), PTuple(<<PNil, PWild>>), PTuple(<<PCons(PLit(Bool(FALSE)), PWild), PWild>>)}
        f(arms) == D("f", arrow(Pair(ListTy(BoolTy), Con("@Nat8")), IntTy), Fn(<<"v">>, SMatch(V("v"), arms)))
        of(l, n) == App(V("f"), Two(l, Num(n)))
        main == D("main", TTuple(<<IntTy, IntTy, IntTy, IntTy>>),
                  Tuple(<<of(Nil, 1), of(ConsOf(Bool(TRUE), Nil), 2), of(ConsOf(Bool(FALSE), Nil), 255), of(ConsOf(Bool(FALSE), ConsOf(Bool(TRUE), Nil)), 0)>>))
    IN  {WithUnions(<<f(<<To(p, Num(1)), To(q, Num(2)), To(r, Num(3))>>), main>>) : p \in pats, q \in pats, r \in three}

\* A body, its handler's clauses and perhaps a value clause.
HandleSources ==
    LET bodies == {Do("ask"), Add(Do("ask"), App(V("throw"), Num(7))), If(App(V("throw"), Num(1)), Num(1), Do("ask")),
                   BinOp(";", App(V("put"), Num(1)), Do("get")), BinOp(";", App(V("put"), Bool(TRUE)), Do("get")),
                   App(Fn(<<"g">>, App(V("g"), Unit)), FnP(PWild, Do("ask"))), FnP(PWild, Do("ask"))}
        ask == {Resume(Num(2)), Two(Resume(Num(1)), Resume(Num(2))), Bool(TRUE), Resume(Bool(TRUE)), Resume(Do("ask"))}
        throw == {V("m"), Resume(V("m")), Bool(FALSE)}
        get == {Resume(Num(3)), Resume(Bool(FALSE))}
        els == {None, [x |-> <<"v">>, e |-> Bool(TRUE)], [x |-> <<"v">>, e |-> Two(V("v"), V("v"))]}
        types == {IntTy, BoolTy, Pair(IntTy, IntTy)}
    IN  {WithEffects(<<D("main", t, HandleE(b, <<"k">>, <<On("ask", "u", a), On("throw", "m", h)>>, e))>>) :
            t \in types, b \in bodies, a \in ask, h \in throw, e \in els}
        \cup {WithEffects(<<D("main", t, HandleE(b, <<"k">>, <<On("put", "s", Resume(Unit)), On("get", "u", g)>>, e))>>) :
            t \in types, b \in bodies, g \in get, e \in els}
=============================================================================
