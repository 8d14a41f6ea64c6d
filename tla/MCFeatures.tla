----------------------------- MODULE MCFeatures -----------------------------
(***************************************************************************)
(* The VM on programs that use each kind of value and definition: every    *)
(* pair of the features below, one after the other.                        *)
(***************************************************************************)
EXTENDS Toolchain

Lits(ns) == ArrayLit([i \in DOMAIN ns |-> Num(ns[i])])

Operators ==
  <<Declare(IntType, "a", Num(3)), PrintStmt(Prefix("NEGATE", V("a"))),
    PrintStmt(Prefix("NOT", Infix("LESS", V("a"), Num(2)))), PrintStmt(Infix("POW", V("a"), Num(-1))),
    PrintStmt(Infix("AND", Infix("EQUAL", V("a"), Num(3)), Lit(Bool(TRUE)))),
    PrintStmt(Infix("OR", Infix("EQUAL", V("a"), Num(4)), Infix("GREATER", V("a"), Num(1)))),
    Guarded(<<PrintStmt(Infix("AND", V("a"), Lit(Bool(TRUE))))>>, "and"),
    Guarded(<<PrintStmt(Infix("MUL", V("a"), V("a")))>>, "overflow"),
    PrintStmt(Infix("ADD", Num(2), Num(3))), PrintStmt(Prefix("NEGATE", Num(2))),
    PrintStmt(Postfix("ADD", "a")), PrintStmt(V("a")), PrintStmt(Interpolated(<<Text("a="), V("a")>>))>>

Variables ==
  <<Declare(OptType("int"), "o", Lit(Null)), PrintStmt(Infix("EQUAL", V("o"), Lit(Null))),
    Assign("o", Num(5)), Compound("SUB", "o", Num(2)), PrintStmt(V("o")),
    Guarded(<<Declare(IntType, "bad", Text("t"))>>, "declared"), Guarded(<<PrintStmt(V("nowhere"))>>, "name")>>

Collections ==
  <<Declare(Type("array"), "xs", Lits(<<1, 2, 3>>)), IndexAssign(V("xs"), Num(-1), Num(7)),
    ExprStmt(MethodCall(V("xs"), "push", <<Num(4)>>)), PrintStmt(Call(V("length"), <<V("xs")>>)),
    ForEach(IntType, "n", Slice(V("xs"), Some(Num(1)), None), <<PrintStmt(V("n"))>>),
    Guarded(<<PrintStmt(Index(V("xs"), Num(6)))>>, "range"),
    Declare(Type("map"), "m", MapLit(<<Text("k"), Num(1), Text("k"), Num(2)>>)),
    IndexAssign(V("m"), Text("j"), Num(3)), PrintStmt(Index(V("m"), Text("k"))),
    Guarded(<<PrintStmt(Index(V("m"), Text("none")))>>, "key"),
    PrintStmt(Index(TupleLit(<<Num(6), Num(5)>>), Num(1))),
    ForEach(StrType, "c", Infix("ADD", Text("p"), Text("q")), <<PrintStmt(V("c"))>>)>>

Functions ==
  <<Func("sum", <<IntParam("p"), Param("q", IntType, Some(IntVal(2)))>>, IntType,
         <<Return(Infix("ADD", V("p"), V("q")))>>),
    PrintStmt(Call(V("sum"), <<Num(1)>>)), PrintStmt(Call(V("sum"), <<Num(1), Num(4)>>)),
    Guarded(<<PrintStmt(Call(V("sum"), << >>))>>, "count"),
    Guarded(<<PrintStmt(Call(V("sum"), <<Text("t")>>))>>, "type"),
    Guarded(<<PrintStmt(Call(Num(1), << >>))>>, "callable"),
    Func("twice", <<Param("g", Type("function"), None)>>, IntType,
         <<Return(Call(V("g"), <<Call(V("g"), <<Num(1)>>)>>))>>),
    PrintStmt(Call(V("twice"), <<V("sum")>>)), Guarded(<<PrintStmt(Call(V("twice"), <<Num(1)>>))>>, "function"),
    Func("down", <<IntParam("k")>>, IntType,
         <<If(Infix("EQUAL", V("k"), Num(0)), <<Return(Num(0))>>, None),
           Return(Call(V("down"), <<Infix("SUB", V("k"), Num(1))>>))>>),
    PrintStmt(Call(V("down"), <<Num(2)>>)),
    Func("wrong", << >>, IntType, <<Return(Text("t"))>>),
    Guarded(<<PrintStmt(Call(V("wrong"), << >>))>>, "returned"),
    Func("endless", << >>, IntType, <<Return(Call(V("endless"), << >>))>>),
    Guarded(<<PrintStmt(Call(V("endless"), << >>))>>, "too deep")>>

\* A function that counts in a captured variable, through two levels.
Closures ==
  <<Func("make", <<IntParam("start")>>, Type("function"),
         <<Func("middle", << >>, Type("function"),
                <<Func("next", << >>, IntType,
                       <<Compound("ADD", "start", Num(1)), Return(V("start"))>>),
                  Return(V("next"))>>),
           Return(Call(V("middle"), << >>))>>),
    Declare(Type("function"), "counter", Call(V("make"), <<Num(1)>>)),
    PrintStmt(Call(V("counter"), << >>)), PrintStmt(Call(V("counter"), << >>)),
    PrintStmt(Call(Lambda(<<IntParam("z")>>, IntType, Infix("ADD", V("z"), Num(1))), <<Num(1)>>))>>

Point == ClassStmt("Point", "", "left" :> IntType, Some(Func("", <<IntParam("w")>>, IntType, <<SelfAssign("left", V("w"))>>)),
           <<Func("get", <<Param("d", IntType, Some(IntVal(1)))>>, IntType,
                  <<Return(Infix("ADD", Member(V("self"), "left"), V("d")))>>)>>)
Pixel == ClassStmt("Pixel", "Point", "hue" :> IntType, None,
           <<Func("paint", << >>, IntType, <<SelfAssign("hue", Num(1)), Return(Member(V("self"), "hue"))>>)>>)

Classes ==
  <<Point, Pixel, Declare(Type("Point"), "px", Call(V("Pixel"), <<Num(4)>>)),
    PrintStmt(MethodCall(V("px"), "get", <<Num(2)>>)), PrintStmt(MethodCall(V("px"), "get", << >>)),
    PrintStmt(MethodCall(V("px"), "paint", << >>)), PrintStmt(Member(V("px"), "left")),
    Guarded(<<PrintStmt(Member(V("px"), "none"))>>, "field"),
    Guarded(<<PrintStmt(MethodCall(V("px"), "none", << >>))>>, "method"),
    Guarded(<<Declare(Type("Pixel"), "py", Call(V("Point"), <<Num(1)>>))>>, "class")>>

Describe(e) ==
  Match(e, <<MatchCase(RangePattern(Num(1), Num(1)), None, <<Say("one")>>),
             MatchCase(RangePattern(Num(2), Num(4)), Some(Infix("EQUAL", e, Num(3))), <<Say("three")>>),
             MatchCase(TypePattern("str"), None, <<Say("text")>>)>>, Some(<<Say("other")>>))

Matching == <<Describe(Num(1)), Describe(Num(2)), Describe(Num(3)), Describe(Text("t")),
              Match(Num(5), <<MatchCase(TypePattern("bool"), None, <<Say("bool")>>),
                              MatchCase(ValuePattern(Num(5)), None, <<Say("five")>>)>>, None)>>

Generators ==
  <<Func("gen", <<IntParam("to")>>, Type("array"),
         <<Yield(Num(7)), For("i", 2, <<If(Infix("LESS", V("i"), V("to")), <<Yield(V("i"))>>, None)>>)>>),
    ForEach(IntType, "v", Call(V("gen"), <<Num(1)>>), <<PrintStmt(V("v"))>>)>>

Imports ==
  <<Import("lib"), Import("lib"), PrintStmt(Call(V("shared"), << >>)),
    Guarded(<<Import("broken")>>, "import"), Import("broken"), Guarded(<<Import("../up")>>, "path")>>
Files == ("lib" :> Some(<<Say("loading"), Func("shared", << >>, IntType, <<Return(Num(1))>>)>>))
         @@ ("broken" :> None)

Features == {Operators, Variables, Collections, Functions, Closures, Classes, Matching, Generators}

\* The program may also end by an exception or a return.  Imports come last: the
\* back ends are known to differ on what follows one (see MCDivergence).
Endings == {Imports, <<Say("end")>>, <<Fail>>, <<Return(Num(1)), Say("unreached")>>}

FeatureSources ==
  LET pairs == {p \in Features \X (Features \cup Endings) : p[1] # p[2]}
  IN  {[text |-> p[1] \o p[2], files |-> IF p[2] = Imports THEN Files ELSE << >>] : p \in pairs}

=============================================================================
