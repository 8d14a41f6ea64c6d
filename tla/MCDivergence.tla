---------------------------- MODULE MCDivergence ----------------------------
(***************************************************************************)
(* Programs on which the VM and the evaluator are known to differ, run one *)
(* after the other: the next is loaded when the VM has gone another way    *)
(* than the evaluator in the one before.  The sources are what a user      *)
(* would write.  The clock does not run out here.                          *)
(***************************************************************************)
EXTENDS Toolchain

VARIABLE differed   \* how many of the programs have gone another way

Body(stmts) == <<Func("f", << >>, IntType, stmts \o <<Return(Num(1))>>), PrintStmt(Call(V("f"), << >>)), Say("end")>>

\* A break leaves behind the locals of the block it jumps out of.
BreakPastLocals ==
  Body(<<For("i", 2, <<Declare(IntType, "d", Num(5)), Break>>),
         Declare(IntType, "after", Num(3)), PrintStmt(V("after"))>>)

\* A for-each body drops one slot and forgets one local, however many it has.
LocalInForEach ==
  Body(<<ForEach(IntType, "e", ArrayLit(<<Num(1), Num(2)>>), <<Declare(IntType, "d", V("e")), PrintStmt(V("d"))>>)>>)

\* The evaluator takes the completion of a loop's last round for its own.
ContinueAtLast ==
  Body(<<For("i", 2, <<If(Infix("EQUAL", V("i"), Num(1)), <<ContinueStmt>>, None), PrintStmt(V("i"))>>)>>)

\* A constructor returns with the slot below it dropped, which is the caller's.
LocalBeforeObject ==
  <<ClassStmt("Point", "", "left" :> IntType,
              Some(Func("", <<IntParam("w")>>, IntType, <<SelfAssign("left", V("w"))>>)), << >>)>>
  \o Body(<<Declare(IntType, "p", Num(3)), Declare(Type("Point"), "q", Call(V("Point"), <<Num(2)>>)), PrintStmt(V("p"))>>)

\* The value an imported file returns stays on the stack.
LoopAfterImport == <<Import("lib"), For("i", 2, <<PrintStmt(V("i"))>>)>>
Files           == "lib" :> Some(<<Say("lib")>>)

\* A statement that ends a case with a return makes the rest unreachable.
ReturnInCase ==
  Body(<<Match(Num(2), <<MatchCase(ValuePattern(Num(1)), None, <<Return(Num(7))>>)>>, None), Say("after")>>)

\* Rounds of a for-each are counted by OP_ITER_NEXT and again by OP_LOOP, so that
\* a limiter that allows five rounds stops three.
CountedTwice ==
  <<ForEach(IntType, "e", ArrayLit(<<Num(1), Num(2), Num(3)>>), <<PrintStmt(V("e"))>>), Say("end")>>

\* A loop of more rounds than the limiter allows, in a block that catches what the
\* limiter throws.
LoopInTry == <<Guarded(<<For("i", 7, << >>)>>, "caught")>>

\* The evaluator counts a round of a while loop before it looks at the condition,
\* and so the one that is not run; the VM counts the ends of rounds.
AsManyAsAllowed ==
  <<Declare(IntType, "n", Num(0)), While(Infix("LESS", V("n"), Num(5)), <<Compound("ADD", "n", Num(1))>>), Say("end")>>

\* The VM bounds the calls of functions, and not those of methods.
DeepMethod ==
  <<ClassStmt("Stair", "", << >>, None,
              <<Func("down", <<IntParam("k")>>, IntType,
                     <<If(Infix("EQUAL", V("k"), Num(0)), <<Return(Num(0))>>, None),
                       Return(MethodCall(V("self"), "down", <<Infix("SUB", V("k"), Num(1))>>))>>)>>),
    Declare(Type("Stair"), "s", Call(V("Stair"), << >>)), PrintStmt(MethodCall(V("s"), "down", <<Num(7)>>))>>

Differing ==
  LET sources == <<BreakPastLocals, LocalInForEach, ContinueAtLast, LocalBeforeObject, LoopAfterImport,
                   ReturnInCase, CountedTwice, AsManyAsAllowed, DeepMethod, LoopInTry>>
  IN  {Compiled(sources[i], Files) @@ [place |-> i] : i \in DOMAIN sources}

-----------------------------------------------------------------------------
\* What the limiter throws ends the program: vm.cpp:79 says that no try block of
\* the user catches it.
LimitKept == loops > MaxLoopIterations => outcome[1] = "failed"

\* So far the program runs as the evaluator runs it, and the limit is kept.
RunsAlike == OutputAgrees /\ LimitKept

Load(p) ==
  /\ prog' = p /\ classes' = p.classes /\ frames' = <<Frame(p.main, 0, TRUE, << >>, FALSE)>>
  /\ stack' = << >> /\ handlers' = << >> /\ imported' = {} /\ out' = << >> /\ heap' = << >> /\ globals' = << >>
  /\ loops' = 0 /\ late' = FALSE /\ outcome' = Running

DivergenceInit == Init /\ prog.place = 1 /\ differed = 0
DivergenceNext ==
  \/ RunsAlike /\ Step /\ UNCHANGED differed
  \/ /\ ~RunsAlike /\ differed < prog.place
     /\ differed' = prog.place
     /\ IF \E p \in Programs : p.place = differed' + 1
        THEN \E p \in Programs : p.place = differed' + 1 /\ Load(p)
        ELSE UNCHANGED vars
DivergenceSpec == DivergenceInit /\ [][DivergenceNext]_<<vars, differed>>

\* What docs/superpowers/specs/2026-06-12-runtime-consistency-design.md:7 says of
\* every program, of these together: one of them at least runs the same on the VM
\* as on the evaluator.
OneRunsAlike == differed < Cardinality(Programs)

=============================================================================
