------------------------------ MODULE Toolchain ------------------------------
(***************************************************************************)
(* From source to what the VM runs, with what the evaluator makes of the   *)
(* same source; and abbreviations for the programs of the MC modules.      *)
(***************************************************************************)
EXTENDS Runtime, AST

CONSTANT MAX_RECURSION_DEPTH   \* of the evaluator

C == INSTANCE Compiler
P == INSTANCE Peephole
E == INSTANCE Evaluator

\* files maps the names that can be imported to None or Some(source).
Compiled(source, files) ==
  LET program == C!Compile(source, files)
  IN  [program EXCEPT !.fns = [f \in DOMAIN @ |-> P!optimizeChunk(@[f])]]
      @@ [expected |-> E!Evaluate(source, files)]

IntType == Type("int")
StrType == Type("str")

V(name)   == Identifier(name)
Text(t)   == Lit(Str(<<t>>))
Say(t)    == PrintStmt(Text(t))
Fail      == ExprStmt(Infix("DIV", Num(1), Num(0)))
Guarded(body, t) == TryCatch(body, "err", <<Say(t)>>)
Func(name, params, returns, body) == Function(name, params, returns, body)
IntParam(name) == Param(name, IntType, None)
For(name, n, body) == ForRange(name, Num(0), Num(n), body)

=============================================================================
