------------------------------ MODULE Compiler ------------------------------
(***************************************************************************)
(* vm/compiler.{h,cpp}, vm/compiler_stmt.cpp, vm/compiler_expr.cpp: from   *)
(* the program to bytecode.  The compiler is a function of its state: c    *)
(* holds the finished functions, the classes, and the CompilerState of the *)
(* function being compiled and of those that enclose it, innermost last.   *)
(*                                                                         *)
(* Besides the code, a state collects `marks`: the address where each      *)
(* statement starts, with the number of locals declared and of try bodies  *)
(* open there.  They are no part of the program and serve only to state    *)
(* properties.                                                             *)
(***************************************************************************)
EXTENDS ConstantFold, Generators

CompilerState(enclosed, scopeDepth, params) ==
  [code |-> << >>, locals |-> [i \in DOMAIN params |-> [name |-> params[i], depth |-> scopeDepth]],
   upvalues |-> << >>, scopeDepth |-> scopeDepth, loops |-> << >>, isUnreachable |-> FALSE,
   tryDepth |-> 0, enclosed |-> enclosed, marks |-> {}]

Cur(c) == Last(c.states)
Set(c, st) == [c EXCEPT !.states[Len(c.states)] = st]
Size(c) == Len(Cur(c).code)

emit(c, i)   == [c EXCEPT !.states[Len(c.states)].code = Append(@, i)]
emitOp(c, op) == emit(c, Op(op))
patchJump(c, at) == [c EXCEPT !.states[Len(c.states)].code[at].arg = Size(c) - at]
patchAll(c, ats) == FoldLeft(patchJump, c, ats)
emitLoop(c, start) == emit(c, I("LOOP", Size(c) + 2 - start))

Reachable(c) == [c EXCEPT !.states[Len(c.states)].isUnreachable = FALSE]
Unreachable(c) == [c EXCEPT !.states[Len(c.states)].isUnreachable = TRUE]

-----------------------------------------------------------------------------
(* Scopes and variables.                                                   *)

beginScope(c) == [c EXCEPT !.states[Len(c.states)].scopeDepth = @ + 1]

\* A wrong variant of endScope: the locals of the scope stay on the stack.
endScopeKeeps(c) ==
  LET st       == Cur(c)
      stays(l) == l.depth < st.scopeDepth
  IN  Set(c, [st EXCEPT !.scopeDepth = @ - 1, !.locals = SelectSeq(@, stays)])

endScope(c) ==
  LET st    == Cur(c)
      stays(l) == l.depth < st.scopeDepth
      kept  == SelectSeq(st.locals, stays)
      gone  == Len(st.locals) - Len(kept)
  IN  Set(c, [st EXCEPT !.scopeDepth = @ - 1, !.locals = kept,
                        !.code = @ \o [i \in 1..gone |-> Op("POP")]])

declareLocal(c, name) ==
  [c EXCEPT !.states[Len(c.states)].locals = Append(@, [name |-> name, depth |-> Cur(c).scopeDepth])]

\* The innermost local of that name, as None or Some(slot).
resolveLocal(st, name) ==
  LET at == {i \in DOMAIN st.locals : st.locals[i].name = name}
  IN  IF at = {} THEN None ELSE Some(Max(at) - 1)

addUpvalue(c, n, u) ==
  LET ups == c.states[n].upvalues
      at  == {i \in DOMAIN ups : ups[i] = u}
  IN  IF at # {} THEN [c |-> c, slot |-> Some(Min(at) - 1)]
      ELSE [c |-> [c EXCEPT !.states[n].upvalues = Append(@, u)], slot |-> Some(Len(ups))]

\* The upvalue of the n-th state that stands for name in its enclosing ones.
RECURSIVE resolveUpvalue(_, _, _)
resolveUpvalue(c, n, name) ==
  IF ~c.states[n].enclosed THEN [c |-> c, slot |-> None]
  ELSE LET local == resolveLocal(c.states[n - 1], name)
           outer == resolveUpvalue(c, n - 1, name)
       IN  IF local # None THEN addUpvalue(c, n, [isLocal |-> TRUE, index |-> local[1]])
           ELSE IF outer.slot = None THEN outer
           ELSE addUpvalue(outer.c, n, [isLocal |-> FALSE, index |-> outer.slot[1]])

\* Emit the instruction of ops that reaches the variable.
access(c, name, ops) ==
  LET slot == resolveLocal(Cur(c), name)
      up   == resolveUpvalue(c, Len(c.states), name)
  IN  IF slot # None THEN emit(c, I(ops.local, slot[1]))
      ELSE IF up.slot # None THEN emit(up.c, I(ops.upvalue, up.slot[1]))
      ELSE emit(up.c, I(ops.global, name))

GetOps == [local |-> "GET_LOCAL", upvalue |-> "GET_UPVALUE", global |-> "GET_GLOBAL"]
SetOps == [local |-> "SET_LOCAL", upvalue |-> "SET_UPVALUE", global |-> "SET_GLOBAL"]

compileIdentifier(c, name) == access(c, name, GetOps)

\* A statement drops the value an assignment leaves.
store(c, name) == emitOp(access(c, name, SetOps), "POP")

-----------------------------------------------------------------------------
(* Functions.                                                              *)

CheckedType(t) == [t EXCEPT !.type = tokenTypeToObjectType(@)]

\* CompiledFunction, with the marks of its statements.
Finish(st, params, returns, hasYield) ==
  CompiledFunction(st.code, [i \in DOMAIN params |-> CheckedType(params[i].type)],
                   CheckedType(returns), [i \in DOMAIN params |-> params[i].default], hasYield)
  @@ [marks |-> st.marks]

Names(params) == [i \in DOMAIN params |-> params[i].name]

\* Begin and end the compilation of a nested function; the result has the
\* function at index Len(fns).
Open(c, enclosed, names) == [c EXCEPT !.states = Append(@, CompilerState(enclosed, 1, names))]
Close(c, params, returns, hasYield) ==
  [c EXCEPT !.states = Front(@), !.fns = Append(@, Finish(Cur(c), params, returns, hasYield))]

\* Push the function just closed: a constant, or a closure when it captures.
pushFunction(c, upvalues) ==
  IF upvalues = << >> THEN emit(c, I("CONSTANT", Fn(Len(c.fns), << >>)))
  ELSE emit(c, I("CLOSURE", [function |-> Len(c.fns), upvalues |-> upvalues]))

-----------------------------------------------------------------------------
(* Expressions.                                                            *)

RECURSIVE compileExpression(_, _)

compileAll(c, es) == FoldLeft(compileExpression, c, es)

\* && and || test their left operand; jumpAt is the test, skipAt the jump over
\* the other branch.
compileAnd(c, l, r) ==
  LET c1 == emit(emitOp(compileExpression(c, l), "ASSERT_BOOL"), Op("JUMP_IF_FALSE"))
      c2 == emitOp(emitOp(compileExpression(c1, r), "ASSERT_BOOL"), "JUMP")
  IN  patchJump(emitOp(patchJump(c2, Size(c1)), "FALSE"), Size(c2))

compileOr(c, l, r) ==
  LET c1 == emit(emitOp(compileExpression(c, l), "ASSERT_BOOL"), Op("JUMP_IF_FALSE"))
      c2 == emitOp(emitOp(c1, "TRUE"), "JUMP")
  IN  patchJump(emitOp(compileExpression(patchJump(c2, Size(c1)), r), "ASSERT_BOOL"), Size(c2))

compileInfix(c, e) ==
  LET folded == tryConstantFold(e.op, e.left, e.right)
  IN  IF e.op = "AND" THEN compileAnd(c, e.left, e.right)
      ELSE IF e.op = "OR" THEN compileOr(c, e.left, e.right)
      ELSE IF folded # None THEN emit(c, folded[1])
      ELSE emitOp(compileAll(c, <<e.left, e.right>>), e.op)

compilePrefix(c, e) ==
  LET v == IF e.right.node = "Literal" THEN e.right.value ELSE Null
  IN  IF e.op = "NEGATE" /\ IsInt(v) THEN emit(c, I("CONSTANT", IntVal(-v[2])))
      ELSE IF e.op = "NOT" /\ Tag(v) = "bool" THEN emitOp(c, IF v[2] THEN "FALSE" ELSE "TRUE")
      ELSE emitOp(compileExpression(c, e.right), e.op)

\* The old value stays below the new one, which is stored and dropped.
compilePostfix(c, e) ==
  LET old == compileIdentifier(compileIdentifier(c, e.name), e.name)
  IN  store(emitOp(emit(old, I("CONSTANT", IntVal(1))), e.op), e.name)

compileLambda(c, e) ==
  LET body == emitOp(compileExpression(Open(c, TRUE, Names(e.parameters)), e.body), "RETURN")
      params == [i \in DOMAIN e.parameters |-> [e.parameters[i] EXCEPT !.type = Unchecked, !.default = None]]
  IN  pushFunction(Close(body, params, Unchecked, FALSE), Cur(body).upvalues)

compileSlice(c, e) ==
  emit(compileAll(c, <<e.object>> \o e.start \o e.end),
       I("SLICE", (IF e.start = None THEN {} ELSE {"start"}) \cup (IF e.end = None THEN {} ELSE {"end"})))

\* An empty literal segment is left out.
compileInterpolated(c, e) ==
  LET shown(s) == s # Lit(Str(<< >>))
      segments == SelectSeq(e.segments, shown)
  IN  emit(compileAll(c, segments), I("INTERPOLATE", Len(segments)))

compileExpression(c, e) ==
  CASE e.node = "Literal"      -> emit(c, literal(e.value))
    [] e.node = "Identifier"   -> compileIdentifier(c, e.name)
    [] e.node = "Infix"        -> compileInfix(c, e)
    [] e.node = "Prefix"       -> compilePrefix(c, e)
    [] e.node = "Postfix"      -> compilePostfix(c, e)
    [] e.node = "Call"         -> emit(compileAll(c, <<e.function>> \o e.arguments),
                                       I("CALL", Len(e.arguments)))
    [] e.node = "MemberAccess" -> emit(compileExpression(c, e.object), I("GET_MEMBER", e.member))
    [] e.node = "MethodCall"   -> emit(compileAll(c, <<e.object>> \o e.arguments),
                                       I("INVOKE", [name |-> e.method, argc |-> Len(e.arguments)]))
    [] e.node = "Index"        -> emitOp(compileAll(c, <<e.name, e.index>>), "INDEX_GET")
    [] e.node = "Slice"        -> compileSlice(c, e)
    [] e.node = "Array"        -> emit(compileAll(c, e.elements), I("BUILD_ARRAY", Len(e.elements)))
    [] e.node = "Tuple"        -> emit(compileAll(c, e.elements), I("BUILD_TUPLE", Len(e.elements)))
    [] e.node = "HashMap"      -> emit(compileAll(c, e.entries), I("BUILD_HASHMAP", Len(e.entries) \div 2))
    [] e.node = "Interpolated" -> compileInterpolated(c, e)
    [] e.node = "Lambda"       -> compileLambda(c, e)

-----------------------------------------------------------------------------
(* Statements.                                                             *)

RECURSIVE compileStatement(_, _)

compileStatements(c, stmts) == FoldLeft(compileStatement, c, stmts)

\* Statements in a scope of their own; without the reset of isUnreachable
\* that blocks and loop bodies begin with.
scoped(c, stmts) == endScope(compileStatements(beginScope(c), stmts))
compileBlock(c, stmts) ==
  endScope(compileStatements(Reachable(beginScope(c)), stmts))

compileInitialization(c, s) ==
  LET checked == emit(compileExpression(c, s.value), I("DECL_CHECK", s.type))
  IN  IF Cur(c).scopeDepth > 0 THEN declareLocal(checked, s.name)
      ELSE emit(checked, I("DEFINE_GLOBAL", s.name))

compileSelfAssignment(c, s) ==
  emitOp(emit(compileIdentifier(compileExpression(c, s.value), "self"), I("SET_MEMBER", s.member)), "POP")

compileCompoundAssignment(c, s) ==
  store(emitOp(compileExpression(compileIdentifier(c, s.name), s.value), s.op), s.name)

compileIf(c, s) ==
  LET test == emitOp(compileExpression(c, s.condition), "JUMP_IF_FALSE")
      yes  == compileBlock(test, s.consequence)
      over == emitOp(yes, "JUMP")
  IN  Reachable(IF s.otherwise = None THEN patchJump(yes, Size(test))
                ELSE patchJump(compileBlock(patchJump(over, Size(test)), s.otherwise[1]), Size(over)))

-----------------------------------------------------------------------------
(* Loops.  A LoopContext knows where `continue` goes: to loopStart, or     *)
(* forward to a jump patched later, when the loop has an increment.        *)

LoopContext(c, hasIncrement) ==
  [loopStart |-> Size(c) + 1, hasIncrement |-> hasIncrement,
   breakJumps |-> << >>, continueJumps |-> << >>, tryDepth |-> Cur(c).tryDepth]

beginLoop(c, hasIncrement) ==
  [c EXCEPT !.states[Len(c.states)].loops = Append(@, LoopContext(c, hasIncrement))]

Loop(c) == Last(Cur(c).loops)
NoteJump(c, jumps) == LET st == Cur(c)
                      IN  Set(c, [st EXCEPT !.loops[Len(st.loops)][jumps] = Append(@, Size(c))])

\* Back to the start; the exit jump and the breaks land behind.
endLoop(c, exitJump) ==
  LET back == patchAll(patchJump(emitLoop(c, Loop(c).loopStart), exitJump), Loop(c).breakJumps)
  IN  [back EXCEPT !.states[Len(back.states)].loops = Front(@)]

\* A wrong variant of emitTryEndsToLoop: a jump leaves the handlers open.
emitNoTryEnds(c) == c

\* A jump out of try blocks inside the loop closes their handlers first.
emitTryEndsToLoop(c) ==
  [c EXCEPT !.states[Len(c.states)].code =
     @ \o [i \in 1..Cur(c).tryDepth - Loop(c).tryDepth |-> Op("TRY_END")]]

compileBreak(c) ==
  IF Cur(c).loops = << >> THEN c
  ELSE Unreachable(NoteJump(emitOp(emitTryEndsToLoop(c), "JUMP"), "breakJumps"))

compileContinue(c) ==
  IF Cur(c).loops = << >> THEN c
  ELSE Unreachable(IF Loop(c).hasIncrement
                   THEN NoteJump(emitOp(emitTryEndsToLoop(c), "JUMP"), "continueJumps")
                   ELSE emitLoop(emitTryEndsToLoop(c), Loop(c).loopStart))

compileWhile(c, s) ==
  LET test == emitOp(compileExpression(beginLoop(c, FALSE), s.condition), "JUMP_IF_FALSE")
  IN  endLoop(Reachable(compileBlock(test, s.body)), Size(test))

compileForEach(c, s) ==
  LET iter  == declareLocal(beginScope(emitOp(compileExpression(c, s.iterable), "ITER_INIT")), "__iter__")
      next  == emitOp(beginLoop(iter, FALSE), "ITER_NEXT")
      elem  == declareLocal(emit(emitOp(next, "ITER_VALUE"), I("DECL_CHECK", s.elementType)), s.name)
      body  == emitOp(Reachable(compileStatements(Reachable(elem), s.body)), "POP")
      popped == [body EXCEPT !.states[Len(body.states)].locals = Front(@)]
  IN  endScope(endLoop(popped, Size(next)))

compileForRange(c, s) ==
  LET bound(d, e, name) == declareLocal(emit(compileExpression(d, e), I("DECL_CHECK", Type("int"))), name)
      var   == Len(Cur(c).locals)
      start == beginLoop(bound(bound(beginScope(c), s.start, s.name), s.end, "__end__"), TRUE)
      test  == emitOp(emitOp(emit(emit(start, I("GET_LOCAL", var)), I("GET_LOCAL", var + 1)), "LESS"),
                      "JUMP_IF_FALSE")
      body  == Reachable(compileBlock(test, s.body))
      incr  == patchAll(body, Loop(body).continueJumps)
      next  == emitOp(emit(emitOp(emit(emit(incr, I("GET_LOCAL", var)), I("CONSTANT", IntVal(1))), "ADD"),
                           I("SET_LOCAL", var)), "POP")
  IN  endScope(endLoop(next, Size(test)))

-----------------------------------------------------------------------------
(* Exceptions, matches, definitions.                                       *)

compileTryCatch(c, s) ==
  LET try  == beginScope(emitOp(c, "TRY_BEGIN"))
      depth(d, n) == [d EXCEPT !.states[Len(d.states)].tryDepth = @ + n]
      tried == Reachable(endScope(depth(compileStatements(depth(try, 1), s.tryBody), -1)))
      skip  == emitOp(emitOp(tried, "TRY_END"), "JUMP")
      catch == declareLocal(beginScope(patchJump(skip, Size(try))), s.errorName)
  IN  Reachable(patchJump(endScope(compileStatements(catch, s.catchBody)), Size(skip)))

compilePattern(c, p) ==
  LET dup == emitOp(c, "DUP")
  IN  CASE p.kind = "range" -> emitOp(compileAll(dup, <<p.start, p.end>>), "RANGE_CHECK")
        [] p.kind = "type"  -> emit(dup, I("TYPE_CHECK", p.type))
        [] p.kind = "value" -> emitOp(compileExpression(dup, p.value), "EQUAL")

\* A body is entered with the subject dropped and left by a jump to the end,
\* which is noted in ends.
compileCaseBody(c, body) == emitOp(scoped(emitOp(c, "POP"), body), "JUMP")

\* m holds the compiler's state and the jumps to the end so far.
compileCase(m, case) ==
  LET test  == emitOp(compilePattern(m.c, case.pattern), "JUMP_IF_FALSE")
      guard == emitOp(compileExpression(test, case.guard[1]), "JUMP_IF_FALSE")
      enter == emitOp(guard, "JUMP")
      miss1 == emitOp(patchJump(enter, Size(test)), "JUMP")
      miss2 == emitOp(patchJump(miss1, Size(guard)), "JUMP")
      body  == compileCaseBody(IF case.guard = None THEN test ELSE patchJump(miss2, Size(enter)), case.body)
  IN  [c    |-> patchAll(body, IF case.guard = None THEN <<Size(test)>> ELSE <<Size(miss1), Size(miss2)>>),
       ends |-> Append(m.ends, Size(body))]

compileMatch(c, s) ==
  LET m    == FoldLeft(compileCase, [c |-> compileExpression(c, s.subject), ends |-> << >>], s.cases)
      miss == emitOp(m.c, "POP")
  IN  patchAll(IF s.default = None THEN miss ELSE scoped(miss, s.default[1]), m.ends)

compileBody(c, body) == emitOp(emitOp(compileStatements(c, body), "NULL"), "RETURN")

compileFunction(c, s) ==
  LET body == compileBody(Open(c, TRUE, Names(s.parameters)), s.body)
      done == Close(body, s.parameters, s.returns, containsYield(s.body))
  IN  emit(pushFunction(done, Cur(body).upvalues), I("DEFINE_GLOBAL", s.name))

\* Methods and constructors have no enclosing function and no yields; the
\* object is their first local.
compileMethod(m, s) ==
  LET body == compileBody(Open(m.c, FALSE, <<"self">> \o Names(s.parameters)), s.body)
  IN  [c       |-> Close(body, s.parameters, s.returns, FALSE),
       methods |-> (s.name :> Len(body.fns) + 1) @@ m.methods]

compileConstructor(c, ctor) ==
  LET body == compileStatements(Open(c, FALSE, <<"self">> \o Names(ctor.parameters)), ctor.body)
      unchecked == [i \in DOMAIN ctor.parameters |-> [ctor.parameters[i] EXCEPT !.type = Unchecked,
                                                                               !.default = None]]
  IN  Close(emitOp(compileIdentifier(body, "self"), "RETURN"), unchecked, Unchecked, FALSE)

compileClass(c, s) ==
  LET made == IF s.ctor = None THEN c ELSE compileConstructor(c, s.ctor[1])
      m    == FoldLeft(compileMethod, [c |-> made, methods |-> << >>], s.methods)
      def  == [parentName |-> s.parentName, parent |-> "", fields |-> DOMAIN s.fields,
               ctor |-> IF s.ctor = None THEN None ELSE Some(Len(made.fns)), methods |-> m.methods]
      noted == [m.c EXCEPT !.classes = (s.name :> def) @@ @]
  IN  emit(emit(noted, I("CONSTANT", Class(s.name))), I("DEFINE_GLOBAL", s.name))

Mark(c) == [c EXCEPT !.states[Len(c.states)].marks =
                       @ \cup {[ip |-> Size(c) + 1, locals |-> Len(Cur(c).locals), tries |-> Cur(c).tryDepth]}]

\* A statement no path reaches is not compiled.
compileStatement(c0, s) ==
  LET c == Mark(c0)
  IN  IF Cur(c).isUnreachable THEN c0
      ELSE CASE s.node = "Expression"     -> emitOp(compileExpression(c, s.expression), "POP")
             [] s.node = "Initialization" -> compileInitialization(c, s)
             [] s.node = "Assignment"     -> store(compileExpression(c, s.value), s.name)
             [] s.node = "SelfAssignment" -> compileSelfAssignment(c, s)
             [] s.node = "Compound"       -> compileCompoundAssignment(c, s)
             [] s.node = "IndexAssignment" ->
                  emitOp(emitOp(compileAll(c, <<s.collection, s.index, s.value>>), "INDEX_SET"), "POP")
             [] s.node = "If"             -> compileIf(c, s)
             [] s.node = "While"          -> compileWhile(c, s)
             [] s.node = "ForEach"        -> compileForEach(c, s)
             [] s.node = "ForRange"       -> compileForRange(c, s)
             [] s.node = "Break"          -> compileBreak(c)
             [] s.node = "Continue"       -> compileContinue(c)
             [] s.node = "Return"         -> Unreachable(emitOp(compileExpression(c, s.expression), "RETURN"))
             [] s.node = "Yield"          -> emitOp(compileExpression(c, s.expression), "YIELD")
             [] s.node = "TryCatch"       -> compileTryCatch(c, s)
             [] s.node = "Match"          -> compileMatch(c, s)
             [] s.node = "Function"       -> compileFunction(c, s)
             [] s.node = "Class"          -> compileClass(c, s)
             [] s.node = "Import"         -> emit(c, I("IMPORT", s.filename))

(***************************************************************************)
(* Compile: the value of a last expression statement is the result of the  *)
(* program, which otherwise is Null.                                       *)
(***************************************************************************)
compileProgram(c, program) ==
  LET begun == Open(c, FALSE, << >>)
      main  == [begun EXCEPT !.states[Len(begun.states)].scopeDepth = 0]
      ends  == program # << >> /\ Last(program).node = "Expression"
      done  == IF ends THEN compileExpression(Mark(compileStatements(main, Front(program))),
                                              Last(program).expression)
               ELSE emitOp(compileStatements(main, program), "NULL")
  IN  Close(emitOp(done, "RETURN"), << >>, Unchecked, FALSE)

\* The program as the VM gets it.  sources maps the importable file names to
\* None (cannot be opened or parsed) or Some(program).
Compile(program, sources) ==
  LET empty == [fns |-> << >>, classes |-> << >>, states |-> << >>]
      names == SetToSeq(DOMAIN sources)
      module(m, n) == IF sources[n] = None THEN [m EXCEPT !.files = (n :> None) @@ @]
                      ELSE LET c == compileProgram(m.c, sources[n][1])
                           IN  [c |-> c, files |-> (n :> Some(Len(c.fns))) @@ m.files]
      first == compileProgram(empty, program)
      m     == FoldLeft(module, [c |-> first, files |-> << >>], names)
  IN  [fns |-> m.c.fns, classes |-> m.c.classes, files |-> m.files,
       main |-> Len(first.fns)]

=============================================================================
