------------------------------- MODULE Runtime -------------------------------
(***************************************************************************)
(* The VM on programs the compiler made.  Such a program also carries      *)
(* `expected`, what the evaluator makes of the same source, and in each    *)
(* function the `marks` of its statements.                                 *)
(***************************************************************************)
EXTENDS VM

Reference == INSTANCE Backend WITH expected <- prog.expected, ended <- outcome[1]

\* The VM runs a program the way the evaluator does: it prints the same lines
\* in the same order, and then it does end, in the same way.
SameAsEvaluator == Reference!Spec

\* The same without the promise to end: what is printed is never something
\* else, and a program ends only where and how it should.
OutputAgrees == /\ IsPrefix(out, prog.expected.out)
                /\ outcome # Running => out = prog.expected.out /\ outcome[1] = prog.expected.ended

\* The marks of the statement that is about to begin, if one is.
Here == IF outcome = Running THEN {m \in CodeOf(Top.function).marks : m.ip = Top.ip} ELSE {}

\* When a statement begins, the operand stack of its call holds the locals the
\* compiler counts on and nothing else: whatever way the code got there -
\* falling through, breaking, continuing, catching, returning from a call -
\* no slot is left behind and none is missing.  Not so in a program that imports,
\* where the value of the imported file stays.
StatementStack == prog.files = << >> => \A m \in Here : Len(stack) = Top.slotOffset + m.locals

\* The slots of its call that an instruction reads or writes.
Slots(i) ==
  CASE i.op \in {"GET_LOCAL", "SET_LOCAL", "SET_LOCAL_POP"} -> {i.arg}
    [] i.op = "CLOSURE" -> {u.index : u \in {v \in Range(i.arg.upvalues) : v.isLocal}}
    [] OTHER -> {}

\* An instruction finds its operands and its slots among the values of its own
\* call.  pop() and peek() look only at whether there is anything on the stack, were
\* it the caller's, and opClosure takes the slots it captures without a look.
OwnValues == HasInstr => LET n == Len(stack) - Top.slotOffset
                         IN  Operands(Instr) <= n /\ \A k \in Slots(Instr) : k < n

\* When a statement begins, the handlers its call has registered are those of
\* the try bodies around it: leaving a try block in any way closes its handler,
\* and none is closed twice.
StatementHandlers ==
  \A m \in Here : Cardinality({i \in DOMAIN handlers : handlers[i].frameDepth = Len(frames)}) = m.tries

\* Where an instruction that does not throw goes on.
Successors(code, pc) ==
  CASE code[pc].op \in {"JUMP", "LOOP"}               -> {JumpTarget(code, pc)}
    [] code[pc].op \in {"JUMP_IF_FALSE", "ITER_NEXT"} -> {pc + 1, JumpTarget(code, pc)}
    [] code[pc].op = "RETURN"                         -> {}
    [] OTHER                                          -> {pc + 1}

\* The same with the number of try bodies that are open, n of them before.  Where a
\* try begins, control may come back to its catch without it.
Flow(code, pc, n) ==
  CASE code[pc].op = "TRY_BEGIN" -> {<<pc + 1, n + 1>>, <<JumpTarget(code, pc), n>>}
    [] code[pc].op = "TRY_END"   -> {<<pc + 1, n - 1>>}
    [] OTHER                     -> {<<next, n>> : next \in Successors(code, pc)}

\* The addresses that going down a code from its first instruction leads to, with
\* the number of try bodies that are open there.
Reached(code) ==
  FoldLeft(LAMBDA at, pc : at \cup UNION {Flow(code, pc, a[2]) : a \in {b \in at : b[1] = pc}},
           {<<1, 0>>}, [i \in DOMAIN code |-> i])

\* Whichever way a code is run, no try ends that did not begin in it, and each
\* statement begins inside the try bodies that are around it in the source.
Balanced(fn) ==
  LET at == Reached(fn.code)
  IN  /\ <<1, 0>> \in at
      /\ \A a \in at : /\ a[2] \in Nat
                       /\ a[1] \in DOMAIN fn.code => Flow(fn.code, a[1], a[2]) \subseteq at
      /\ \A m \in fn.marks : \A a \in at : a[1] = m.ip => a[2] = m.tries

\* The compiler makes balanced code, and the peephole pass leaves it so.  The
\* program does not change, so it is looked at when it starts.
CodeBalanced == (outcome = Running /\ Len(frames) = 1 /\ Top.ip = 1) => \A f \in DOMAIN prog.fns : Balanced(CodeOf(f))

(***************************************************************************)
(* The same for the operands.  A place in a code is <<address, height,     *)
(* open>>: how many values the call has on the stack there, and the try    *)
(* bodies it is in: << >>, or those around the innermost and the height at *)
(* which that began.                                                       *)
(***************************************************************************)
Floor(open) == IF open = << >> THEN 0 ELSE open[2]

\* How many values an instruction leaves in place of its operands.
Left(i) ==
  CASE i.op \in Fused \cup {"POP", "JUMP", "JUMP_IF_FALSE", "LOOP", "DEFINE_GLOBAL", "YIELD", "IMPORT"} -> 0
    [] i.op \in {"DUP", "ITER_VALUE"} -> 2
    [] OTHER -> 1

\* Where a catch begins, the exception lies on what was there when its try began.
Onward(code, pc, n, open) ==
  CASE code[pc].op = "TRY_BEGIN" -> {<<pc + 1, n, <<open, n>>>>, <<JumpTarget(code, pc), n + 1, open>>}
    [] code[pc].op = "TRY_END"   -> {<<pc + 1, n, open[1]>>}
    [] OTHER -> {<<next, n - Operands(code[pc]) + Left(code[pc]), open>> : next \in Successors(code, pc)}

\* The places that going down a code leads to from its first instruction.
Levels(code, height) ==
  FoldLeft(LAMBDA at, pc : at \cup UNION {Onward(code, pc, a[2], a[3]) : a \in {b \in at : b[1] = pc}},
           {<<1, height, << >>>>}, [i \in DOMAIN code |-> i])

\* An instruction finds its operands on the stack of its call, above what was there
\* when the innermost try body around it began, and its slots; only what is open ends.
Supplied(i, n, open) ==
  /\ Operands(i) \in Nat /\ Floor(open) + Operands(i) <= n
  /\ \A k \in Slots(i) : k < n
  /\ i.op = "CALL" => i.arg \in Nat
  /\ i.op = "TRY_END" => open # << >>

\* Whichever way a code that starts at a height is run, its instructions find their
\* operands, and each statement begins at the height of the locals around it.
Stacked(fn, height) ==
  LET at == Levels(fn.code, height)
  IN  /\ fn.arity \in Nat /\ <<1, height, << >>>> \in at
      /\ \A a \in at : /\ a[2] \in Nat /\ Floor(a[3]) \in Nat
                       /\ a[1] \in DOMAIN fn.code => /\ Supplied(fn.code[a[1]], a[2], a[3])
                                                     /\ Onward(fn.code, a[1], a[2], a[3]) \subseteq at
      /\ \A m \in fn.marks : \A a \in at : a[1] = m.ip => a[2] = m.locals

\* The methods and constructors, which find their object below their arguments.
Methods(p) == UNION {Range(p.classes[c].methods) \cup Range(p.classes[c].ctor) : c \in DOMAIN p.classes}

StackedProgram(p) ==
  /\ p.fns[p.main].arity = 0
  /\ \A f \in DOMAIN p.fns : Stacked(p.fns[f], p.fns[f].arity + IF f \in Methods(p) THEN 1 ELSE 0)

\* The compiler makes code that keeps the stack of every call in order, whatever its
\* branches, loops and try bodies, and the peephole pass leaves it so: looked at, as
\* CodeBalanced, when the program starts.
CodeStacked == (outcome = Running /\ Len(frames) = 1 /\ Top.ip = 1) => StackedProgram(prog)

=============================================================================
