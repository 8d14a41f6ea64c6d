--------------------------------- MODULE VM ---------------------------------
(***************************************************************************)
(* vm/vm.{h,cpp}, vm/vm_handlers.cpp: the stack machine that runs compiled *)
(* programs.  One action per opcode handler, each the whole handler; run() *)
(* is the dispatch (Fetch) and the unwinding of exceptions (Throw).        *)
(***************************************************************************)
EXTENDS Values, Bytecode

CONSTANTS
  Programs,           \* the inputs of Execute: programs as the compiler made them
  FRAMES_MAX,         \* the limit on call frames
  HasLimiter,         \* whether an ExecutionLimiter was given to the VM
  MaxLoopIterations   \* its bound on loop iterations

(***************************************************************************)
(* A program: its functions, its classes (CompiledClassDef), the function  *)
(* run first, and what OP_IMPORT finds under a file name: a function, or   *)
(* None when the file cannot be opened or parsed.                          *)
(***************************************************************************)
ASSUME VMAssumption ==
  /\ FRAMES_MAX \in Nat \ {0} /\ HasLimiter \in BOOLEAN /\ MaxLoopIterations \in Nat
  /\ \A p \in Programs : /\ p.main \in DOMAIN p.fns
                         /\ \A c \in DOMAIN p.classes : "ctor" \in DOMAIN p.classes[c]

VARIABLES
  prog,       \* the program being executed
  stack,      \* the operand stack
  frames,     \* the call frames
  handlers,   \* exceptionHandlers
  globals,    \* global variables
  heap,       \* the objects with identity
  classes,    \* the CompiledClassDefs, whose parents are resolved at run time
  imported,   \* importedFiles
  out,        \* what the program has printed
  loops,      \* the limiter's loopIterationCount
  late,       \* whether the limiter's timeout has passed
  outcome     \* running, or how Execute ended

control == <<stack, frames, handlers, outcome>>
data    == <<globals, heap, classes, imported, out>>
limits  == <<loops, late>>
vars    == <<prog, control, data, limits>>

Running     == <<"running">>
Returned(v) == <<"returned", v>>
Failed(err) == <<"failed", err>>

CodeOf(fn) == prog.fns[fn]
Top        == Last(frames)
Instr      == CodeOf(Top.function).code[Top.ip]

Frame(fn, slotOffset, hasCallee, closure, isGenerator) ==
  [function |-> fn, ip |-> 1, slotOffset |-> slotOffset, hasCallee |-> hasCallee,
   closure |-> closure, isGenerator |-> isGenerator, yieldBuffer |-> << >>]

Init ==
  /\ prog \in Programs
  /\ stack = << >> /\ handlers = << >> /\ imported = {} /\ out = << >> /\ heap = << >>
  /\ frames = <<Frame(prog.main, 0, TRUE, << >>, FALSE)>>
  /\ globals = << >>
  /\ classes = prog.classes
  /\ loops = 0 /\ late = FALSE /\ outcome = Running

-----------------------------------------------------------------------------
(* The stack.  peek(d) is Peek(d); Drop(n) is the stack after n pops.      *)

Peek(d)  == stack[Len(stack) - d]
Drop(n)  == SubSeq(stack, 1, Len(stack) - n)
TopN(n)  == SubSeq(stack, Len(stack) - n + 1, Len(stack))
Keep(s, n) == SubSeq(s, 1, IF n < Len(s) THEN n ELSE Len(s))

\* Slot k of the current frame; readable when the stack reaches that far.
SlotIndex(k) == Top.slotOffset + k + 1

(***************************************************************************)
(* How a handler ends.  Goto leaves stack st and moves ip to an address:   *)
(* the next one, or the target of the jump; Throw is the catch clauses of  *)
(* run().                                                                  *)
(***************************************************************************)
NextIp == Top.ip + 1
Target == JumpTarget(CodeOf(Top.function).code, Top.ip)

Goto(st, ip) ==
  /\ stack' = st
  /\ frames' = [frames EXCEPT ![Len(frames)].ip = ip]
  /\ UNCHANGED <<handlers, outcome>>

Continue(st) == Goto(st, NextIp)

\* Wrong variants of Unwound: the frame of the handler is dropped too, and no
\* frame is dropped.
UnwoundTooFar(h)  == LET live == Keep(frames, h.frameDepth - 1)
                     IN  [live EXCEPT ![Len(live)].ip = h.catchIp]
UnwoundNothing(h) == [frames EXCEPT ![h.frameDepth].ip = h.catchIp]

Unwound(h) == LET live == Keep(frames, h.frameDepth)
              IN  [live EXCEPT ![Len(live)].ip = h.catchIp]

\* Wrong variants of Throw: the handler stays registered, and the operands of
\* what was interrupted stay on the stack.
ThrowKeepsHandler(st, err) ==
  IF handlers = << >>
  THEN outcome' = Failed(err) /\ UNCHANGED <<stack, frames, handlers>>
  ELSE /\ stack' = Append(Keep(st, Last(handlers).stackDepth), err)
       /\ frames' = Unwound(Last(handlers))
       /\ UNCHANGED <<handlers, outcome>>

ThrowKeepsStack(st, err) ==
  IF handlers = << >>
  THEN outcome' = Failed(err) /\ UNCHANGED <<stack, frames, handlers>>
  ELSE /\ stack' = Append(st, err)
       /\ frames' = Unwound(Last(handlers))
       /\ handlers' = Front(handlers)
       /\ UNCHANGED outcome

Throw(st, err) ==
  IF handlers = << >>
  THEN outcome' = Failed(err) /\ UNCHANGED <<stack, frames, handlers>>
  ELSE /\ stack' = Append(Keep(st, Last(handlers).stackDepth), err)
       /\ frames' = Unwound(Last(handlers))
       /\ handlers' = Front(handlers)
       /\ UNCHANGED outcome

ThrowMsg(st, m) == Throw(st, Str(<<m>>))

\* Leave the outcome of an operation on st: push its value or throw.
Push(st, r) == IF r.ok THEN Continue(Append(st, r.val)) ELSE Throw(st, r.val)

\* Call fn with st as the stack: the caller resumes after the call.  A callable
\* value holds its function, so there always is one.
Enter(st, frame) ==
  /\ frame.function \in DOMAIN prog.fns
  /\ stack' = st
  /\ frames' = Append([frames EXCEPT ![Len(frames)].ip = @ + 1], frame)
  /\ UNCHANGED <<handlers, outcome>>

(***************************************************************************)
(* What each opcode takes from the stack.  pop() on an empty stack and     *)
(* peek() below it throw: Fetch holds when the operands are there, and     *)
(* opUnderflow is what happens when they are not.                          *)
(***************************************************************************)
PeekOps == {"DUP", "DECL_CHECK", "ASSERT_BOOL", "ITER_NEXT", "ITER_VALUE", "CALL", "INVOKE",
            "SET_LOCAL", "SET_GLOBAL", "SET_UPVALUE",
            "SET_LOCAL_POP", "SET_GLOBAL_POP", "SET_UPVALUE_POP"}

Operands(i) ==
  CASE i.op \in PeekOps \ {"CALL", "INVOKE"} -> 1
    [] i.op = "CALL"   -> i.arg + 1
    [] i.op = "INVOKE" -> i.arg.argc + 1
    [] i.op \in {"POP", "NEGATE", "NOT", "JUMP_IF_FALSE", "RETURN", "DEFINE_GLOBAL", "GET_MEMBER",
                 "ITER_INIT", "TYPE_CHECK", "YIELD"} -> 1
    [] i.op \in BinaryOps \cup {"INDEX_GET", "SET_MEMBER", "SET_MEMBER_POP"} -> 2
    [] i.op \in {"INDEX_SET", "RANGE_CHECK"} -> 3
    [] i.op \in {"BUILD_ARRAY", "BUILD_TUPLE", "INTERPOLATE"} -> i.arg
    [] i.op = "BUILD_HASHMAP" -> 2 * i.arg
    [] i.op = "SLICE" -> 1 + Cardinality(i.arg)
    [] OTHER -> 0

HasInstr == outcome = Running /\ Top.ip \in DOMAIN CodeOf(Top.function).code

Fetch(ops) == HasInstr /\ Instr.op \in ops /\ Len(stack) >= Operands(Instr)

opUnderflow ==
  /\ HasInstr /\ Len(stack) < Operands(Instr)
  /\ ThrowMsg(IF Instr.op \in PeekOps THEN stack ELSE << >>, "stack-empty")
  /\ UNCHANGED <<prog, data, limits>>

\* The end of the code without a return: the top of the stack is the result.
opEnd ==
  /\ outcome = Running /\ ~HasInstr
  /\ outcome' = Returned(IF stack = << >> THEN Null ELSE Peek(0))
  /\ UNCHANGED <<prog, stack, frames, handlers, data, limits>>

Pure == UNCHANGED <<prog, data, limits>>

-----------------------------------------------------------------------------
(* Constants, operators and variables.                                     *)

opConstant == /\ Fetch({"CONSTANT", "NULL", "TRUE", "FALSE"})
              /\ Continue(Append(stack, CASE Instr.op = "CONSTANT" -> Instr.arg
                                          [] Instr.op = "NULL" -> Null
                                          [] OTHER -> Bool(Instr.op = "TRUE")))
              /\ Pure

opBinary == /\ Fetch(BinaryOps)
            /\ Push(Drop(2), binaryOp(Instr.op, Peek(1), Peek(0)))
            /\ Pure

opNegate == Fetch({"NEGATE"}) /\ Push(Drop(1), Negate(Peek(0))) /\ Pure

opNot == Fetch({"NOT"}) /\ Push(Drop(1), Not(Peek(0))) /\ Pure

opPop == Fetch({"POP"}) /\ Continue(Drop(1)) /\ Pure

opDup == Fetch({"DUP"}) /\ Continue(Append(stack, Peek(0))) /\ Pure

opGetLocal ==
  /\ Fetch({"GET_LOCAL"})
  /\ IF SlotIndex(Instr.arg) <= Len(stack)
     THEN Continue(Append(stack, stack[SlotIndex(Instr.arg)]))
     ELSE ThrowMsg(stack, "slot-range")
  /\ Pure

\* The fused instructions of the peephole pass also pop the value they set.
Fused == {"SET_LOCAL_POP", "SET_GLOBAL_POP", "SET_UPVALUE_POP", "SET_MEMBER_POP"}
AfterSet(st) == IF Instr.op \in Fused THEN Front(st) ELSE st

opSetLocal ==
  /\ Fetch({"SET_LOCAL", "SET_LOCAL_POP"})
  /\ IF SlotIndex(Instr.arg) <= Len(stack)
     THEN Continue(AfterSet([stack EXCEPT ![SlotIndex(Instr.arg)] = Peek(0)]))
     ELSE ThrowMsg(stack, "slot-range")
  /\ Pure

Builtins == {"print", "length", "push"}

opGetGlobal ==
  /\ Fetch({"GET_GLOBAL"})
  /\ LET name == Instr.arg
     IN  Push(stack, IF name \in DOMAIN globals THEN Ok(globals[name])
                     ELSE IF name \in Builtins THEN Ok(Builtin(name))
                     ELSE Throws("unknown-name"))
  /\ Pure

opSetGlobal ==
  /\ Fetch({"SET_GLOBAL", "SET_GLOBAL_POP"})
  /\ globals' = (Instr.arg :> Peek(0)) @@ globals
  /\ Continue(AfterSet(stack))
  /\ UNCHANGED <<prog, heap, classes, imported, out, limits>>

\* A class takes over what it does not define itself from its parent, the
\* first time it is defined with the parent's name bound to a class.
Inherits(c) == LET k == classes[c]
               IN  /\ k.parentName # "" /\ k.parent = ""
                   /\ k.parentName \in DOMAIN globals
                   /\ Tag(globals[k.parentName]) = "class"

ResolveParent(c) ==
  LET p == globals[classes[c].parentName][2]
      q == classes[p]
      k == classes[c]
  IN  [classes EXCEPT ![c] = [k EXCEPT !.parent  = p,
                                       !.fields  = k.fields \cup q.fields,
                                       !.ctor    = IF k.ctor = None THEN q.ctor ELSE k.ctor,
                                       !.methods = k.methods @@ q.methods]]

opDefineGlobal ==
  /\ Fetch({"DEFINE_GLOBAL"})
  /\ classes' = IF Tag(Peek(0)) = "class" /\ Inherits(Peek(0)[2])
                THEN ResolveParent(Peek(0)[2]) ELSE classes
  /\ globals' = (Instr.arg :> Peek(0)) @@ globals
  /\ Continue(Drop(1))
  /\ UNCHANGED <<prog, heap, imported, out, limits>>

-----------------------------------------------------------------------------
(* Control flow.                                                           *)

opJump == Fetch({"JUMP"}) /\ Goto(stack, Target) /\ Pure

opJumpIfFalse ==
  /\ Fetch({"JUMP_IF_FALSE"})
  /\ IF Tag(Peek(0)) # "bool" THEN ThrowMsg(Drop(1), "condition-type")
     ELSE Goto(Drop(1), IF Peek(0)[2] THEN NextIp ELSE Target)
  /\ Pure

\* incrementLoopCounter and checkLimits: one more iteration, then the checks.
\* The count is capped one above the bound, where it stays exceeded.
CountLoop == loops' = IF HasLimiter /\ loops <= MaxLoopIterations THEN loops + 1 ELSE loops
LimitHit  == HasLimiter /\ (loops + 1 > MaxLoopIterations \/ late)
LimitMsg  == IF loops + 1 > MaxLoopIterations THEN "loop-limit" ELSE "timeout"

opLoop ==
  /\ Fetch({"LOOP"})
  /\ IF LimitHit THEN ThrowMsg(stack, LimitMsg) ELSE Goto(stack, Target)
  /\ CountLoop
  /\ UNCHANGED <<prog, data, late>>

-----------------------------------------------------------------------------
(* Calls.                                                                  *)

DefaultCount(fn) == Cardinality({i \in DOMAIN fn.defaults : fn.defaults[i] # None})

\* A wrong variant of TooDeep: one call too many.
OneTooDeep == Len(frames) > FRAMES_MAX

\* Calls of functions are refused at the limit; no other call is.
TooDeep == Len(frames) >= FRAMES_MAX

\* fillDefaults: the argument counts fn takes, and the stack with the missing
\* arguments pushed.
Accepts(fn, argc) == fn.arity - DefaultCount(fn) <= argc /\ argc <= fn.arity
Filled(fn, argc)  ==
  stack \o [i \in 1..fn.arity - argc |-> LET d == fn.defaults[argc + i]
                                         IN  IF d = None THEN Null ELSE d[1]]

\* A checked parameter takes its type, and Null only when it is optional.
TypeAllows(want, v) == \/ want.type = "any"
                       \/ Tag(v) = want.type
                       \/ v = Null /\ want.optional
ParamsAllow(fn, st) ==
  \A i \in 1..fn.arity : TypeAllows(fn.params[i], st[Len(st) - fn.arity + i])

\* Builtins are external; these three stand for one that prints, one that
\* reads and one that changes an object of the heap.
BuiltinResult(b, args) ==
  LET arity(n) == Len(args) = n
      size == CASE Tag(args[1]) = "str" -> Len(args[1][2])
                [] Tag(args[1]) = "array" -> Len(heap[args[1][2]].elements)
                [] OTHER -> Cardinality(DOMAIN heap[args[1][2]].pairs)
  IN  CASE b = "print" -> [r |-> Ok(Null), heap |-> heap,
                           out |-> Append(out, FlattenSeq([i \in DOMAIN args |-> Display(args[i])]))]
        [] b = "length" /\ arity(1) /\ Tag(args[1]) \in {"str", "array", "map"} ->
             [r |-> Ok(IntVal(size)), heap |-> heap, out |-> out]
        [] b = "push" /\ arity(2) /\ Tag(args[1]) = "array" ->
             [r |-> Ok(Null), out |-> out,
              heap |-> [heap EXCEPT ![args[1][2]].elements = Append(@, args[2])]]
        [] OTHER -> [r |-> Throws("builtin-arguments"), heap |-> heap, out |-> out]

RunBuiltin(b, args, st) ==
  LET res == BuiltinResult(b, args)
  IN  /\ Push(st, res.r)
      /\ heap' = res.heap /\ out' = res.out
      /\ UNCHANGED <<prog, globals, classes, imported, limits>>

Callee == Peek(Instr.arg)

opCallBuiltin ==
  /\ Fetch({"CALL"}) /\ Tag(Callee) = "builtin"
  /\ RunBuiltin(Callee[2], TopN(Instr.arg), Drop(Instr.arg + 1))

\* A function value holds its function, so there always is one.
opCallFunction ==
  /\ Fetch({"CALL"}) /\ Tag(Callee) = "fn" /\ Callee[2] \in DOMAIN prog.fns
  /\ LET fn == CodeOf(Callee[2])
         st == Filled(fn, Instr.arg)
     IN  IF ~Accepts(fn, Instr.arg) THEN ThrowMsg(stack, "argument-count")
         ELSE IF ~ParamsAllow(fn, st) THEN ThrowMsg(st, "argument-type")
         ELSE IF TooDeep THEN ThrowMsg(st, "frame-limit")
         ELSE Enter(st, Frame(Callee[2], Len(st) - fn.arity, TRUE, Callee[3], fn.hasYield))
  /\ Pure

\* A fresh instance takes the place of the class below the arguments, where
\* the constructor finds it as its slot 0.
NewInstance(c) == [class |-> c, fields |-> [f \in classes[c].fields |-> Null]]

opCallClass ==
  /\ Fetch({"CALL"}) /\ Tag(Callee) = "class" /\ Callee[2] \in DOMAIN classes
  /\ LET c    == Callee[2]
         self == Ref("inst", Len(heap) + 1)
         ctor == classes[c].ctor
     IN  IF ctor = None
         THEN Continue(Append(Drop(Instr.arg + 1), self))
         ELSE LET fn   == CodeOf(ctor[1])
                  st   == Filled(fn, Instr.arg)
                  base == Len(st) - fn.arity - 1
              IN  IF ~Accepts(fn, Instr.arg) THEN ThrowMsg(stack, "argument-count")
                  ELSE Enter([st EXCEPT ![base + 1] = self],
                             Frame(ctor[1], base, TRUE, << >>, FALSE))
  /\ heap' = Append(heap, NewInstance(Callee[2]))
  /\ UNCHANGED <<prog, globals, classes, imported, out, limits>>

opCallOther ==
  /\ Fetch({"CALL"}) /\ Tag(Callee) \notin {"builtin", "fn", "class"}
  /\ ThrowMsg(stack, "not-callable")
  /\ Pure

Receiver == Peek(Instr.arg.argc)
HasBuiltinMethods == Tag(Receiver) \in {"str", "array", "map"} /\ Instr.arg.name \in Builtins

opInvokeBuiltin ==
  /\ Fetch({"INVOKE"}) /\ HasBuiltinMethods
  /\ RunBuiltin(Instr.arg.name, TopN(Instr.arg.argc + 1), Drop(Instr.arg.argc + 1))

\* An instance holds its class, so there always is one.
opInvoke ==
  /\ Fetch({"INVOKE"}) /\ ~HasBuiltinMethods
  /\ IF Tag(Receiver) # "inst" THEN ThrowMsg(stack, "not-an-instance")
     ELSE /\ heap[Receiver[2]].class \in DOMAIN classes
          /\ LET methods == classes[heap[Receiver[2]].class].methods
                 m  == methods[Instr.arg.name]
                 st == Filled(CodeOf(m), Instr.arg.argc)
             IN  IF Instr.arg.name \notin DOMAIN methods THEN ThrowMsg(stack, "unknown-method")
                 ELSE IF ~Accepts(CodeOf(m), Instr.arg.argc) THEN ThrowMsg(stack, "argument-count")
                 ELSE Enter(st, Frame(m, Len(st) - CodeOf(m).arity - 1, FALSE, << >>, FALSE))
  /\ Pure

(***************************************************************************)
(* opReturn.  The handlers the ended frame registered go with it; so does  *)
(* the callee below its slots, when the frame has one.                     *)
(***************************************************************************)
LiveCount(depth) == CHOOSE n \in 0..Len(handlers) :
                      /\ n = 0 \/ handlers[n].frameDepth <= depth
                      /\ \A i \in n + 1..Len(handlers) : handlers[i].frameDepth > depth

\* A wrong variant of LiveHandlers: those of the call that ends stay.
AllHandlers(depth) == handlers

LiveHandlers(depth) == SubSeq(handlers, 1, LiveCount(depth))
PopsCallee(st)      == Top.hasCallee /\ st # << >> /\ Len(st) > frames[Len(frames) - 1].slotOffset

opReturn ==
  /\ Fetch({"RETURN"})
  /\ LET fn      == CodeOf(Top.function)
         below   == Keep(Drop(1), Top.slotOffset)
         callers == Front(frames)
         result  == IF Top.isGenerator THEN Ref("array", Len(heap) + 1) ELSE Peek(0)
         checked == fn.returns.type # "any" /\ ~Top.isGenerator
     IN  IF checked /\ ~TypeAllows(fn.returns, Peek(0))
         THEN ThrowMsg(Drop(1), "return-type") /\ UNCHANGED heap
         ELSE /\ frames' = callers
              /\ handlers' = LiveHandlers(Len(callers))
              /\ heap' = IF Top.isGenerator THEN Append(heap, [elements |-> Top.yieldBuffer])
                                            ELSE heap
              /\ IF callers = << >>
                 THEN stack' = below /\ outcome' = Returned(result)
                 ELSE /\ stack' = Append(IF PopsCallee(below) THEN Front(below) ELSE below, result)
                      /\ UNCHANGED outcome
  /\ UNCHANGED <<prog, globals, classes, imported, out, limits>>

opYield ==
  /\ Fetch({"YIELD"})
  /\ stack' = Drop(1)
  /\ frames' = [frames EXCEPT ![Len(frames)].ip = @ + 1,
                              ![Len(frames)].yieldBuffer = Append(@, Peek(0))]
  /\ UNCHANGED <<handlers, outcome>> /\ Pure

-----------------------------------------------------------------------------
(* Exceptions.                                                             *)

\* Wrong variants of Handler: the address before the jump's operand is read, and the
\* top of the stack is taken for its depth.
HandlerShort == [catchIp    |-> Top.ip + Instr.arg,
                 frameDepth |-> Len(frames),
                 stackDepth |-> Len(stack)]
HandlerLow   == [catchIp    |-> Top.ip + 1 + Instr.arg,
                 frameDepth |-> Len(frames),
                 stackDepth |-> Len(stack) - 1]

Handler == [catchIp    |-> Top.ip + 1 + Instr.arg,
            frameDepth |-> Len(frames),
            stackDepth |-> Len(stack)]

Advance == frames' = [frames EXCEPT ![Len(frames)].ip = @ + 1]

opTryBegin ==
  /\ Fetch({"TRY_BEGIN"})
  /\ handlers' = Append(handlers, Handler)
  /\ Advance
  /\ UNCHANGED <<stack, outcome>> /\ Pure

opTryEnd ==
  /\ Fetch({"TRY_END"})
  /\ handlers' = IF handlers = << >> THEN handlers ELSE Front(handlers)
  /\ Advance
  /\ UNCHANGED <<stack, outcome>> /\ Pure

-----------------------------------------------------------------------------
(* Arrays, maps, tuples, strings.                                          *)

Allocate(tag, object, n) ==
  /\ heap' = Append(heap, object)
  /\ Continue(Append(Drop(n), Ref(tag, Len(heap) + 1)))
  /\ UNCHANGED <<prog, globals, classes, imported, out, limits>>

opBuildArray == Fetch({"BUILD_ARRAY"}) /\ Allocate("array", [elements |-> TopN(Instr.arg)], Instr.arg)

opBuildTuple ==
  /\ Fetch({"BUILD_TUPLE"})
  /\ Continue(Append(Drop(Instr.arg), TupleVal(TopN(Instr.arg))))
  /\ Pure

\* Of two entries with one key the later wins.
opBuildHashMap ==
  /\ Fetch({"BUILD_HASHMAP"})
  /\ LET entries == TopN(2 * Instr.arg)
         Key(i)  == entries[2 * i - 1]
         keys    == {Key(i) : i \in 1..Instr.arg}
         last(k) == CHOOSE i \in 1..Instr.arg : Key(i) = k /\ \A j \in i + 1..Instr.arg : Key(j) # k
     IN  IF \A k \in keys : Tag(k) = "str"
         THEN Allocate("map", [pairs |-> [k \in keys |-> entries[2 * last(k)]]], 2 * Instr.arg)
         ELSE ThrowMsg(Drop(2 * Instr.arg), "map-key") /\ Pure

opInterpolate ==
  /\ Fetch({"INTERPOLATE"})
  /\ LET segments == TopN(Instr.arg)
     IN  Continue(Append(Drop(Instr.arg), Str(FlattenSeq([i \in DOMAIN segments |-> Display(segments[i])]))))
  /\ Pure

IndexGet(col, index) ==
  CASE Tag(col) = "array" -> ElementAt(heap[col[2]].elements, index, LAMBDA x : x)
    [] Tag(col) = "str"   -> ElementAt(col[2], index, LAMBDA x : Str(<<x>>))
    [] Tag(col) = "map"   -> IF Tag(index) # "str" THEN Throws("map-key")
                             ELSE IF index \notin DOMAIN heap[col[2]].pairs THEN Throws("no-such-key")
                             ELSE Ok(heap[col[2]].pairs[index])
    [] Tag(col) = "tuple" -> IF IsInt(index) /\ index[2] >= 0 THEN ElementAt(col[2], index, LAMBDA x : x)
                             ELSE Throws("index-range")
    [] OTHER              -> Throws("not-indexable")

opIndexGet == Fetch({"INDEX_GET"}) /\ Push(Drop(2), IndexGet(Peek(1), Peek(0))) /\ Pure

\* The heap after collection[index] = value, or what the assignment throws.
IndexSet(col, index, value) ==
  CASE Tag(col) = "array" ->
         LET at == ElementAt(heap[col[2]].elements, index, LAMBDA x : x)
         IN  IF ~at.ok THEN at
             ELSE Ok([heap EXCEPT ![col[2]].elements[
                        Position(index[2], Len(heap[col[2]].elements))[1]] = value])
    [] Tag(col) = "map"   -> IF Tag(index) # "str" THEN Throws("map-key")
                             ELSE Ok([heap EXCEPT ![col[2]].pairs = (index :> value) @@ @])
    [] OTHER              -> Throws("not-assignable")

opIndexSet ==
  /\ Fetch({"INDEX_SET"})
  /\ LET res == IndexSet(Peek(2), Peek(1), Peek(0))
     IN  IF res.ok THEN heap' = res.val /\ Continue(Append(Drop(3), Peek(0)))
                   ELSE Throw(Drop(3), res.val) /\ UNCHANGED heap
  /\ UNCHANGED <<prog, globals, classes, imported, out, limits>>

\* The operand is the set of bounds present; a missing bound is None.
opSlice ==
  /\ Fetch({"SLICE"})
  /\ LET n   == Operands(Instr)
         hi  == IF "end" \in Instr.arg THEN Some(Peek(0)) ELSE None
         lo  == IF "start" \in Instr.arg THEN Some(Peek(n - 2)) ELSE None
         col == Peek(n - 1)
     IN  IF Tag(col) \notin {"array", "str"} \/ \E b \in {lo, hi} : b # None /\ ~IsInt(b[1])
         THEN ThrowMsg(Drop(n), "slice") /\ Pure
         ELSE IF Tag(col) = "array"
              THEN Allocate("array", [elements |-> SliceOf(heap[col[2]].elements, lo, hi)], n)
              ELSE Continue(Append(Drop(n), Str(SliceOf(col[2], lo, hi)))) /\ Pure

-----------------------------------------------------------------------------
(* Instances, iterators, captured variables.                               *)

opGetMember ==
  /\ Fetch({"GET_MEMBER"})
  /\ LET obj == Peek(0)
     IN  Push(Drop(1), IF Tag(obj) # "inst" THEN Throws("not-an-instance")
                       ELSE IF Instr.arg \notin DOMAIN heap[obj[2]].fields THEN Throws("no-such-field")
                       ELSE Ok(heap[obj[2]].fields[Instr.arg]))
  /\ Pure

opSetMember ==
  /\ Fetch({"SET_MEMBER", "SET_MEMBER_POP"})
  /\ LET obj == Peek(0)
     IN  IF Tag(obj) = "inst"
         THEN /\ heap' = [heap EXCEPT ![obj[2]].fields = (Instr.arg :> Peek(1)) @@ @]
              /\ Continue(AfterSet(Drop(1)))
         ELSE ThrowMsg(Drop(1), "not-an-instance") /\ UNCHANGED heap
  /\ UNCHANGED <<prog, globals, classes, imported, out, limits>>

opIterInit ==
  /\ Fetch({"ITER_INIT"})
  /\ IF Tag(Peek(0)) \in {"array", "str"}
     THEN Allocate("iter", [over |-> Peek(0), index |-> 0], 1)
     ELSE ThrowMsg(Drop(1), "not-iterable") /\ Pure

Iterator == heap[Peek(0)[2]]
\* An array is read again at every step; the code points were taken at the start.
Remaining == LET s == IF Tag(Iterator.over) = "array" THEN heap[Iterator.over[2]].elements
                                                      ELSE Iterator.over[2]
             IN  SubSeq(s, Iterator.index + 1, Len(s))

opIterNext ==
  /\ Fetch({"ITER_NEXT"})
  /\ IF Tag(Peek(0)) # "iter" THEN ThrowMsg(stack, "not-an-iterator") /\ UNCHANGED loops
     ELSE IF Remaining = << >> THEN Goto(stack, Target) /\ UNCHANGED loops
     ELSE /\ CountLoop
          /\ IF LimitHit THEN ThrowMsg(stack, LimitMsg) ELSE Continue(stack)
  /\ UNCHANGED <<prog, data, late>>

opIterValue ==
  /\ Fetch({"ITER_VALUE"})
  /\ IF Tag(Peek(0)) # "iter" \/ Remaining = << >>
     THEN ThrowMsg(stack, "not-an-iterator") /\ UNCHANGED heap
     ELSE /\ Continue(Append(stack, IF Tag(Iterator.over) = "str" THEN Str(<<Head(Remaining)>>)
                                                                  ELSE Head(Remaining)))
          /\ heap' = [heap EXCEPT ![Peek(0)[2]].index = @ + 1]
  /\ UNCHANGED <<prog, globals, classes, imported, out, limits>>

\* A captured local is copied into a fresh cell; a variable the enclosing
\* closure had captured itself shares that closure's cell.
opClosure ==
  /\ Fetch({"CLOSURE"})
  /\ LET ups    == Instr.arg.upvalues
         locals == SelectSeq(ups, LAMBDA u : u.isLocal)
         cell(i) == IF ups[i].isLocal
                    THEN Len(heap) + Cardinality({j \in 1..i : ups[j].isLocal})
                    ELSE Top.closure[ups[i].index + 1]
     IN  /\ heap' = heap \o [j \in DOMAIN locals |-> [val |-> stack[SlotIndex(locals[j].index)]]]
         /\ Continue(Append(stack, Fn(Instr.arg.function, [i \in DOMAIN ups |-> cell(i)])))
  /\ UNCHANGED <<prog, globals, classes, imported, out, limits>>

HasUpvalue == Instr.arg < Len(Top.closure)

opGetUpvalue ==
  /\ Fetch({"GET_UPVALUE"})
  /\ Continue(Append(stack, IF HasUpvalue THEN heap[Top.closure[Instr.arg + 1]].val ELSE Null))
  /\ Pure

opSetUpvalue ==
  /\ Fetch({"SET_UPVALUE", "SET_UPVALUE_POP"})
  /\ heap' = IF HasUpvalue THEN [heap EXCEPT ![Top.closure[Instr.arg + 1]].val = Peek(0)] ELSE heap
  /\ Continue(AfterSet(stack))
  /\ UNCHANGED <<prog, globals, classes, imported, out, limits>>

-----------------------------------------------------------------------------
(* Checks and patterns.                                                    *)

opRangeCheck ==
  Fetch({"RANGE_CHECK"}) /\ Continue(Append(Drop(3), RangeCheck(Peek(2), Peek(1), Peek(0)))) /\ Pure

opTypeCheck ==
  /\ Fetch({"TYPE_CHECK"})
  /\ Continue(Append(Drop(1), Bool(Instr.arg \in BasicTypes /\ Tag(Peek(0)) = Instr.arg)))
  /\ Pure

opAssertBool ==
  /\ Fetch({"ASSERT_BOOL"})
  /\ IF Tag(Peek(0)) = "bool" THEN Continue(stack) ELSE ThrowMsg(stack, "logical-type")
  /\ Pure

\* The class of an instance and the classes it descends from.
Ancestry[c \in DOMAIN prog.classes] ==
  IF classes[c].parent = "" THEN {c} ELSE {c} \cup Ancestry[classes[c].parent]

DeclAccepts(want, v) ==
  CASE v = Null         -> want.optional
    [] Tag(v) = "inst"  -> want.type \in Ancestry[heap[v[2]].class]
    [] Tag(v) \in {"fn", "class", "builtin", "tuple", "iter"} -> TRUE
    [] OTHER            -> Tag(v) = want.type

opDeclCheck ==
  /\ Fetch({"DECL_CHECK"})
  /\ IF DeclAccepts(Instr.arg, Peek(0)) THEN Continue(stack) ELSE ThrowMsg(stack, "declared-type")
  /\ Pure

-----------------------------------------------------------------------------
(* opImport.  A name outside DOMAIN files is a path userPathError refuses. *)

opImport ==
  /\ Fetch({"IMPORT"})
  /\ LET name  == Instr.arg
         files == prog.files
     IN  /\ imported' = IF name \in DOMAIN files THEN imported \cup {name} ELSE imported
         /\ IF name \notin DOMAIN files THEN ThrowMsg(stack, "import-path")
            ELSE IF name \in imported THEN Continue(stack)
            ELSE IF files[name] = None THEN ThrowMsg(stack, "import-failed")
            ELSE Enter(stack, Frame(files[name][1], Len(stack), FALSE, << >>, FALSE))
  /\ UNCHANGED <<prog, globals, heap, classes, out, limits>>

-----------------------------------------------------------------------------
Opcodes == BinaryOps \cup PeekOps \cup
  {"CONSTANT", "NULL", "TRUE", "FALSE", "NEGATE", "NOT", "POP", "GET_LOCAL", "GET_GLOBAL",
   "DEFINE_GLOBAL", "JUMP", "JUMP_IF_FALSE", "LOOP", "RETURN", "YIELD", "TRY_BEGIN", "TRY_END",
   "BUILD_ARRAY", "BUILD_TUPLE", "BUILD_HASHMAP", "INTERPOLATE", "INDEX_GET", "INDEX_SET", "SLICE",
   "GET_MEMBER", "SET_MEMBER", "SET_MEMBER_POP", "ITER_INIT", "CLOSURE", "GET_UPVALUE",
   "RANGE_CHECK", "TYPE_CHECK", "IMPORT"}

opUnknown == HasInstr /\ Instr.op \notin Opcodes /\ ThrowMsg(stack, "unknown-opcode") /\ Pure

Step ==
  \/ opConstant \/ opBinary \/ opNegate \/ opNot \/ opPop \/ opDup
  \/ opGetLocal \/ opSetLocal \/ opGetGlobal \/ opSetGlobal \/ opDefineGlobal
  \/ opJump \/ opJumpIfFalse \/ opLoop
  \/ opCallBuiltin \/ opCallFunction \/ opCallClass \/ opCallOther
  \/ opInvokeBuiltin \/ opInvoke \/ opReturn \/ opYield
  \/ opTryBegin \/ opTryEnd
  \/ opBuildArray \/ opBuildTuple \/ opBuildHashMap \/ opInterpolate
  \/ opIndexGet \/ opIndexSet \/ opSlice
  \/ opGetMember \/ opSetMember \/ opIterInit \/ opIterNext \/ opIterValue
  \/ opClosure \/ opGetUpvalue \/ opSetUpvalue
  \/ opRangeCheck \/ opTypeCheck \/ opAssertBool \/ opDeclCheck \/ opImport
  \/ opUnderflow \/ opEnd \/ opUnknown

\* The wall clock passes the limiter's deadline at any time.
Clock == outcome = Running /\ HasLimiter /\ ~late /\ late' = TRUE
         /\ UNCHANGED <<prog, control, data, loops>>

\* Execute has returned or thrown; a VM is used for one program.
Ended == outcome # Running /\ UNCHANGED vars

Next == Step \/ Clock \/ Ended

\* run() never waits: as long as the program runs the VM takes its next step.
Spec == Init /\ [][Next]_vars /\ WF_vars(Step)

-----------------------------------------------------------------------------
(* Properties of the machine, whatever the bytecode.                       *)

\* The shape of the control state: while the program runs there is a call, and
\* the limiter's count stays within its cap.
FrameFields == {"function", "ip", "slotOffset", "hasCallee", "closure", "isGenerator", "yieldBuffer"}
IsFrame(f)  == DOMAIN f = FrameFields /\ f.hasCallee \in BOOLEAN
IsSeq(s)    == s \in Seq(Range(s))
TypeOK ==
  /\ IsSeq(frames) /\ \A i \in DOMAIN frames : IsFrame(frames[i])
  /\ IsSeq(handlers)
  /\ loops \in 0..MaxLoopIterations + 1 /\ late \in BOOLEAN
  /\ outcome = Running \/ outcome \in {Returned(outcome[2]), Failed(outcome[2])}
  /\ outcome = Running => frames # << >>

\* Every registered handler belongs to a frame that is still on the call
\* stack, and handlers registered later belong to the same or an inner call:
\* whatever returns or unwinds, an exception never resumes a call that ended.
HandlersLive ==
  /\ \A i \in DOMAIN handlers : handlers[i].frameDepth \in 1..Len(frames)
  /\ \A i, j \in DOMAIN handlers : i < j => handlers[i].frameDepth <= handlers[j].frameDepth

\* The catch address of a handler was compiled into the function its frame is
\* running: catching an exception never jumps to an address of other code.
CatchInOwnFunction ==
  \A i \in {j \in DOMAIN handlers : handlers[j].frameDepth \in DOMAIN frames} :
    LET h    == handlers[i]
        code == CodeOf(frames[h.frameDepth].function).code
    IN  \E pc \in DOMAIN code : code[pc].op = "TRY_BEGIN" /\ h.catchIp = JumpTarget(code, pc)

\* Only the current call and the one a step returns or unwinds to change:
\* the calls below them keep their function, position and slots.
CallersUntouched ==
  [][\A i \in DOMAIN frames \cap DOMAIN frames' :
       i < Len(frames) /\ i < Len(frames') => frames'[i] = frames[i]]_vars

\* However calls of functions, methods, constructors and imports nest and are
\* unwound, no function runs deeper than FRAMES_MAX.
Constructors  == {classes[c].ctor[1] : c \in {d \in DOMAIN classes : classes[d].ctor # None}}
FramesBounded ==
  \A i \in FRAMES_MAX + 1..Len(frames) : frames[i].hasCallee => frames[i].function \in Constructors

\* The limiter ends every program, whatever it loops over and catches.
LimiterEnds == HasLimiter => <>(outcome # Running)

=============================================================================
