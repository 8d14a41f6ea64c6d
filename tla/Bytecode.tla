------------------------------ MODULE Bytecode ------------------------------
(***************************************************************************)
(* vm/opcode.h, vm/chunk.h: the instructions the compiler emits, the       *)
(* peephole pass rewrites and the VM executes.                             *)
(*                                                                         *)
(* An instruction is an opcode and its operand; an address is an index     *)
(* into the instruction sequence.  Jump operands are, as in the chunk,     *)
(* distances from the instruction that follows the jump (OP_LOOP: back).   *)
(***************************************************************************)
EXTENDS Integers, Sequences

I(op, arg) == [op |-> op, arg |-> arg]
Op(op)     == I(op, 0)

ForwardJumps == {"JUMP", "JUMP_IF_FALSE", "ITER_NEXT", "TRY_BEGIN"}
Jumps        == ForwardJumps \cup {"LOOP"}

\* The address a jump at `pos` leads to.
JumpTarget(code, pos) == IF code[pos].op = "LOOP" THEN pos + 1 - code[pos].arg
                                                  ELSE pos + 1 + code[pos].arg

JumpTargets(code) == {JumpTarget(code, p) : p \in {q \in DOMAIN code : code[q].op \in Jumps}}

(***************************************************************************)
(* CompiledFunction.  A parameter or return type is a record; Unchecked    *)
(* stands for ObjectType::NULL_OBJ.  A default is None or Some(v).         *)
(***************************************************************************)
Unchecked == [type |-> "any", optional |-> FALSE]

CompiledFunction(code, params, returns, defaults, hasYield) ==
  [code |-> code, arity |-> Len(params), params |-> params, returns |-> returns,
   defaults |-> defaults, hasYield |-> hasYield]

=============================================================================
