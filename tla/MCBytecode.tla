----------------------------- MODULE MCBytecode -----------------------------
(***************************************************************************)
(* The VM on every bytecode of a few instructions: a main program that     *)
(* registers handlers, calls, loops, throws and returns in any order, and  *)
(* the function it calls.  Most of these programs no compiler emits.       *)
(***************************************************************************)
EXTENDS VM

CONSTANTS MainLength, CalleeLength   \* pieces in the main program and in the callee

\* A program piece is an instruction, a call of the function "f", or a call of it
\* that, where it is refused, makes an object, whose constructor calls "f" as well.
CallF == <<I("CONSTANT", Fn("f", << >>)), I("CALL", 0)>>
MakeC == <<I("CONSTANT", Class("C")), I("CALL", 0)>>
CallOrMake == <<I("TRY_BEGIN", 2)>> \o CallF \o MakeC
C == [parentName |-> "", parent |-> "", fields |-> {}, ctor |-> Some("make"), methods |-> << >>]

MainPieces == {<<Op("NULL")>>, <<I("TRY_BEGIN", 1)>>, <<I("TRY_BEGIN", 2)>>, <<Op("TRY_END")>>,
                 CallF, <<Op("NOT")>>, <<I("LOOP", 2)>>, <<Op("POP")>>}
CalleePieces == {<<Op("HALT")>>, <<I("TRY_BEGIN", 1)>>, <<Op("NOT")>>, <<I("TRY_BEGIN", 1), Op("NOT")>>, CallF, CallOrMake}

Plain(code) == CompiledFunction(code, << >>, Unchecked, << >>, FALSE)

Codes(pieces, length) == {FlattenSeq(p) : p \in [1..length -> pieces]}

\* A jump before the first instruction has no address in the chunk.
Mains == {code \in Codes(MainPieces, MainLength) : \A t \in JumpTargets(code) : t > 0}

MCPrograms ==
  {[main |-> "main", classes |-> [c \in {"C"} |-> C], files |-> << >>,
    fns |-> [main |-> Plain(m), f |-> Plain(f \o <<Op("NULL"), Op("RETURN")>>),
            make |-> Plain(CallF \o <<Op("NULL"), Op("RETURN")>>)]] :
   m \in Mains, f \in Codes(CalleePieces, CalleeLength)}

=============================================================================
