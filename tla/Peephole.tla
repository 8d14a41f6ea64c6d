------------------------------ MODULE Peephole ------------------------------
(***************************************************************************)
(* vm/peephole.cpp: the pass that fuses a store with the POP behind it.    *)
(* The instructions keep their order; those behind a dropped POP move up,  *)
(* and every jump is measured anew.                                        *)
(***************************************************************************)
EXTENDS Bytecode, FiniteSetsExt

fusedOpFor == [SET_LOCAL   |-> "SET_LOCAL_POP",   SET_GLOBAL |-> "SET_GLOBAL_POP",
               SET_UPVALUE |-> "SET_UPVALUE_POP", SET_MEMBER |-> "SET_MEMBER_POP"]

\* The stores whose POP can go: nothing jumps to it.
FusedAt(code, targets) == {i \in 1..Len(code) - 1 : /\ code[i].op \in DOMAIN fusedOpFor
                                                    /\ code[i + 1].op = "POP"
                                                    /\ i + 1 \notin targets}

\* A wrong variant of posMap: the old addresses.
posMapOld(fused, p) == p

\* Where the instruction at address p moves; the end of the code moves too.
posMap(fused, p) == p - Cardinality({i \in fused : i + 1 < p})

\* The instruction of code at i, in its new form.
Rewritten(code, fused, i) ==
  LET in == code[i]
      distance == posMap(fused, JumpTarget(code, i)) - posMap(fused, i) - 1
  IN  IF i \in fused THEN I(fusedOpFor[in.op], in.arg)
      ELSE IF in.op \notin Jumps THEN in
      ELSE I(in.op, IF in.op = "LOOP" THEN -distance ELSE distance)

\* Code with a jump to no instruction is left alone.  The marks of statements
\* move with their instructions.
optimizeChunk(fn) ==
  LET code    == fn.code
      targets == JumpTargets(code)
      fused   == FusedAt(code, targets)
      kept(i) == i - 1 \notin fused
      order   == SelectSeq([i \in DOMAIN code |-> i], kept)
  IN  IF ~(targets \subseteq 1..Len(code) + 1) THEN fn
      ELSE [fn EXCEPT !.code  = [k \in DOMAIN order |-> Rewritten(code, fused, order[k])],
                      !.marks = {[m EXCEPT !.ip = posMap(fused, @)] : m \in fn.marks}]

=============================================================================
