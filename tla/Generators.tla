------------------------------ MODULE Generators ------------------------------
(***************************************************************************)
(* Which functions are generators: both back ends look for a yield in the  *)
(* body, each with a search of its own.                                    *)
(***************************************************************************)
EXTENDS AST

\* Compiler::containsYield, which Evaluator::containsYield repeats: a yield in
\* the body or in the loops and branches it nests, not inside try or match.
RECURSIVE containsYield(_)
containsYield(body) ==
  \E i \in DOMAIN body :
    LET s == body[i]
    IN  \/ s.node = "Yield"
        \/ s.node \in {"While", "ForEach", "ForRange"} /\ containsYield(s.body)
        \/ /\ s.node = "If"
           /\ containsYield(s.consequence) \/ (s.otherwise # None /\ containsYield(s.otherwise[1]))

=============================================================================
