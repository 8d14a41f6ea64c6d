------------------------------- MODULE Backend -------------------------------
(***************************************************************************)
(* What running a program promises, whichever back end runs it: it prints  *)
(* the lines the program means, one after the other, and then ends the way *)
(* the program means.  docs/superpowers/specs/2026-06-12-runtime-          *)
(* consistency-design.md makes the evaluator the reference for both.       *)
(***************************************************************************)
EXTENDS Integers, Sequences

VARIABLES
  expected,   \* the lines and the way to end that the program means
  out,        \* the lines printed so far
  ended       \* "running", "returned" or "failed"

vars == <<expected, out, ended>>

Init == out = << >> /\ ended = "running"

PrintLine == /\ ended = "running" /\ Len(out) < Len(expected.out)
             /\ out' = Append(out, expected.out[Len(out) + 1])
             /\ UNCHANGED <<expected, ended>>

Finish == /\ ended = "running" /\ out = expected.out
          /\ ended' = expected.ended
          /\ UNCHANGED <<expected, out>>

Next == PrintLine \/ Finish

Spec == Init /\ [][Next]_vars /\ <>(ended # "running")

=============================================================================
