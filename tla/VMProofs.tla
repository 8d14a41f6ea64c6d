------------------------------ MODULE VMProofs ------------------------------
(***************************************************************************)
(* What the VM guarantees of its call frames and exception handlers,       *)
(* proved for every program and every limit.                               *)
(*                                                                         *)
(* The proofs go through one lemma, StepEffect, that classifies what an    *)
(* action does to frames, handlers and outcome; the invariants are then    *)
(* shown for the few classes instead of the many actions.                  *)
(***************************************************************************)
EXTENDS Runtime, SequenceTheorems, FiniteSetTheorems, Induction

-----------------------------------------------------------------------------
(* Sequences of anything.                                                  *)

\* A sequence has a length and its positions as domain.
LEMMA SeqFacts ==
  ASSUME NEW s, IsSeq(s)
  PROVE  /\ Len(s) \in Nat
         /\ DOMAIN s = 1..Len(s)
         /\ s # << >> <=> Len(s) > 0
BY LenProperties, EmptySeq DEF IsSeq

\* Being a sequence over some set is being a sequence.
LEMMA SomeSeq == ASSUME NEW S, NEW s \in Seq(S) PROVE IsSeq(s)
BY SeqOfRange DEF IsSeq

\* What Append adds to a sequence.
LEMMA AppendFacts ==
  ASSUME NEW s, IsSeq(s), NEW e
  PROVE  /\ IsSeq(Append(s, e))
         /\ Len(Append(s, e)) = Len(s) + 1
         /\ \A i \in 1..Len(s) : Append(s, e)[i] = s[i]
         /\ Append(s, e)[Len(s) + 1] = e
<1> DEFINE S == Range(s) \cup {e}
<1>1. s \in Seq(S)
  BY SeqMonotonic DEF IsSeq
<1>2. e \in S
  OBVIOUS
<1>3. /\ Append(s, e) \in Seq(S)
      /\ Len(Append(s, e)) = Len(s) + 1
      /\ \A i \in 1..Len(s) : Append(s, e)[i] = s[i]
      /\ Append(s, e)[Len(s) + 1] = e
  BY <1>1, <1>2, AppendProperties
<1>. QED
  BY <1>3, SomeSeq

\* The first n elements of a sequence.
LEMMA PrefixFacts ==
  ASSUME NEW s, IsSeq(s), NEW n \in 0..Len(s)
  PROVE  /\ IsSeq(SubSeq(s, 1, n))
         /\ Len(SubSeq(s, 1, n)) = n
         /\ \A i \in 1..n : SubSeq(s, 1, n)[i] = s[i]
<1>1. Len(s) \in Nat /\ s \in Seq(Range(s)) /\ DOMAIN s = 1..Len(s)
  BY SeqFacts DEF IsSeq
<1>2. \A i \in 1..n : s[i] \in Range(s)
  BY <1>1 DEF Range
<1>3. n \in Int /\ 1 \in Int
  BY <1>1
<1>4. /\ SubSeq(s, 1, n) \in Seq(Range(s))
      /\ Len(SubSeq(s, 1, n)) = IF 1 <= n THEN n - 1 + 1 ELSE 0
      /\ \A i \in 1..n - 1 + 1 : SubSeq(s, 1, n)[i] = s[1 + i - 1]
  BY <1>2, <1>3, SubSeqProperties
<1>5. IsSeq(SubSeq(s, 1, n))
  BY <1>4, SomeSeq
<1>6. 1 + n - 1 = n /\ \A i \in 1..n : 1 + i - 1 = i
  BY <1>1
<1>. QED
  BY <1>1, <1>3, <1>4, <1>5, <1>6

\* A sequence with its last element replaced.
LEMMA LastFacts ==
  ASSUME NEW s, IsSeq(s), Len(s) > 0, NEW e
  PROVE  /\ IsSeq([s EXCEPT ![Len(s)] = e])
         /\ Len([s EXCEPT ![Len(s)] = e]) = Len(s)
         /\ \A i \in 1..Len(s) - 1 : [s EXCEPT ![Len(s)] = e][i] = s[i]
         /\ [s EXCEPT ![Len(s)] = e][Len(s)] = e
<1> DEFINE S == Range(s) \cup {e}
           t == [s EXCEPT ![Len(s)] = e]
<1>1. Len(s) \in Nat /\ s \in Seq(S)
  BY SeqFacts, SeqMonotonic DEF IsSeq
<1>2. Len(s) \in 1..Len(s) /\ e \in S
  BY <1>1
<1>3. /\ t \in Seq(S) /\ Len(t) = Len(s)
      /\ \A j \in 1..Len(s) : t[j] = IF j = Len(s) THEN e ELSE s[j]
  BY <1>1, <1>2, ExceptSeq
<1>4. IsSeq(t)
  BY <1>3, SomeSeq
<1>5. \A i \in 1..Len(s) - 1 : i \in 1..Len(s) /\ i # Len(s)
  BY <1>1
<1> HIDE DEF t
<1>6. /\ IsSeq(t) /\ Len(t) = Len(s) /\ t[Len(s)] = e
      /\ \A i \in 1..Len(s) - 1 : t[i] = s[i]
  BY <1>2, <1>3, <1>4, <1>5
<1>. QED
  BY <1>6 DEF t

-----------------------------------------------------------------------------
(* What a step does to the control state.                                  *)

\* Two frames of one call, at different positions.
SameCall(f, g) == /\ IsFrame(f) /\ f.function = g.function
                  /\ f.hasCallee = g.hasCallee /\ f.slotOffset = g.slotOffset

\* fs is the n outermost frames, the last of them at some other position.
Outermost(fs, n) == /\ IsSeq(fs) /\ Len(fs) = n
                    /\ \A i \in 1..n - 1 : fs[i] = frames[i]
                    /\ SameCall(fs[n], frames[n])

\* An instruction that is no jump, ends no try and does not return.
Plain == HasInstr /\ Instr.op \notin Jumps \cup {"RETURN", "TRY_END"}

\* The current call goes on at the given address.
Shifts(x) == Outermost(frames', Len(frames)) /\ frames'[Len(frames)].ip = x

Moves   == /\ HasInstr /\ Instr.op # "TRY_BEGIN" /\ (Instr.op = "TRY_END" => handlers = << >>)
           /\ \E x \in Successors(CodeOf(Top.function).code, Top.ip) : Shifts(x)
           /\ UNCHANGED <<handlers, outcome>>
Ends    == (\E v : outcome' \in {Returned(v), Failed(v)}) /\ UNCHANGED <<frames, handlers>>
Unwinds == /\ handlers # << >> /\ handlers' = Front(handlers)
           /\ Outermost(frames', Last(handlers).frameDepth)
           /\ frames'[Last(handlers).frameDepth].ip = Last(handlers).catchIp
           /\ UNCHANGED outcome
\* A frame that may be added: of a function of the program, and at the limit of
\* none that is called, unless it constructs.
Admitted(f) == /\ f.function \in DOMAIN prog.fns
               /\ f.hasCallee /\ TooDeep => f.function \in Constructors

Enters  == /\ Plain
           /\ IsSeq(frames') /\ Len(frames') = Len(frames) + 1
           /\ \A i \in 1..Len(frames) - 1 : frames'[i] = frames[i]
           /\ SameCall(frames'[Len(frames)], frames[Len(frames)])
           /\ frames'[Len(frames)].ip = Top.ip + 1
           /\ IsFrame(frames'[Len(frames) + 1]) /\ Admitted(frames'[Len(frames) + 1])
           /\ frames'[Len(frames) + 1].ip = 1
           /\ UNCHANGED <<handlers, outcome>>
Leaves  == /\ frames' = Front(frames) /\ handlers' = LiveHandlers(Len(Front(frames)))
           /\ IF Front(frames) = << >> THEN \E v : outcome' = Returned(v) ELSE UNCHANGED outcome
Guards  == /\ Shifts(Top.ip + 1)
           /\ HasInstr /\ Instr.op = "TRY_BEGIN" /\ handlers' = Append(handlers, Handler)
           /\ UNCHANGED outcome
Unguards == /\ Shifts(Top.ip + 1)
            /\ HasInstr /\ Instr.op = "TRY_END" /\ handlers # << >> /\ handlers' = Front(handlers)
            /\ UNCHANGED outcome

\* The program stays the same, and the loop count grows at most by one.
Effect == /\ Moves \/ Ends \/ Unwinds \/ Enters \/ Leaves \/ Guards \/ Unguards
          /\ UNCHANGED <<prog, late>>
          /\ CountLoop \/ UNCHANGED loops

\* TypeOK needs HandlersLive: a throw resumes the frame its handler names.
IInv == TypeOK /\ HandlersLive

\* While the program runs there is a current call.
LEMMA RunningFacts ==
  ASSUME TypeOK, outcome = Running
  PROVE  /\ Len(frames) \in Nat \ {0} /\ IsSeq(frames) /\ DOMAIN frames = 1..Len(frames)
         /\ \A i \in 1..Len(frames) : IsFrame(frames[i])
BY SeqFacts DEF TypeOK

\* A frame whose position is set is a frame of the same call.
LEMMA MovedFrame ==
  ASSUME NEW f, IsFrame(f), NEW x
  PROVE  SameCall([f EXCEPT !.ip = x], f) /\ [f EXCEPT !.ip = x].ip = x
BY DEF SameCall, IsFrame, FrameFields

\* Replacing the last of some outermost frames by a frame of the same call.
LEMMA ReplaceLast ==
  ASSUME IsSeq(frames),
         NEW fs, IsSeq(fs), Len(fs) \in 1..Len(frames), \A i \in 1..Len(fs) : fs[i] = frames[i],
         NEW g, SameCall(g, frames[Len(fs)])
  PROVE  Outermost([fs EXCEPT ![Len(fs)] = g], Len(fs)) /\ [fs EXCEPT ![Len(fs)] = g][Len(fs)] = g
<1> DEFINE t == [fs EXCEPT ![Len(fs)] = g]
<1>1. Len(fs) > 0 /\ Len(frames) \in Nat
  BY SeqFacts
<1>2. /\ IsSeq(t) /\ Len(t) = Len(fs) /\ t[Len(fs)] = g
      /\ \A i \in 1..Len(fs) - 1 : t[i] = fs[i]
  BY <1>1, LastFacts
<1>3. \A i \in 1..Len(fs) - 1 : i \in 1..Len(fs)
  BY <1>1
<1> HIDE DEF t
<1>4. Outermost(t, Len(fs)) /\ t[Len(fs)] = g
  BY <1>2, <1>3 DEF Outermost
<1>. QED
  BY <1>4 DEF t

\* Continuing, jumping, yielding and changing handlers move the current call.
LEMMA MoveEffect ==
  ASSUME TypeOK, outcome = Running,
         NEW g, SameCall(g, frames[Len(frames)]), frames' = [frames EXCEPT ![Len(frames)] = g]
  PROVE  Shifts(g.ip)
<1>1. Len(frames) \in 1..Len(frames) /\ IsSeq(frames)
  BY RunningFacts
<1>. QED
  BY <1>1, ReplaceLast DEF Shifts

\* Setting the position of the current call leaves the callers alone.
LEMMA AdvanceEffect ==
  ASSUME TypeOK, outcome = Running,
         NEW x, frames' = [frames EXCEPT ![Len(frames)] = [frames[Len(frames)] EXCEPT !.ip = x]]
  PROVE  Shifts(x)
<1>1. IsFrame(frames[Len(frames)])
  BY RunningFacts
<1>2. PICK g : SameCall(g, frames[Len(frames)]) /\ g.ip = x /\ frames' = [frames EXCEPT ![Len(frames)] = g]
  BY <1>1, MovedFrame
<1>. QED
  BY <1>2, MoveEffect

\* Where a plain instruction goes on.
LEMMA PlainFacts ==
  ASSUME Plain
  PROVE  /\ Successors(CodeOf(Top.function).code, Top.ip) = {Top.ip + 1}
         /\ Instr.op \notin {"TRY_BEGIN", "TRY_END", "RETURN"}
BY DEF Plain, Successors, Jumps, ForwardJumps, Instr

\* Going on at an address moves the current call there.
LEMMA GotoEffect ==
  ASSUME TypeOK, outcome = Running, NEW st, NEW ip, Goto(st, ip)
  PROVE  Shifts(ip) /\ UNCHANGED <<handlers, outcome>>
<1>1. frames' = [frames EXCEPT ![Len(frames)] = [frames[Len(frames)] EXCEPT !.ip = ip]]
  BY DEF Goto
<1>2. Shifts(ip)
  BY <1>1, AdvanceEffect
<1>. QED
  BY <1>2 DEF Goto

\* Continuing after a plain instruction moves to the next one.
LEMMA ContinueEffect ==
  ASSUME TypeOK, outcome = Running, Plain, NEW st, Continue(st)
  PROVE  Moves
<1>1. Shifts(NextIp) /\ UNCHANGED <<handlers, outcome>>
  BY GotoEffect DEF Continue
<1>. QED
  BY <1>1, PlainFacts DEF Moves, Plain, NextIp

\* A throw unwinds to the last handler, or ends the program.
LEMMA ThrowEffect ==
  ASSUME IInv, outcome = Running, NEW st, NEW err, Throw(st, err)
  PROVE  Unwinds \/ Ends
<1>1. CASE handlers = << >>
  BY <1>1 DEF Throw, Ends
<1>2. CASE handlers # << >>
  <2> DEFINE h == Last(handlers)
             n == h.frameDepth
             live == SubSeq(frames, 1, n)
  <2>1. Len(handlers) \in DOMAIN handlers
    BY <1>2, SeqFacts DEF IInv, TypeOK
  <2>2. Len(frames) \in Nat \ {0} /\ IsSeq(frames) /\ n \in 1..Len(frames)
    BY <2>1, RunningFacts DEF IInv, HandlersLive, Last
  <2>3. IsFrame(frames[n]) /\ n \in 0..Len(frames)
    BY <2>2, RunningFacts DEF IInv
  <2>4. Keep(frames, n) = live
    BY <2>2 DEF Keep
  <2>5. IsSeq(live) /\ Len(live) = n /\ \A i \in 1..n : live[i] = frames[i]
    BY <2>2, <2>3, PrefixFacts
  <2>6. frames' = [live EXCEPT ![n] = [live[n] EXCEPT !.ip = h.catchIp]]
    BY <1>2, <2>4, <2>5 DEF Throw, Unwound
  <2>7. live[n] = frames[n]
    BY <2>2, <2>5
  <2>8. PICK g : SameCall(g, frames[n]) /\ g.ip = h.catchIp /\ frames' = [live EXCEPT ![n] = g]
    BY <2>3, <2>6, <2>7, MovedFrame
  <2>9. Outermost(frames', n) /\ frames'[n].ip = h.catchIp
    <3> HIDE DEF live, n
    <3>1. frames' = [live EXCEPT ![Len(live)] = g] /\ SameCall(g, frames[Len(live)])
      BY <2>5, <2>8
    <3>2. Outermost(frames', Len(live)) /\ frames'[Len(live)] = g
      BY <2>2, <2>5, <3>1, ReplaceLast
    <3>. QED
      BY <2>5, <2>8, <3>2
  <2>. QED
    BY <1>2, <2>9 DEF Throw, Unwinds
<1>. QED
  BY <1>1, <1>2

\* Entering a call adds a frame above the caller's.
LEMMA EnterEffect ==
  ASSUME TypeOK, outcome = Running, Plain, NEW st, NEW f, IsFrame(f), f.ip = 1, Admitted(f), Enter(st, f)
  PROVE  Enters
<1> DEFINE n == Len(frames)
<1>1. n \in 1..Len(frames) /\ IsSeq(frames) /\ n \in DOMAIN frames /\ IsFrame(frames[n])
  BY RunningFacts
<1>2. frames' = Append([frames EXCEPT ![n] = [frames[n] EXCEPT !.ip = Top.ip + 1]], f)
  BY DEF Enter, Top, Last
<1>3. PICK g : SameCall(g, frames[n]) /\ g.ip = Top.ip + 1 /\ frames' = Append([frames EXCEPT ![n] = g], f)
  BY <1>1, <1>2, MovedFrame
<1>4. PICK fs : fs = [frames EXCEPT ![n] = g]
  OBVIOUS
<1>5. Outermost(fs, n) /\ fs[n] = g
  BY <1>1, <1>3, <1>4, ReplaceLast
<1>6. IsSeq(fs) /\ frames' = Append(fs, f)
  BY <1>3, <1>4, <1>5 DEF Outermost
<1>7. /\ IsSeq(frames') /\ Len(frames') = n + 1
      /\ \A i \in 1..n : frames'[i] = fs[i]
      /\ frames'[n + 1] = f
  BY <1>5, <1>6, AppendFacts DEF Outermost
<1>8. \A i \in 1..n - 1 : i \in 1..n
  BY <1>1
<1>9. SameCall(frames'[n], frames[n]) /\ frames'[n].ip = Top.ip + 1
  BY <1>1, <1>3, <1>5, <1>7
<1>. QED
  BY <1>1, <1>5, <1>7, <1>8, <1>9 DEF Enters, Enter, Outermost

\* The ways a plain instruction ends, together.
LEMMA ControlEffects ==
  ASSUME IInv, outcome = Running
  PROVE  /\ \A st : Plain /\ Continue(st) => Moves
         /\ \A st, err : Throw(st, err) => Unwinds \/ Ends
         /\ \A st, m : ThrowMsg(st, m) => Unwinds \/ Ends
         /\ \A st, r : Plain /\ Push(st, r) => Moves \/ Unwinds \/ Ends
         /\ \A st, f : Plain /\ IsFrame(f) /\ f.ip = 1 /\ Admitted(f) /\ Enter(st, f) => Enters
<1>1. TypeOK
  BY DEF IInv
<1>2. \A st : Plain /\ Continue(st) => Moves
  BY <1>1, ContinueEffect
<1>3. \A st, err : Throw(st, err) => Unwinds \/ Ends
  BY ThrowEffect
<1>4. \A st, m : ThrowMsg(st, m) => Unwinds \/ Ends
  BY <1>3 DEF ThrowMsg
<1>5. \A st, r : Plain /\ Push(st, r) => Moves \/ Unwinds \/ Ends
  BY <1>2, <1>3 DEF Push
<1>6. \A st, f : Plain /\ IsFrame(f) /\ f.ip = 1 /\ Admitted(f) /\ Enter(st, f) => Enters
  BY <1>1, EnterEffect
<1>. QED
  BY <1>2, <1>3, <1>4, <1>5, <1>6

\* The jumps move to where they lead, if they do not throw.
LEMMA JumpEffects ==
  ASSUME IInv, HasInstr, Instr.op \in {"JUMP", "JUMP_IF_FALSE", "LOOP", "ITER_NEXT"}, NEW st
  PROVE  /\ Goto(st, Target) => Moves
         /\ Goto(st, NextIp) /\ Instr.op \in {"JUMP_IF_FALSE", "ITER_NEXT"} => Moves
<1> DEFINE code == CodeOf(Top.function).code
<1>1. TypeOK /\ outcome = Running
  BY DEF IInv, HasInstr
<1>2. \A ip : Goto(st, ip) => Shifts(ip) /\ UNCHANGED <<handlers, outcome>>
  BY <1>1, GotoEffect
<1>3. /\ Target \in Successors(code, Top.ip)
      /\ Instr.op \in {"JUMP_IF_FALSE", "ITER_NEXT"} => NextIp \in Successors(code, Top.ip)
  BY DEF Successors, Instr, Target, NextIp
<1>. QED
  BY <1>2, <1>3 DEF Moves

\* A handler only runs while the program runs.
LEMMA FetchRuns ==
  ASSUME NEW ops, Fetch(ops)
  PROVE  /\ outcome = Running /\ HasInstr /\ Instr.op \in ops
         /\ (\A o \in ops : o \notin Jumps \cup {"RETURN", "TRY_END"}) => Plain
BY DEF Fetch, HasInstr, Plain

\* Variables, operators and jumps.
LEMMA SimpleEffects ==
  ASSUME IInv,
         \/ opConstant \/ opBinary \/ opNegate \/ opNot \/ opPop \/ opDup
         \/ opGetLocal \/ opSetLocal \/ opGetGlobal \/ opSetGlobal \/ opDefineGlobal
         \/ opJump \/ opJumpIfFalse \/ opLoop
  PROVE  Effect
<1> USE DEF Effect, Pure, data, limits, Jumps, ForwardJumps
<1>1. CASE opConstant
  BY <1>1, FetchRuns, ControlEffects DEF opConstant
<1>2. CASE opBinary
  BY <1>2, FetchRuns, ControlEffects DEF opBinary, BinaryOps, Arithmetic, Comparisons
<1>3. CASE opNegate
  BY <1>3, FetchRuns, ControlEffects DEF opNegate
<1>4. CASE opNot
  BY <1>4, FetchRuns, ControlEffects DEF opNot
<1>5. CASE opPop
  BY <1>5, FetchRuns, ControlEffects DEF opPop
<1>6. CASE opDup
  BY <1>6, FetchRuns, ControlEffects DEF opDup
<1>7. CASE opGetLocal
  BY <1>7, FetchRuns, ControlEffects DEF opGetLocal
<1>8. CASE opSetLocal
  BY <1>8, FetchRuns, ControlEffects DEF opSetLocal
<1>9. CASE opGetGlobal
  BY <1>9, FetchRuns, ControlEffects DEF opGetGlobal
<1>10. CASE opSetGlobal
  BY <1>10, FetchRuns, ControlEffects DEF opSetGlobal
<1>11. CASE opDefineGlobal
  BY <1>11, FetchRuns, ControlEffects DEF opDefineGlobal
<1>12. CASE opJump
  BY <1>12, FetchRuns, ControlEffects, JumpEffects DEF opJump
<1>13. CASE opJumpIfFalse
  BY <1>13, FetchRuns, ControlEffects, JumpEffects DEF opJumpIfFalse
<1>14. CASE opLoop
  BY <1>14, FetchRuns, ControlEffects, JumpEffects DEF opLoop
<1>. QED
  BY <1>1, <1>2, <1>3, <1>4, <1>5, <1>6, <1>7, <1>8, <1>9, <1>10, <1>11, <1>12, <1>13, <1>14

\* Objects, checks and patterns.
LEMMA ObjectEffects ==
  ASSUME IInv,
         \/ opBuildArray \/ opBuildTuple \/ opBuildHashMap \/ opInterpolate \/ opIndexGet
         \/ opIndexSet \/ opSlice \/ opGetMember \/ opSetMember \/ opIterInit
         \/ opIterNext \/ opIterValue \/ opClosure \/ opGetUpvalue \/ opSetUpvalue
         \/ opRangeCheck \/ opTypeCheck \/ opAssertBool \/ opDeclCheck \/ opUnknown
  PROVE  Effect
<1> USE DEF Effect, Pure, data, limits, Jumps, ForwardJumps
<1>1. CASE opBuildArray
  BY <1>1, FetchRuns, ControlEffects DEF opBuildArray, Allocate
<1>2. CASE opBuildTuple
  BY <1>2, FetchRuns, ControlEffects DEF opBuildTuple
<1>3. CASE opBuildHashMap
  BY <1>3, FetchRuns, ControlEffects DEF opBuildHashMap, Allocate
<1>4. CASE opInterpolate
  BY <1>4, FetchRuns, ControlEffects DEF opInterpolate
<1>5. CASE opIndexGet
  BY <1>5, FetchRuns, ControlEffects DEF opIndexGet
<1>6. CASE opIndexSet
  BY <1>6, FetchRuns, ControlEffects DEF opIndexSet
<1>7. CASE opSlice
  BY <1>7, FetchRuns, ControlEffects DEF opSlice, Allocate
<1>8. CASE opGetMember
  BY <1>8, FetchRuns, ControlEffects DEF opGetMember
<1>9. CASE opSetMember
  BY <1>9, FetchRuns, ControlEffects DEF opSetMember
<1>10. CASE opIterInit
  BY <1>10, FetchRuns, ControlEffects DEF opIterInit, Allocate
<1>11. CASE opIterNext
  BY <1>11, FetchRuns, ControlEffects, JumpEffects DEF opIterNext, Continue
<1>12. CASE opIterValue
  BY <1>12, FetchRuns, ControlEffects DEF opIterValue
<1>13. CASE opClosure
  <2>1. Fetch({"CLOSURE"}) /\ \E st : Continue(st)
    BY <1>13, Zenon DEF opClosure
  <2>2. Plain /\ outcome = Running
    BY <2>1, FetchRuns
  <2>3. Moves
    BY <2>1, <2>2, ControlEffects
  <2>4. UNCHANGED <<prog, limits>>
    BY <1>13, Zenon DEF opClosure
  <2>. QED
    BY <2>3, <2>4
<1>14. CASE opGetUpvalue
  BY <1>14, FetchRuns, ControlEffects DEF opGetUpvalue
<1>15. CASE opSetUpvalue
  BY <1>15, FetchRuns, ControlEffects DEF opSetUpvalue
<1>16. CASE opRangeCheck
  BY <1>16, FetchRuns, ControlEffects DEF opRangeCheck
<1>17. CASE opTypeCheck
  BY <1>17, FetchRuns, ControlEffects DEF opTypeCheck
<1>18. CASE opAssertBool
  BY <1>18, FetchRuns, ControlEffects DEF opAssertBool
<1>19. CASE opDeclCheck
  BY <1>19, FetchRuns, ControlEffects DEF opDeclCheck
<1>20. CASE opUnknown
  BY <1>20, FetchRuns, ControlEffects DEF opUnknown, HasInstr
<1>. QED
  BY <1>1, <1>2, <1>3, <1>4, <1>5, <1>6, <1>7, <1>8, <1>9, <1>10, <1>11, <1>12, <1>13, <1>14, <1>15, <1>16, <1>17, <1>18, <1>19, <1>20

\* A new frame has the shape of one.
LEMMA NewFrame ==
  ASSUME NEW fn, NEW slotOffset, NEW hasCallee \in BOOLEAN, NEW closure, NEW isGenerator
  PROVE  LET f == Frame(fn, slotOffset, hasCallee, closure, isGenerator)
         IN  IsFrame(f) /\ f.function = fn /\ f.hasCallee = hasCallee /\ f.slotOffset = slotOffset /\ f.ip = 1
BY DEF IsFrame, Frame, FrameFields

\* Entering such a frame is one of the effects: below the limit, without a callee,
\* or of a constructor.
LEMMA EntersFrame ==
  ASSUME IInv, outcome = Running, Plain, NEW st,
         NEW fn, NEW slotOffset, NEW hasCallee \in BOOLEAN, NEW closure, NEW isGenerator,
         hasCallee = FALSE \/ ~TooDeep \/ fn \in Constructors,
         Enter(st, Frame(fn, slotOffset, hasCallee, closure, isGenerator))
  PROVE  Enters
<1>1. PICK f : f = Frame(fn, slotOffset, hasCallee, closure, isGenerator)
  OBVIOUS
<1>2. IsFrame(f) /\ f.function = fn /\ f.hasCallee = hasCallee /\ f.ip = 1 /\ Enter(st, f)
  BY <1>1, NewFrame
<1>3. Admitted(f)
  BY <1>2 DEF Admitted, Enter
<1>. QED
  BY <1>2, <1>3, ControlEffects

\* Calls: each enters one frame, or runs a builtin.
LEMMA CallEffects ==
  ASSUME IInv,
         \/ opCallBuiltin \/ opCallFunction \/ opCallClass \/ opCallOther \/ opInvokeBuiltin
         \/ opInvoke \/ opImport
  PROVE  Effect
<1> USE DEF Effect, Pure, data, limits, Jumps, ForwardJumps
<1>1. CASE opCallBuiltin
  BY <1>1, FetchRuns, ControlEffects DEF opCallBuiltin, RunBuiltin
<1>2. CASE opCallFunction
  <2>1. Plain /\ outcome = Running
    BY <1>2, FetchRuns DEF opCallFunction
  <2>2. \/ \E st, m : ThrowMsg(st, m)
        \/ ~TooDeep /\ \E st, fn, base, closure, gen : Enter(st, Frame(fn, base, TRUE, closure, gen))
    BY <1>2 DEF opCallFunction
  <2>3. Unwinds \/ Ends \/ Enters
    BY <2>1, <2>2, ControlEffects, EntersFrame
  <2>. QED
    BY <1>2, <2>3 DEF opCallFunction
<1>3. CASE opCallClass
  <2> DEFINE ctor == classes[Callee[2]].ctor
  <2>1. Plain /\ outcome = Running
    BY <1>3, FetchRuns DEF opCallClass
  <2>2. ctor # None => ctor[1] \in Constructors
    BY <1>3 DEF opCallClass, Constructors
  <2>3. \/ \E st, m : ThrowMsg(st, m)
        \/ \E st : Continue(st)
        \/ ctor # None /\ \E st, base : Enter(st, Frame(ctor[1], base, TRUE, << >>, FALSE))
    BY <1>3 DEF opCallClass
  <2>4. Unwinds \/ Ends \/ Moves \/ Enters
    BY <2>1, <2>2, <2>3, ControlEffects, EntersFrame
  <2>. QED
    BY <1>3, <2>4 DEF opCallClass
<1>4. CASE opCallOther
  BY <1>4, FetchRuns, ControlEffects DEF opCallOther
<1>5. CASE opInvokeBuiltin
  BY <1>5, FetchRuns, ControlEffects DEF opInvokeBuiltin, RunBuiltin
<1>6. CASE opInvoke
  <2>1. Plain /\ outcome = Running
    <3>1. Fetch({"INVOKE"})
      BY <1>6, Zenon DEF opInvoke
    <3>. QED
      BY <3>1, FetchRuns
  <2>2. \/ \E st, m : ThrowMsg(st, m)
        \/ \E st, fn, base : Enter(st, Frame(fn, base, FALSE, << >>, FALSE))
    BY <1>6 DEF opInvoke
  <2>3. Unwinds \/ Ends \/ Enters
    BY <2>1, <2>2, ControlEffects, EntersFrame
  <2>. QED
    BY <1>6, <2>3 DEF opInvoke
<1>7. CASE opImport
  <2>1. Plain /\ outcome = Running
    BY <1>7, FetchRuns DEF opImport
  <2>2. \/ \E st, m : ThrowMsg(st, m)
        \/ \E st : Continue(st)
        \/ \E st, fn, base : Enter(st, Frame(fn, base, FALSE, << >>, FALSE))
    BY <1>7 DEF opImport
  <2>3. Unwinds \/ Ends \/ Moves \/ Enters
    BY <2>1, <2>2, ControlEffects, EntersFrame
  <2>. QED
    BY <1>7, <2>3 DEF opImport
<1>. QED
  BY <1>1, <1>2, <1>3, <1>4, <1>5, <1>6, <1>7

\* A yield goes on to the next instruction.
LEMMA YieldEffect == ASSUME IInv, opYield PROVE Moves /\ Plain
<1>1. outcome = Running /\ TypeOK /\ IsFrame(frames[Len(frames)])
  BY FetchRuns, RunningFacts DEF opYield, IInv
<1>2. PICK y : frames' = [frames EXCEPT ![Len(frames)] = [@ EXCEPT !.ip = NextIp, !.yieldBuffer = y]]
  BY <1>1 DEF opYield, NextIp, Top, Last
<1>3. PICK g : SameCall(g, frames[Len(frames)]) /\ g.ip = NextIp /\ frames' = [frames EXCEPT ![Len(frames)] = g]
  <2>1. PICK f : f = frames[Len(frames)] /\ IsFrame(f)
    BY <1>1
  <2>2. PICK g : g = [f EXCEPT !.ip = NextIp, !.yieldBuffer = y]
    OBVIOUS
  <2>3. SameCall(g, f) /\ g.ip = NextIp
    BY <2>1, <2>2 DEF SameCall, IsFrame, FrameFields
  <2>4. frames' = [frames EXCEPT ![Len(frames)] = g]
    BY <1>2, <2>1, <2>2
  <2>. QED
    BY <2>1, <2>3, <2>4
<1>4. Shifts(NextIp)
  BY <1>1, <1>3, MoveEffect
<1>5. Plain
  BY FetchRuns DEF opYield, Jumps, ForwardJumps
<1>6. UNCHANGED <<handlers, outcome>>
  BY DEF opYield
<1>. QED
  BY <1>4, <1>5, <1>6, PlainFacts DEF Moves, Plain, NextIp

\* A try begins by registering its handler.
LEMMA TryBeginEffect == ASSUME IInv, opTryBegin PROVE Guards
<1>1. HasInstr /\ outcome = Running /\ TypeOK /\ Instr.op = "TRY_BEGIN"
  BY FetchRuns DEF opTryBegin, IInv
<1>2. Shifts(Top.ip + 1)
  BY <1>1, AdvanceEffect DEF opTryBegin, Advance, Top, Last
<1>. QED
  BY <1>1, <1>2 DEF opTryBegin, Guards

\* A try ends by taking a handler away, if there is one.
LEMMA TryEndEffect == ASSUME IInv, opTryEnd PROVE Moves \/ Unguards
<1>1. HasInstr /\ outcome = Running /\ TypeOK /\ Instr.op = "TRY_END"
  BY FetchRuns DEF opTryEnd, IInv
<1>2. Shifts(Top.ip + 1)
  BY <1>1, AdvanceEffect DEF opTryEnd, Advance, Top, Last
<1>3. Top.ip + 1 \in Successors(CodeOf(Top.function).code, Top.ip)
  BY <1>1 DEF Successors, Instr
<1>4. UNCHANGED outcome /\ handlers' = IF handlers = << >> THEN handlers ELSE Front(handlers)
  BY DEF opTryEnd
<1>. QED
  BY <1>1, <1>2, <1>3, <1>4 DEF Unguards, Moves

\* Handlers, yields and the ends of calls and of the program.
LEMMA EndEffects ==
  ASSUME IInv, opReturn \/ opYield \/ opTryBegin \/ opTryEnd \/ opUnderflow \/ opEnd
  PROVE  Effect
<1> USE DEF Effect, Pure, data, limits, Jumps, ForwardJumps
<1>1. CASE opReturn
  BY <1>1, FetchRuns, ControlEffects DEF opReturn, Leaves
<1>2. CASE opYield
  BY <1>2, YieldEffect DEF opYield
<1>3. CASE opTryBegin
  BY <1>3, TryBeginEffect DEF opTryBegin
<1>4. CASE opTryEnd
  BY <1>4, TryEndEffect DEF opTryEnd
<1>5. CASE opUnderflow
  BY <1>5, ControlEffects DEF opUnderflow, HasInstr
<1>6. CASE opEnd
  BY <1>6 DEF opEnd, Ends
<1>. QED
  BY <1>1, <1>2, <1>3, <1>4, <1>5, <1>6

\* Every step of the VM has one of the effects.
LEMMA StepEffect == ASSUME IInv, Step PROVE Effect
BY SimpleEffects, ObjectEffects, CallEffects, EndEffects DEF Step

-----------------------------------------------------------------------------
(* The frames and the handlers after a step.                               *)

\* Only a running program takes a step of the VM.
LEMMA StepRuns == ASSUME Step PROVE outcome = Running
BY FetchRuns DEF Step, opConstant, opBinary, opNegate, opNot, opPop, opDup, opGetLocal, opSetLocal,
   opGetGlobal, opSetGlobal, opDefineGlobal, opJump, opJumpIfFalse, opLoop, opCallBuiltin,
   opCallFunction, opCallClass, opCallOther, opInvokeBuiltin, opInvoke, opReturn, opYield,
   opTryBegin, opTryEnd, opBuildArray, opBuildTuple, opBuildHashMap, opInterpolate, opIndexGet,
   opIndexSet, opSlice, opGetMember, opSetMember, opIterInit, opIterNext, opIterValue, opClosure,
   opGetUpvalue, opSetUpvalue, opRangeCheck, opTypeCheck, opAssertBool, opDeclCheck, opImport,
   opUnderflow, opEnd, opUnknown, HasInstr

\* fs holds frames of the calls that frames holds at the same depths, those
\* below the innermost unchanged, and at most one more.
Continues(fs) ==
  /\ IsSeq(fs) /\ Len(fs) <= Len(frames) + 1
  /\ \A i \in 1..Len(fs) : IsFrame(fs[i])
  /\ \A i \in 1..Len(fs) : i <= Len(frames) => /\ fs[i].function = frames[i].function
                                               /\ fs[i].hasCallee = frames[i].hasCallee
                                               /\ fs[i].slotOffset = frames[i].slotOffset
  /\ \A i \in 1..Len(fs) : i < Len(frames) /\ i < Len(fs) => fs[i] = frames[i]

\* Outermost frames continue the frames they are taken from.
LEMMA OutermostContinues ==
  ASSUME TypeOK, outcome = Running, NEW n \in 1..Len(frames), NEW fs, Outermost(fs, n)
  PROVE  Continues(fs)
<1>1. Len(frames) \in Nat /\ \A i \in 1..Len(frames) : IsFrame(frames[i])
  BY RunningFacts
<1>2. \A i \in 1..n : i = n \/ i \in 1..n - 1
  BY <1>1
<1>. QED
  BY <1>1, <1>2 DEF Outermost, Continues, SameCall

\* The frames of a step continue those before it.
LEMMA FramesAfter ==
  ASSUME IInv, outcome = Running, Effect
  PROVE  Continues(frames')
<1>1. /\ TypeOK /\ Len(frames) \in Nat \ {0} /\ IsSeq(frames)
      /\ \A i \in 1..Len(frames) : IsFrame(frames[i])
  BY RunningFacts DEF IInv
<1>2. CASE Outermost(frames', Len(frames))
  BY <1>1, <1>2, OutermostContinues
<1>3. CASE Ends
  BY <1>1, <1>3 DEF Ends, Continues
<1>4. CASE Unwinds
  <2>1. Len(handlers) \in DOMAIN handlers
    BY <1>1, <1>4, SeqFacts DEF TypeOK, Unwinds
  <2>2. Last(handlers).frameDepth \in 1..Len(frames)
    BY <2>1 DEF IInv, HandlersLive, Last
  <2>. QED
    BY <1>1, <1>4, <2>2, OutermostContinues DEF Unwinds
<1>5. CASE Enters
  <2>1. \A i \in 1..Len(frames') : i = Len(frames) + 1 \/ i = Len(frames) \/ i \in 1..Len(frames) - 1
    BY <1>1, <1>5 DEF Enters
  <2>. QED
    BY <1>1, <1>5, <2>1 DEF Enters, SameCall, Continues
<1>6. CASE Leaves
  <2>1. frames' = SubSeq(frames, 1, Len(frames) - 1) /\ Len(frames) - 1 \in 0..Len(frames)
    BY <1>1, <1>6 DEF Leaves, Front
  <2>2. /\ IsSeq(frames') /\ Len(frames') = Len(frames) - 1
        /\ \A i \in 1..Len(frames) - 1 : frames'[i] = frames[i]
    BY <1>1, <2>1, PrefixFacts
  <2>3. \A i \in 1..Len(frames) - 1 : i \in 1..Len(frames)
    BY <1>1
  <2>. QED
    BY <1>1, <2>2, <2>3 DEF Continues
<1>. QED
  BY <1>2, <1>3, <1>4, <1>5, <1>6 DEF Effect, Moves, Guards, Unguards, Shifts

\* Of the effects only Enters adds a frame.
LEMMA AddsByEntering ==
  ASSUME IInv, outcome = Running, Effect, Len(frames') = Len(frames) + 1
  PROVE  Enters
<1>1. Len(frames) \in Nat \ {0} /\ IsSeq(frames) /\ TypeOK
  BY RunningFacts DEF IInv
<1>2. ~Outermost(frames', Len(frames)) /\ ~Ends
  BY <1>1 DEF Outermost, Ends
<1>3. ~Unwinds
  <2>1. SUFFICES ASSUME Unwinds PROVE FALSE
    OBVIOUS
  <2>2. Len(handlers) \in DOMAIN handlers
    BY <1>1, <2>1, SeqFacts DEF TypeOK, Unwinds
  <2>3. Last(handlers).frameDepth \in 1..Len(frames)
    BY <2>2 DEF IInv, HandlersLive, Last
  <2>. QED
    BY <1>1, <2>1, <2>3 DEF Unwinds, Outermost
<1>4. ~Leaves
  <2>1. frames' = Front(frames) => frames' = SubSeq(frames, 1, Len(frames) - 1) /\ Len(frames) - 1 \in 0..Len(frames)
    BY <1>1 DEF Front
  <2>2. Leaves => Len(frames') = Len(frames) - 1
    BY <1>1, <2>1, PrefixFacts DEF Leaves
  <2>. QED
    BY <1>1, <2>2
<1>. QED
  BY <1>2, <1>3, <1>4 DEF Effect, Moves, Guards, Unguards, Shifts

\* opReturn keeps the handlers up to the last that belongs to a caller.
LEMMA LiveCountFacts ==
  ASSUME IInv, NEW depth \in Nat
  PROVE  /\ LiveCount(depth) \in 0..Len(handlers)
         /\ LiveCount(depth) = 0 \/ handlers[LiveCount(depth)].frameDepth <= depth
         /\ \A i \in LiveCount(depth) + 1..Len(handlers) : handlers[i].frameDepth > depth
<1> DEFINE n == Len(handlers)
           T == {k \in 0..n : \A i \in k + 1..n : handlers[i].frameDepth > depth}
<1>1. n \in Nat /\ DOMAIN handlers = 1..n
  BY SeqFacts DEF IInv, TypeOK
<1>2. \A i \in 1..n : handlers[i].frameDepth \in Int
  <2>1. \A i \in 1..n : handlers[i].frameDepth \in 1..Len(frames)
    BY <1>1 DEF IInv, HandlersLive
  <2>. QED
    BY <2>1
<1>3. n \in T /\ T \subseteq Nat
  BY <1>1
<1>4. PICK m \in T : \A k \in T : m <= k
  BY <1>3, LeastElement
<1>5. m \in 0..n /\ \A i \in m + 1..n : handlers[i].frameDepth > depth
  BY <1>4
<1>6. m = 0 \/ handlers[m].frameDepth <= depth
  <2>1. SUFFICES ASSUME m # 0, handlers[m].frameDepth > depth PROVE FALSE
    BY <1>1, <1>2, <1>5
  <2>2. \A i \in m - 1 + 1..n : i = m \/ i \in m + 1..n
    BY <1>1, <1>5
  <2>3. m - 1 \in T
    BY <1>1, <1>5, <2>1, <2>2
  <2>4. \A k \in T : m <= k
    BY <1>4
  <2> HIDE DEF T
  <2>5. m <= m - 1
    BY <2>3, <2>4
  <2>. QED
    BY <1>1, <1>5, <2>5
<1>. QED
  BY <1>5, <1>6 DEF LiveCount

\* The handlers after a step: the old ones up to some point that belong to
\* frames still there, and perhaps one more for the current call.
Keeps(hs, n) == /\ IsSeq(hs) /\ Len(hs) = n /\ n \in 0..Len(handlers)
                /\ \A i \in 1..n : hs[i] = handlers[i] /\ hs[i].frameDepth <= Len(frames')

\* Dropping the last handler keeps the others, which still belong to calls.
LEMMA FrontKeeps ==
  ASSUME IInv, handlers # << >>, handlers' = Front(handlers),
         Last(handlers).frameDepth <= Len(frames'), Len(frames') \in Nat
  PROVE  Keeps(handlers', Len(handlers) - 1)
<1>1. /\ IsSeq(handlers) /\ Len(handlers) \in Nat \ {0} /\ DOMAIN handlers = 1..Len(handlers)
  BY SeqFacts DEF IInv, TypeOK
<1>2. handlers' = SubSeq(handlers, 1, Len(handlers) - 1) /\ Len(handlers) - 1 \in 0..Len(handlers)
  BY <1>1 DEF Front
<1>3. /\ IsSeq(handlers') /\ Len(handlers') = Len(handlers) - 1
      /\ \A i \in 1..Len(handlers) - 1 : handlers'[i] = handlers[i]
  BY <1>1, <1>2, PrefixFacts
<1>4. Len(frames) \in Nat
  BY SeqFacts DEF IInv, TypeOK
<1>5. \A i \in 1..Len(handlers) - 1 : handlers[i].frameDepth <= Len(frames')
  <2>1. \A i \in 1..Len(handlers) : handlers[i].frameDepth \in 1..Len(frames)
    BY <1>1 DEF IInv, HandlersLive
  <2>2. \A i \in 1..Len(handlers) - 1 : handlers[i].frameDepth <= handlers[Len(handlers)].frameDepth
    BY <1>1 DEF IInv, HandlersLive
  <2>. QED
    BY <1>1, <1>4, <2>1, <2>2 DEF Last
<1>. QED
  BY <1>1, <1>2, <1>3, <1>5 DEF Keeps

\* After a step the handlers are some of those before it, and at most one
\* more, registered by the current call.
LEMMA HandlersAfter ==
  ASSUME IInv, outcome = Running, Effect
  PROVE  (\E n : Keeps(handlers', n)) \/ (Guards /\ Len(frames') = Len(frames))
<1>1. /\ IsSeq(handlers) /\ Len(handlers) \in Nat /\ DOMAIN handlers = 1..Len(handlers)
      /\ IsSeq(frames) /\ Len(frames) \in Nat \ {0}
  BY SeqFacts, RunningFacts DEF IInv, TypeOK
<1>2. \A i \in 1..Len(handlers) : handlers[i].frameDepth \in 1..Len(frames)
  BY <1>1 DEF IInv, HandlersLive
<1>3. CASE UNCHANGED handlers /\ Len(frames') >= Len(frames) /\ Len(frames') \in Nat
  BY <1>1, <1>2, <1>3 DEF Keeps
<1>4. CASE Unwinds
  <2>1. Len(frames') = Last(handlers).frameDepth /\ Last(handlers).frameDepth \in 1..Len(frames)
    BY <1>1, <1>2, <1>4 DEF Unwinds, Outermost, Last
  <2>. QED
    BY <1>1, <1>4, <2>1, FrontKeeps DEF Unwinds
<1>5. CASE Unguards
  <2>1. Len(frames') = Len(frames) /\ Last(handlers).frameDepth \in 1..Len(frames)
    BY <1>1, <1>2, <1>5 DEF Unguards, Outermost, Last, Shifts
  <2>. QED
    BY <1>1, <1>5, <2>1, FrontKeeps DEF Unguards
<1>6. CASE Leaves
  <2> DEFINE d == Len(frames) - 1
             n == LiveCount(d)
  <2>1. frames' = SubSeq(frames, 1, d) /\ d \in 0..Len(frames)
    BY <1>1, <1>6 DEF Leaves, Front
  <2>2. Len(frames') = d
    BY <1>1, <2>1, PrefixFacts
  <2>3. n \in 0..Len(handlers) /\ (n = 0 \/ handlers[n].frameDepth <= d)
    <3>1. d \in Nat
      BY <1>1
    <3>. QED
      BY <3>1, LiveCountFacts
  <2>4. handlers' = SubSeq(handlers, 1, n)
    BY <1>6, <2>2 DEF Leaves, LiveHandlers
  <2> HIDE DEF n
  <2>5. IsSeq(handlers') /\ Len(handlers') = n /\ \A i \in 1..n : handlers'[i] = handlers[i]
    BY <1>1, <2>3, <2>4, PrefixFacts
  <2>6. \A i \in 1..n : handlers[i].frameDepth <= d
    <3>1. \A i \in 1..n : i = n \/ (i < n /\ i \in DOMAIN handlers /\ n \in DOMAIN handlers)
      BY <1>1, <2>3
    <3>2. \A i \in 1..n : handlers[i].frameDepth <= handlers[n].frameDepth
      BY <1>1, <1>2, <2>3, <3>1 DEF IInv, HandlersLive
    <3>. QED
      BY <1>1, <1>2, <2>3, <3>2
  <2>. QED
    BY <2>2, <2>3, <2>5, <2>6 DEF Keeps
<1>7. CASE Guards
  BY <1>7 DEF Guards, Outermost, Shifts
<1>. QED
  BY <1>1, <1>3, <1>4, <1>5, <1>6, <1>7 DEF Effect, Moves, Ends, Enters, Outermost, Shifts

-----------------------------------------------------------------------------
(* The invariants.                                                         *)

\* A program starts with one call and no handlers.
LEMMA InitInv == ASSUME Init PROVE IInv
<1>1. /\ handlers = << >> /\ outcome = Running /\ loops = 0 /\ late = FALSE
      /\ frames = <<Frame(prog.main, 0, TRUE, << >>, FALSE)>>
  BY DEF Init
<1>2. IsFrame(Frame(prog.main, 0, TRUE, << >>, FALSE))
  BY NewFrame
<1>3. PICK f : IsFrame(f) /\ frames = <<f>>
  BY <1>1, <1>2
<1>4. IsSeq(frames) /\ IsSeq(handlers)
  <2>1. <<f>> \in Seq({f}) /\ << >> \in Seq({})
    OBVIOUS
  <2>. QED
    BY <1>1, <1>3, <2>1, SomeSeq
<1>5. TypeOK
  <2>1. frames # << >> /\ \A i \in DOMAIN frames : IsFrame(frames[i])
    BY <1>3
  <2>2. loops \in 0..MaxLoopIterations + 1
    BY <1>1, VMAssumption
  <2>3. late \in BOOLEAN
    BY <1>1
  <2>. QED
    BY <1>1, <1>4, <2>1, <2>2, <2>3 DEF TypeOK
<1>6. HandlersLive
  BY <1>1 DEF HandlersLive
<1>. QED
  BY <1>5, <1>6 DEF IInv

\* The limiter's count stays within its cap.
LEMMA CountBounded ==
  ASSUME TypeOK, CountLoop \/ UNCHANGED loops
  PROVE  loops' \in 0..MaxLoopIterations + 1
BY VMAssumption DEF TypeOK, CountLoop

\* Whatever effect a step has, the control state keeps its shape.
LEMMA EffectTypeOK ==
  ASSUME IInv, outcome = Running, Effect
  PROVE  TypeOK'
<1>1. /\ IsSeq(frames') /\ \A i \in 1..Len(frames') : IsFrame(frames'[i])
      /\ Len(frames') \in Nat /\ DOMAIN frames' = 1..Len(frames')
  BY FramesAfter, SeqFacts DEF Continues
<1>2. IsSeq(handlers')
  <2>1. CASE Guards
    BY <2>1, AppendFacts DEF Guards, IInv, TypeOK
  <2>2. CASE \E n : Keeps(handlers', n)
    BY <2>2 DEF Keeps
  <2>. QED
    BY <2>1, <2>2, HandlersAfter
<1>3. loops' \in 0..MaxLoopIterations + 1 /\ late' \in BOOLEAN
  BY CountBounded DEF IInv, TypeOK, Effect
<1>4. outcome' = Running \/ outcome' \in {Returned(outcome'[2]), Failed(outcome'[2])}
  BY DEF Effect, Moves, Ends, Unwinds, Enters, Leaves, Guards, Unguards, Returned, Failed
<1>5. outcome' = Running => frames' # << >>
  <2>1. Len(frames) \in Nat \ {0}
    BY RunningFacts DEF IInv
  <2>2. CASE Ends
    BY <2>2 DEF Ends, Running, Returned, Failed
  <2>3. CASE Leaves
    BY <2>3 DEF Leaves, Running, Returned
  <2>4. CASE Unwinds
    <3>1. Len(handlers) \in DOMAIN handlers
      BY <2>4, SeqFacts DEF Unwinds, IInv, TypeOK
    <3>2. Last(handlers).frameDepth \in 1..Len(frames)
      BY <3>1 DEF IInv, HandlersLive, Last
    <3>. QED
      BY <1>1, <2>1, <2>4, <3>2, SeqFacts DEF Unwinds, Outermost
  <2>5. CASE Moves \/ Enters \/ Guards \/ Unguards
    <3>1. Len(frames') > 0
      BY <2>1, <2>5 DEF Moves, Enters, Guards, Unguards, Outermost, Shifts
    <3>. QED
      BY <1>1, <3>1, SeqFacts
  <2>. QED
    BY <2>2, <2>3, <2>4, <2>5 DEF Effect
<1>. QED
  BY <1>1, <1>2, <1>3, <1>4, <1>5 DEF TypeOK

\* Whatever effect a step has, the handlers left belong to calls left.
LEMMA EffectHandlersLive ==
  ASSUME IInv, outcome = Running, Effect
  PROVE  HandlersLive'
<1>1. /\ IsSeq(handlers) /\ Len(handlers) \in Nat /\ DOMAIN handlers = 1..Len(handlers)
      /\ Len(frames) \in Nat \ {0} /\ Len(frames') \in Nat
  BY SeqFacts, RunningFacts, FramesAfter DEF IInv, TypeOK, Continues
<1>2. /\ \A i \in 1..Len(handlers) : handlers[i].frameDepth \in 1..Len(frames)
      /\ \A i, j \in 1..Len(handlers) : i < j => handlers[i].frameDepth <= handlers[j].frameDepth
  BY <1>1 DEF IInv, HandlersLive
<1>3. ASSUME NEW n, Keeps(handlers', n) PROVE HandlersLive'
  <2>1. n \in 0..Len(handlers) /\ DOMAIN handlers' = 1..n
    BY <1>3, SeqFacts DEF Keeps
  <2>2. \A i \in 1..n : /\ i \in 1..Len(handlers) /\ handlers'[i] = handlers[i]
                         /\ handlers[i].frameDepth \in 1..Len(frames')
    BY <1>1, <1>2, <1>3, <2>1 DEF Keeps
  <2>. QED
    BY <1>2, <2>1, <2>2 DEF HandlersLive
<1>4. ASSUME Guards, Len(frames') = Len(frames) PROVE HandlersLive'
  <2> DEFINE n == Len(handlers)
  <2>1. handlers' = Append(handlers, Handler) /\ Handler.frameDepth = Len(frames)
    BY <1>4 DEF Guards, Handler
  <2>2. /\ IsSeq(handlers') /\ Len(handlers') = n + 1 /\ handlers'[n + 1] = Handler
        /\ \A i \in 1..n : handlers'[i] = handlers[i]
    BY <1>1, <2>1, AppendFacts
  <2>3. DOMAIN handlers' = 1..n + 1
    BY <2>2, SeqFacts
  <2>4. \A i \in 1..n + 1 : i \in 1..n \/ i = n + 1
    BY <1>1
  <2>5. \A i \in 1..n + 1 : handlers'[i].frameDepth \in 1..Len(frames')
    BY <1>1, <1>2, <1>4, <2>1, <2>2, <2>4
  <2>6. ASSUME NEW i \in 1..n + 1, NEW j \in 1..n + 1, i < j
        PROVE  handlers'[i].frameDepth <= handlers'[j].frameDepth
    <3>1. i \in 1..n
      BY <1>1, <2>6
    <3>2. CASE j \in 1..n
      BY <1>2, <2>2, <2>6, <3>1, <3>2
    <3>3. CASE j = n + 1
      <4>1. handlers[i].frameDepth \in 1..Len(frames)
        BY <1>2, <3>1
      <4>. QED
        BY <1>1, <2>1, <2>2, <3>1, <3>3, <4>1
    <3>. QED
      BY <2>4, <3>2, <3>3
  <2>. QED
    BY <2>3, <2>5, <2>6 DEF HandlersLive
<1>. QED
  BY <1>3, <1>4, HandlersAfter

\* No step of the VM, of the clock or of an ended program breaks the invariant.
LEMMA NextInv == ASSUME IInv, [Next]_vars PROVE IInv'
<1>1. CASE Step
  BY <1>1, StepRuns, StepEffect, EffectTypeOK, EffectHandlersLive DEF IInv
<1>2. CASE Clock
  BY <1>2 DEF Clock, control, data, IInv, TypeOK, HandlersLive
<1>3. CASE UNCHANGED vars
  BY <1>3 DEF vars, control, data, limits, IInv, TypeOK, HandlersLive
<1>. QED
  BY <1>1, <1>2, <1>3 DEF Next, Ended

\* The inductive invariant holds in every state of every program.
LEMMA Invariance == Spec => []IInv
BY InitInv, NextInv, PTL DEF Spec

\* The control state keeps its shape: in particular a running program has a
\* current call, whatever was returned from or unwound.
THEOREM TypeCorrect == Spec => []TypeOK
<1>1. IInv => TypeOK
  BY DEF IInv
<1>. QED
  BY <1>1, Invariance, PTL

\* No exception ever resumes a call that has ended.
THEOREM HandlersStayLive == Spec => []HandlersLive
<1>1. IInv => HandlersLive
  BY DEF IInv
<1>. QED
  BY <1>1, Invariance, PTL

-----------------------------------------------------------------------------
(* Catch addresses, and the calls below the current one.                   *)

\* The handler at i jumps to an address that code of its frame registers.
CatchesIn(fns, hs, i, fs) ==
  LET code == fns[fs[hs[i].frameDepth].function].code
  IN  \E pc \in DOMAIN code : code[pc].op = "TRY_BEGIN" /\ hs[i].catchIp = JumpTarget(code, pc)

\* Of live handlers, CatchInOwnFunction speaks of all.
LEMMA CatchesAll ==
  ASSUME HandlersLive, IsSeq(frames), IsSeq(handlers), CatchInOwnFunction
  PROVE  \A i \in 1..Len(handlers) : CatchesIn(prog.fns, handlers, i, frames)
<1>1. DOMAIN handlers = 1..Len(handlers) /\ DOMAIN frames = 1..Len(frames)
  BY SeqFacts
<1>2. {j \in DOMAIN handlers : handlers[j].frameDepth \in DOMAIN frames} = 1..Len(handlers)
  BY <1>1 DEF HandlersLive
<1>. QED
  BY <1>2 DEF CatchInOwnFunction, CatchesIn, CodeOf

\* Whatever effect a step has, each handler left keeps the catch address its
\* function registered.
LEMMA EffectCatches ==
  ASSUME IInv, outcome = Running, CatchInOwnFunction, Effect
  PROVE  CatchInOwnFunction'
<1>1. /\ IsSeq(handlers) /\ Len(handlers) \in Nat /\ IsSeq(frames) /\ Len(frames) \in Nat \ {0}
      /\ DOMAIN handlers = 1..Len(handlers) /\ HandlersLive
  BY SeqFacts, RunningFacts DEF IInv, TypeOK
<1>2. /\ IsSeq(handlers') /\ IsSeq(frames') /\ HandlersLive'
      /\ DOMAIN handlers' = 1..Len(handlers')
      /\ \A i \in 1..Len(frames') : i <= Len(frames) => frames'[i].function = frames[i].function
  BY EffectTypeOK, EffectHandlersLive, FramesAfter, SeqFacts DEF TypeOK, Continues
<1>3. \A i \in 1..Len(handlers) : CatchesIn(prog.fns, handlers, i, frames)
  BY <1>1, CatchesAll
<1>4. prog' = prog
  BY DEF Effect
<1>5. \A i \in 1..Len(handlers') : handlers'[i].frameDepth \in 1..Len(frames')
  BY <1>2 DEF HandlersLive
<1>6. ASSUME NEW i \in 1..Len(handlers'), i \in 1..Len(handlers), handlers'[i] = handlers[i]
      PROVE  CatchesIn(prog'.fns, handlers', i, frames')
  <2>1. handlers[i].frameDepth \in 1..Len(frames) /\ handlers[i].frameDepth \in 1..Len(frames')
    BY <1>1, <1>5, <1>6 DEF HandlersLive
  <2>2. frames'[handlers'[i].frameDepth].function = frames[handlers[i].frameDepth].function
    BY <1>1, <1>2, <1>6, <2>1
  <2>. QED
    BY <1>3, <1>4, <1>6, <2>2 DEF CatchesIn
<1>7. ASSUME NEW n, Keeps(handlers', n) PROVE \A i \in 1..Len(handlers') : CatchesIn(prog'.fns, handlers', i, frames')
  BY <1>1, <1>6, <1>7 DEF Keeps
<1>8. ASSUME Guards, Len(frames') = Len(frames)
      PROVE  \A i \in 1..Len(handlers') : CatchesIn(prog'.fns, handlers', i, frames')
  <2> DEFINE n == Len(handlers)
             code == prog.fns[Top.function].code
  <2>1. handlers' = Append(handlers, Handler)
    BY <1>8 DEF Guards
  <2>2. /\ Len(handlers') = n + 1 /\ handlers'[n + 1] = Handler
        /\ \A i \in 1..n : handlers'[i] = handlers[i]
    BY <1>1, <2>1, AppendFacts
  <2>3. /\ Top.ip \in DOMAIN code /\ code[Top.ip].op = "TRY_BEGIN"
        /\ Handler.catchIp = JumpTarget(code, Top.ip)
    BY <1>8 DEF Guards, HasInstr, Instr, Handler, JumpTarget, CodeOf
  <2>4. /\ Handler.frameDepth = Len(frames)
        /\ frames'[Len(frames)].function = frames[Len(frames)].function
    BY <1>1, <1>2, <1>8 DEF Handler
  <2>5. CatchesIn(prog'.fns, handlers', n + 1, frames')
    BY <1>4, <2>2, <2>3, <2>4 DEF CatchesIn, Top, Last
  <2>6. \A i \in 1..Len(handlers') : i \in 1..n \/ i = n + 1
    BY <1>1, <2>2
  <2>. QED
    BY <1>6, <2>2, <2>5, <2>6
<1>9. \A i \in 1..Len(handlers') : CatchesIn(prog'.fns, handlers', i, frames')
  BY <1>7, <1>8, HandlersAfter
<1>10. {j \in DOMAIN handlers' : handlers'[j].frameDepth \in DOMAIN frames'} = 1..Len(handlers')
  <2>1. DOMAIN frames' = 1..Len(frames')
    BY <1>2, SeqFacts
  <2>. QED
    BY <1>2, <1>5, <2>1
<1>. QED
  BY <1>9, <1>10 DEF CatchInOwnFunction, CatchesIn, CodeOf

\* An exception resumes the function its handler was compiled into, at an
\* address that function registered.
THEOREM CatchesInOwnFunction == Spec => []CatchInOwnFunction
<1>1. Init => CatchInOwnFunction
  BY DEF Init, CatchInOwnFunction
<1>2. ASSUME IInv, CatchInOwnFunction, [Next]_vars PROVE CatchInOwnFunction'
  <2>1. CASE Step
    BY <1>2, <2>1, StepRuns, StepEffect, EffectCatches
  <2>2. CASE Clock
    BY <1>2, <2>2 DEF Clock, control, CatchInOwnFunction, CodeOf
  <2>3. CASE UNCHANGED vars
    BY <1>2, <2>3 DEF vars, control, CatchInOwnFunction, CodeOf
  <2>. QED
    BY <1>2, <2>1, <2>2, <2>3 DEF Next, Ended
<1>. QED
  BY <1>1, <1>2, Invariance, PTL DEF Spec

\* A step changes no call but the current one and the one it returns or
\* unwinds to.
THEOREM CallersStayUntouched == Spec => CallersUntouched
<1> DEFINE Untouched == \A i \in DOMAIN frames \cap DOMAIN frames' :
                          i < Len(frames) /\ i < Len(frames') => frames'[i] = frames[i]
<1>1. ASSUME IInv, [Next]_vars PROVE [Untouched]_vars
  <2>1. CASE Step
    <3>1. Continues(frames')
      BY <1>1, <2>1, StepRuns, StepEffect, FramesAfter
    <3>2. DOMAIN frames' = 1..Len(frames')
      BY <3>1, SeqFacts DEF Continues
    <3>. QED
      BY <3>1, <3>2 DEF Continues
  <2>2. CASE Clock
    BY <2>2 DEF Clock, control
  <2>3. CASE UNCHANGED vars
    BY <2>3
  <2>. QED
    BY <1>1, <2>1, <2>2, <2>3 DEF Next, Ended
<1>. QED
  BY <1>1, Invariance, PTL DEF Spec, CallersUntouched

-----------------------------------------------------------------------------
(* Try bodies: the handlers of a call and the statement it is at.          *)

\* What the theorem asks of the programs: that their code is balanced, as CodeBalanced
\* finds of what the compiler makes.
ProgramsBalanced == \A p \in Programs : \A f \in DOMAIN p.fns : Balanced(p.fns[f])

\* Where among the handlers hs those of the call at depth d are, and those that the
\* call of the handler at i had registered before it.
Opened(hs, d) == {i \in 1..Len(hs) : hs[i].frameDepth = d}
Before(hs, i) == {j \in 1..i - 1 : hs[j].frameDepth = hs[i].frameDepth}

\* Going down the code of fn leads to ip with as many open try bodies as `open` has.
Follows(fns, fn, ip, open) == <<ip, Cardinality(open)>> \in Reached(fns[fn].code)

\* Each call is where its code leads with the handlers it has registered, and its
\* handlers resume it with those that were there before them.
FollowsCode ==
  /\ prog \in Programs
  /\ \A d \in 1..Len(frames) : /\ frames[d].function \in DOMAIN prog.fns
                               /\ Follows(prog.fns, frames[d].function, frames[d].ip, Opened(handlers, d))
  /\ \A i \in 1..Len(handlers) :
       Follows(prog.fns, frames[handlers[i].frameDepth].function, handlers[i].catchIp, Before(handlers, i))

\* Finitely many handlers are counted by a number.
LEMMA OpenedFacts ==
  ASSUME NEW hs, IsSeq(hs), NEW d
  PROVE  IsFiniteSet(Opened(hs, d)) /\ Cardinality(Opened(hs, d)) \in Nat
<1>1. Len(hs) \in Nat
  BY SeqFacts
<1>2. IsFiniteSet(1..Len(hs))
  BY <1>1, FS_Interval
<1>3. Opened(hs, d) \subseteq 1..Len(hs)
  BY DEF Opened
<1>. QED
  BY <1>2, <1>3, FS_Subset, FS_CardinalityType

\* What is reached in balanced code leads on to what is reached.
LEMMA BalancedFacts ==
  ASSUME NEW fn, Balanced(fn)
  PROVE  /\ <<1, 0>> \in Reached(fn.code)
         /\ \A pc, n : <<pc, n>> \in Reached(fn.code) =>
              n \in Nat /\ (pc \in DOMAIN fn.code => Flow(fn.code, pc, n) \subseteq Reached(fn.code))
<1>1. /\ <<1, 0>> \in Reached(fn.code)
      /\ \A a \in Reached(fn.code) :
           a[2] \in Nat /\ (a[1] \in DOMAIN fn.code => Flow(fn.code, a[1], a[2]) \subseteq Reached(fn.code))
  BY DEF Balanced
<1>2. ASSUME NEW pc, NEW n, <<pc, n>> \in Reached(fn.code)
      PROVE  n \in Nat /\ (pc \in DOMAIN fn.code => Flow(fn.code, pc, n) \subseteq Reached(fn.code))
  <2>1. PICK a : a = <<pc, n>>
    OBVIOUS
  <2>2. a[1] = pc /\ a[2] = n /\ a \in Reached(fn.code)
    BY <1>2, <2>1
  <2>. QED
    BY <1>1, <2>2
<1>. QED
  BY <1>1, <1>2

\* Where the current call goes on, unless it throws.
LEMMA CurrentFlow ==
  ASSUME IInv, outcome = Running, ProgramsBalanced, FollowsCode,
         NEW code, code = CodeOf(Top.function).code,
         NEW n, n = Cardinality(Opened(handlers, Len(frames)))
  PROVE  /\ n \in Nat /\ code = prog.fns[frames[Len(frames)].function].code
         /\ HasInstr => Flow(code, Top.ip, n) \subseteq Reached(code)
         /\ <<1, 0>> \in Reached(code)
         /\ \A ip, m : <<ip, m>> \in Reached(code) => m \in Nat
<1>1. Len(frames) \in 1..Len(frames) /\ prog \in Programs
  BY RunningFacts DEF IInv, FollowsCode
<1>2. /\ Top.function \in DOMAIN prog.fns /\ code = prog.fns[Top.function].code
      /\ <<Top.ip, n>> \in Reached(code)
  BY <1>1 DEF FollowsCode, Follows, Top, Last, CodeOf
<1>3. Balanced(prog.fns[Top.function])
  BY <1>1, <1>2 DEF ProgramsBalanced
<1>4. HasInstr => Top.ip \in DOMAIN code
  BY DEF HasInstr
<1>. QED
  BY <1>2, <1>3, <1>4, BalancedFacts DEF Top, Last

\* The handlers that are left keep resuming where the code leads.
LEMMA KeptHandlersFollow ==
  ASSUME IInv, outcome = Running, FollowsCode, Effect, NEW n, Keeps(handlers', n)
  PROVE  \A i \in 1..Len(handlers') :
           Follows(prog.fns, frames'[handlers'[i].frameDepth].function, handlers'[i].catchIp, Before(handlers', i))
<1>1. /\ Len(handlers) \in Nat /\ Len(frames) \in Nat /\ Len(frames') \in Nat
      /\ DOMAIN handlers = 1..Len(handlers)
      /\ \A d \in 1..Len(frames') : d <= Len(frames) => frames'[d].function = frames[d].function
  BY SeqFacts, FramesAfter DEF IInv, TypeOK, Continues
<1>2. SUFFICES ASSUME NEW i \in 1..Len(handlers')
               PROVE  Follows(prog.fns, frames'[handlers'[i].frameDepth].function, handlers'[i].catchIp, Before(handlers', i))
  OBVIOUS
<1>3. n \in 0..Len(handlers) /\ i \in 1..n /\ \A j \in 1..n : handlers'[j] = handlers[j] /\ j \in 1..Len(handlers)
  BY <1>1 DEF Keeps
<1>4. handlers'[i] = handlers[i] /\ i \in 1..Len(handlers)
  BY <1>3
<1>5. handlers[i].frameDepth \in 1..Len(frames) /\ handlers[i].frameDepth <= Len(frames')
  BY <1>1, <1>3, <1>4 DEF IInv, HandlersLive, Keeps
<1>6. frames'[handlers[i].frameDepth].function = frames[handlers[i].frameDepth].function
  BY <1>1, <1>5
<1>7. \A j \in 1..i - 1 : handlers'[j] = handlers[j]
  BY <1>1, <1>3
<1>8. Before(handlers', i) = Before(handlers, i)
  BY <1>4, <1>7 DEF Before
<1>. QED
  BY <1>4, <1>6, <1>8 DEF FollowsCode

\* A handler that is registered resumes with those that were there.
LEMMA NewHandlerFollows ==
  ASSUME IInv, outcome = Running, ProgramsBalanced, FollowsCode, Effect, Guards
  PROVE  \A i \in 1..Len(handlers') :
           Follows(prog.fns, frames'[handlers'[i].frameDepth].function, handlers'[i].catchIp, Before(handlers', i))
<1> DEFINE n == Len(handlers)
           code == CodeOf(Top.function).code
           k == Cardinality(Opened(handlers, Len(frames)))
<1>1. /\ IsSeq(handlers) /\ n \in Nat /\ DOMAIN handlers = 1..n /\ Len(frames) \in Nat \ {0}
      /\ Len(frames') = Len(frames)
      /\ \A d \in 1..Len(frames) : frames'[d].function = frames[d].function
  BY SeqFacts, RunningFacts, FramesAfter DEF IInv, TypeOK, Continues, Guards, Shifts, Outermost
<1>2. /\ Len(handlers') = n + 1 /\ handlers'[n + 1] = Handler
      /\ \A i \in 1..n : handlers'[i] = handlers[i]
  BY <1>1, AppendFacts DEF Guards
<1>3. Handler.frameDepth = Len(frames) /\ Handler.catchIp = Top.ip + 1 + Instr.arg
  BY DEF Handler
<1>4. \A i \in 1..n + 1 : i \in 1..n \/ i = n + 1
  BY <1>1
<1>5. ASSUME NEW i \in 1..n
      PROVE  Follows(prog.fns, frames'[handlers'[i].frameDepth].function, handlers'[i].catchIp, Before(handlers', i))
  <2>1. handlers[i].frameDepth \in 1..Len(frames) /\ handlers'[i] = handlers[i]
    BY <1>1, <1>2 DEF IInv, HandlersLive
  <2>2. \A j \in 1..i - 1 : handlers'[j] = handlers[j]
    BY <1>1, <1>2
  <2>3. Before(handlers', i) = Before(handlers, i)
    BY <2>1, <2>2 DEF Before
  <2>. QED
    BY <1>1, <2>1, <2>3 DEF FollowsCode
<1>6. Before(handlers', n + 1) = Opened(handlers, Len(frames))
  BY <1>1, <1>2, <1>3 DEF Before, Opened
<1>7. /\ code = prog.fns[frames[Len(frames)].function].code
      /\ HasInstr => Flow(code, Top.ip, k) \subseteq Reached(code)
  BY CurrentFlow
<1>8. HasInstr /\ code[Top.ip].op = "TRY_BEGIN" /\ JumpTarget(code, Top.ip) = Handler.catchIp
  BY <1>3 DEF Guards, Instr, JumpTarget
<1>9. <<JumpTarget(code, Top.ip), k>> \in Flow(code, Top.ip, k)
  BY <1>8 DEF Flow
<1>10. <<Handler.catchIp, k>> \in Reached(prog.fns[frames[Len(frames)].function].code)
  BY <1>7, <1>8, <1>9
<1>11. Len(frames) \in 1..Len(frames)
  BY <1>1
<1>12. Follows(prog.fns, frames'[handlers'[n + 1].frameDepth].function, handlers'[n + 1].catchIp, Before(handlers', n + 1))
  BY <1>1, <1>2, <1>3, <1>6, <1>10, <1>11 DEF Follows
<1> DEFINE F(i) == Follows(prog.fns, frames'[handlers'[i].frameDepth].function, handlers'[i].catchIp,
                           Before(handlers', i))
<1>13. (\A i \in 1..n : F(i)) /\ F(n + 1)
  BY <1>5, <1>12
<1> HIDE DEF F
<1>14. \A i \in 1..Len(handlers') : F(i)
  BY <1>2, <1>4, <1>13
<1>. QED
  BY <1>14 DEF F

\* After a step the call at depth d is where its code leads.
Stands(d) == /\ frames'[d].function \in DOMAIN prog.fns
             /\ Follows(prog.fns, frames'[d].function, frames'[d].ip, Opened(handlers', d))

\* A call that keeps its frame and its handlers is where it was.
LEMMA CallStands ==
  ASSUME FollowsCode, NEW d \in 1..Len(frames), frames'[d] = frames[d], Opened(handlers', d) = Opened(handlers, d)
  PROVE  Stands(d)
BY DEF FollowsCode, Stands

\* When the current call is shifted, the others are where they were if they keep
\* their handlers, and it has to stand at its new position.
LEMMA ShiftStands ==
  ASSUME IInv, outcome = Running, FollowsCode, NEW x, Shifts(x),
         \A d \in 1..Len(frames) - 1 : Opened(handlers', d) = Opened(handlers, d),
         <<x, Cardinality(Opened(handlers', Len(frames)))>> \in Reached(CodeOf(Top.function).code)
  PROVE  \A d \in 1..Len(frames') : Stands(d)
<1>1. /\ Len(frames) \in Nat \ {0} /\ Len(frames') = Len(frames)
      /\ \A d \in 1..Len(frames) - 1 : frames'[d] = frames[d]
      /\ frames'[Len(frames)].function = Top.function /\ frames'[Len(frames)].ip = x
  BY RunningFacts DEF IInv, Shifts, Outermost, SameCall, Top, Last
<1>2. \A d \in 1..Len(frames) - 1 : d \in 1..Len(frames)
  BY <1>1
<1>3. \A d \in 1..Len(frames) - 1 : Stands(d)
  BY <1>1, <1>2, CallStands
<1>4. Top.function \in DOMAIN prog.fns
  BY <1>1 DEF FollowsCode, Top, Last
<1>5. Stands(Len(frames))
  BY <1>1, <1>4 DEF Stands, Follows, CodeOf
<1>6. \A d \in 1..Len(frames') : d \in 1..Len(frames) - 1 \/ d = Len(frames)
  BY <1>1
<1>. QED
  BY <1>3, <1>5, <1>6

\* A plain step or a jump goes on with the same handlers.  An end of a try without
\* a handler does not happen: fewer than none would be open.
LEMMA MovesStand ==
  ASSUME IInv, outcome = Running, ProgramsBalanced, FollowsCode, Moves
  PROVE  \A d \in 1..Len(frames') : Stands(d)
<1> DEFINE code == CodeOf(Top.function).code
           n == Cardinality(Opened(handlers, Len(frames)))
<1>1. PICK x \in Successors(code, Top.ip) : Shifts(x)
  BY DEF Moves
<1>2. /\ n \in Nat /\ Flow(code, Top.ip, n) \subseteq Reached(code)
      /\ \A ip, m : <<ip, m>> \in Reached(code) => m \in Nat
  BY CurrentFlow DEF Moves
<1>3. HasInstr /\ code[Top.ip].op # "TRY_BEGIN" /\ handlers' = handlers
  BY DEF Moves, Instr
<1>4. code[Top.ip].op # "TRY_END"
  <2>1. SUFFICES ASSUME code[Top.ip].op = "TRY_END" PROVE FALSE
    OBVIOUS
  <2>2. handlers = << >>
    BY <2>1 DEF Moves, Instr
  <2>3. Opened(handlers, Len(frames)) = {}
    BY <2>2 DEF Opened
  <2>4. n = 0
    BY <2>3, FS_EmptySet
  <2>5. <<Top.ip + 1, n - 1>> \in Flow(code, Top.ip, n)
    BY <2>1 DEF Flow
  <2>6. n - 1 \in Nat
    BY <1>2, <2>5
  <2>. QED
    BY <2>4, <2>6
<1>5. <<x, n>> \in Reached(code)
  <2>1. <<x, n>> \in Flow(code, Top.ip, n)
    BY <1>1, <1>3, <1>4 DEF Flow
  <2>. QED
    BY <1>2, <2>1
<1>6. \A d : Opened(handlers', d) = Opened(handlers, d)
  BY <1>3
<1>. QED
  BY <1>1, <1>5, <1>6, ShiftStands

\* A try begins: the current call has one more handler.
LEMMA GuardsStand ==
  ASSUME IInv, outcome = Running, ProgramsBalanced, FollowsCode, Guards
  PROVE  \A d \in 1..Len(frames') : Stands(d)
<1> DEFINE code == CodeOf(Top.function).code
           own == Opened(handlers, Len(frames))
           n == Cardinality(own)
           last == Len(handlers) + 1
<1>1. /\ n \in Nat /\ Flow(code, Top.ip, n) \subseteq Reached(code)
  BY CurrentFlow DEF Guards
<1>2. /\ IsSeq(handlers) /\ Len(handlers) \in Nat /\ Len(frames) \in Nat \ {0}
  BY SeqFacts, RunningFacts DEF IInv, TypeOK
<1>3. /\ Len(handlers') = last /\ handlers'[last].frameDepth = Len(frames)
      /\ \A i \in 1..Len(handlers) : handlers'[i] = handlers[i]
  BY <1>2, AppendFacts DEF Guards, Handler
<1>4. \A i \in 1..last : i \in 1..Len(handlers) \/ i = last
  BY <1>2
<1>5. \A i \in 1..Len(handlers) : i \in 1..last /\ i # last
  BY <1>2
<1>6. last \in 1..last
  BY <1>2
<1> HIDE DEF last
<1>7. \A d \in 1..Len(frames) - 1 : Opened(handlers', d) = Opened(handlers, d)
  <2>1. \A d \in 1..Len(frames) - 1 : d # Len(frames)
    BY <1>2
  <2>. QED
    BY <1>3, <1>4, <1>5, <2>1 DEF Opened
<1>8. Opened(handlers', Len(frames)) = own \cup {last} /\ last \notin own
  BY <1>3, <1>4, <1>5, <1>6 DEF Opened
<1>9. Cardinality(Opened(handlers', Len(frames))) = n + 1
  BY <1>2, <1>8, OpenedFacts, FS_AddElement
<1>10. code[Top.ip].op = "TRY_BEGIN" /\ Shifts(Top.ip + 1)
  BY DEF Guards, Instr
<1>11. <<Top.ip + 1, n + 1>> \in Reached(code)
  <2>1. <<Top.ip + 1, n + 1>> \in Flow(code, Top.ip, n)
    BY <1>10 DEF Flow
  <2>. QED
    BY <1>1, <2>1
<1>. QED
  BY <1>7, <1>9, <1>10, <1>11, ShiftStands

\* What is left of the handlers when the last is taken away.
LEMMA FrontOpened ==
  ASSUME IInv, handlers # << >>, handlers' = Front(handlers)
  PROVE  /\ Len(handlers) \in Nat \ {0} /\ Last(handlers) = handlers[Len(handlers)]
         /\ \A d : Opened(handlers', d) = Opened(handlers, d) \ {Len(handlers)}
         /\ Opened(handlers', Last(handlers).frameDepth) = Before(handlers, Len(handlers))
<1>1. /\ IsSeq(handlers) /\ Len(handlers) \in Nat \ {0}
  BY SeqFacts DEF IInv, TypeOK
<1>2. handlers' = SubSeq(handlers, 1, Len(handlers) - 1) /\ Len(handlers) - 1 \in 0..Len(handlers)
  BY <1>1 DEF Front
<1>3. /\ Len(handlers') = Len(handlers) - 1
      /\ \A i \in 1..Len(handlers) - 1 : handlers'[i] = handlers[i]
  BY <1>1, <1>2, PrefixFacts
<1>4. \A i : i \in 1..Len(handlers) - 1 <=> i \in 1..Len(handlers) /\ i # Len(handlers)
  BY <1>1
<1>5. \A d : Opened(handlers', d) = Opened(handlers, d) \ {Len(handlers)}
  BY <1>3, <1>4 DEF Opened
<1>6. Last(handlers) = handlers[Len(handlers)]
  BY DEF Last
<1>7. Opened(handlers', Last(handlers).frameDepth) = Before(handlers, Len(handlers))
  BY <1>3, <1>6 DEF Opened, Before
<1>. QED
  BY <1>1, <1>5, <1>6, <1>7

\* A try ends: its handler is the last one, and the current call's.
LEMMA UnguardsStand ==
  ASSUME IInv, outcome = Running, ProgramsBalanced, FollowsCode, Unguards
  PROVE  \A d \in 1..Len(frames') : Stands(d)
<1> DEFINE code == CodeOf(Top.function).code
           own == Opened(handlers, Len(frames))
           n == Cardinality(own)
           last == Len(handlers)
<1>1. /\ n \in Nat /\ Flow(code, Top.ip, n) \subseteq Reached(code)
      /\ \A ip, m : <<ip, m>> \in Reached(code) => m \in Nat
  BY CurrentFlow DEF Unguards
<1>2. /\ IsSeq(handlers) /\ last \in Nat \ {0} /\ DOMAIN handlers = 1..last /\ Len(frames) \in Nat \ {0}
      /\ \A d : Opened(handlers', d) = Opened(handlers, d) \ {last}
  BY SeqFacts, RunningFacts, FrontOpened DEF IInv, TypeOK, Unguards
<1>3. code[Top.ip].op = "TRY_END" /\ Shifts(Top.ip + 1)
  BY DEF Unguards, Instr
<1>4. <<Top.ip + 1, n - 1>> \in Reached(code)
  <2>1. <<Top.ip + 1, n - 1>> \in Flow(code, Top.ip, n)
    BY <1>3 DEF Flow
  <2>. QED
    BY <1>1, <2>1
<1>5. own # {}
  <2>1. n # 0
    BY <1>1, <1>4
  <2>. QED
    BY <1>2, <2>1, FS_EmptySet
<1>6. last \in own
  <2>1. last \in Nat \ {0} /\ Len(frames) \in Nat /\ DOMAIN handlers = 1..last
    BY <1>2
  <2>2. PICK i : i \in 1..last /\ handlers[i].frameDepth = Len(frames)
    BY <1>5 DEF Opened
  <2>3. last \in 1..last /\ (i = last \/ i < last)
    <3> HIDE DEF last
    <3>1. last \in Nat \ {0} /\ i \in 1..last
      BY <2>1, <2>2
    <3>. QED
      BY <3>1
  <2>4. handlers[last].frameDepth \in 1..Len(frames) /\ (i < last => handlers[i].frameDepth <= handlers[last].frameDepth)
    BY <2>1, <2>2, <2>3 DEF IInv, HandlersLive
  <2>5. handlers[last].frameDepth = Len(frames)
    BY <2>1, <2>2, <2>3, <2>4
  <2>. QED
    BY <2>3, <2>5 DEF Opened
<1>7. \A d \in 1..Len(frames) - 1 : Opened(handlers', d) = Opened(handlers, d)
  <2>1. \A d \in 1..Len(frames) - 1 : d # Len(frames)
    BY <1>2
  <2>2. \A d \in 1..Len(frames) - 1 : last \notin Opened(handlers, d)
    BY <1>6, <2>1 DEF Opened
  <2>. QED
    BY <1>2, <2>2
<1>8. Cardinality(Opened(handlers', Len(frames))) = n - 1
  BY <1>2, <1>6, OpenedFacts, FS_RemoveElement
<1>. QED
  BY <1>3, <1>4, <1>7, <1>8, ShiftStands

\* A throw: the frame of the last handler goes on at its catch, with the handlers it
\* had before.
LEMMA UnwindsStand ==
  ASSUME IInv, outcome = Running, FollowsCode, Unwinds
  PROVE  \A d \in 1..Len(frames') : Stands(d)
<1> DEFINE last == Len(handlers)
           k == Last(handlers).frameDepth
<1>1. /\ last \in Nat \ {0} /\ DOMAIN handlers = 1..last /\ Last(handlers) = handlers[last]
      /\ \A d : Opened(handlers', d) = Opened(handlers, d) \ {last}
      /\ Opened(handlers', k) = Before(handlers, last)
  BY SeqFacts, FrontOpened DEF IInv, TypeOK, Unwinds
<1>2. k \in 1..Len(frames) /\ Len(frames) \in Nat /\ last \in 1..last
  BY <1>1, RunningFacts DEF IInv, HandlersLive
<1>3. /\ Len(frames') = k /\ \A d \in 1..k - 1 : frames'[d] = frames[d]
      /\ frames'[k].function = frames[k].function /\ frames'[k].ip = Last(handlers).catchIp
  BY DEF Unwinds, Outermost, SameCall
<1>4. \A d \in 1..k - 1 : Stands(d)
  <2>1. \A d \in 1..k - 1 : d \in 1..Len(frames) /\ d # k
    BY <1>2
  <2>2. \A d \in 1..k - 1 : last \notin Opened(handlers, d)
    BY <1>1, <2>1 DEF Opened
  <2>3. \A d \in 1..k - 1 : Opened(handlers', d) = Opened(handlers, d)
    BY <1>1, <2>2
  <2>. QED
    BY <1>3, <2>1, <2>3, CallStands
<1>5. Stands(k)
  <2>1. Follows(prog.fns, frames[k].function, handlers[last].catchIp, Before(handlers, last))
    BY <1>1, <1>2 DEF FollowsCode
  <2>. QED
    BY <1>1, <1>2, <1>3, <2>1 DEF Stands, FollowsCode
<1>6. \A d \in 1..Len(frames') : d \in 1..k - 1 \/ d = k
  BY <1>2, <1>3
<1>. QED
  BY <1>4, <1>5, <1>6

\* A call: the caller will go on behind it, and the new call starts without handlers.
LEMMA EntersStand ==
  ASSUME IInv, outcome = Running, ProgramsBalanced, FollowsCode, Enters
  PROVE  \A d \in 1..Len(frames') : Stands(d)
<1> DEFINE code == CodeOf(Top.function).code
           n == Cardinality(Opened(handlers, Len(frames)))
           new == Len(frames) + 1
<1>1. Flow(code, Top.ip, n) \subseteq Reached(code) /\ HasInstr
  BY CurrentFlow DEF Enters, Plain
<1>2. /\ Len(frames) \in Nat \ {0} /\ Len(frames') = new /\ handlers' = handlers
      /\ \A d \in 1..Len(frames) - 1 : frames'[d] = frames[d]
      /\ frames'[Len(frames)].function = Top.function /\ frames'[Len(frames)].ip = Top.ip + 1
      /\ frames'[new].function \in DOMAIN prog.fns /\ frames'[new].ip = 1
  BY RunningFacts DEF IInv, Enters, SameCall, Admitted, Top, Last
<1>3. \A d \in 1..Len(frames) - 1 : d \in 1..Len(frames)
  BY <1>2
<1>4. \A d \in 1..Len(frames) - 1 : Stands(d)
  BY <1>2, <1>3, CallStands
<1>5. Stands(Len(frames))
  <2>1. <<Top.ip + 1, n>> \in Flow(code, Top.ip, n)
    <3>1. Instr.op \notin {"TRY_BEGIN", "TRY_END"} /\ Top.ip + 1 \in Successors(code, Top.ip)
      BY PlainFacts DEF Enters
    <3>. QED
      BY <3>1 DEF Flow, Instr
  <2>2. Top.function \in DOMAIN prog.fns
    BY <1>2 DEF FollowsCode, Top, Last
  <2>. QED
    BY <1>1, <1>2, <2>1, <2>2 DEF Stands, Follows, CodeOf
<1>6. Stands(new)
  <2>1. \A i \in 1..Len(handlers) : handlers[i].frameDepth # new
    <3>1. \A i \in 1..Len(handlers) : handlers[i].frameDepth \in 1..Len(frames)
      BY SeqFacts DEF IInv, TypeOK, HandlersLive
    <3>. QED
      BY <1>2, <3>1
  <2>2. Opened(handlers', new) = {}
    BY <1>2, <2>1 DEF Opened
  <2>3. Balanced(prog.fns[frames'[new].function])
    BY <1>2 DEF FollowsCode, ProgramsBalanced
  <2>4. <<1, 0>> \in Reached(prog.fns[frames'[new].function].code)
    BY <2>3, BalancedFacts
  <2>. QED
    BY <1>2, <2>2, <2>4, FS_EmptySet DEF Stands, Follows
<1>7. \A d \in 1..new : d \in 1..Len(frames) - 1 \/ d = Len(frames) \/ d = new
  BY <1>2
<1>. QED
  BY <1>2, <1>4, <1>5, <1>6, <1>7

\* A return: the handlers of the calls that remain are all still there.
LEMMA LeavesStand ==
  ASSUME IInv, outcome = Running, FollowsCode, Leaves
  PROVE  \A d \in 1..Len(frames') : Stands(d)
<1> DEFINE depth == Len(frames) - 1
           n == LiveCount(depth)
<1>1. /\ IsSeq(frames) /\ IsSeq(handlers) /\ Len(frames) \in Nat \ {0} /\ depth \in 0..Len(frames) /\ depth \in Nat
      /\ Len(handlers) \in Nat
  BY SeqFacts, RunningFacts DEF IInv, TypeOK
<1>2. frames' = SubSeq(frames, 1, depth)
  BY DEF Leaves, Front
<1>3. Len(frames') = depth /\ \A d \in 1..depth : frames'[d] = frames[d]
  BY <1>1, <1>2, PrefixFacts
<1>4. n \in 0..Len(handlers) /\ \A i \in n + 1..Len(handlers) : handlers[i].frameDepth > depth
  BY <1>1, LiveCountFacts
<1>5. handlers' = SubSeq(handlers, 1, n)
  BY <1>3 DEF Leaves, LiveHandlers
<1> HIDE DEF n
<1>6. Len(handlers') = n /\ \A i \in 1..n : handlers'[i] = handlers[i]
  BY <1>1, <1>4, <1>5, PrefixFacts
<1>7. ASSUME NEW d \in 1..depth PROVE Opened(handlers', d) = Opened(handlers, d)
  <2>1. \A i \in 1..Len(handlers) : i \in 1..n \/ i \in n + 1..Len(handlers)
    BY <1>1, <1>4
  <2>2. \A i \in n + 1..Len(handlers) : handlers[i].frameDepth # d
    BY <1>1, <1>4
  <2>3. \A i \in 1..n : i \in 1..Len(handlers)
    BY <1>1, <1>4
  <2>. QED
    BY <1>6, <2>1, <2>2, <2>3 DEF Opened
<1>8. \A d \in 1..depth : d \in 1..Len(frames)
  BY <1>1
<1>. QED
  BY <1>3, <1>7, <1>8, CallStands

\* Whatever effect a step has, calls and handlers are where the code leads.
LEMMA EffectFollows ==
  ASSUME IInv, outcome = Running, ProgramsBalanced, FollowsCode, Effect
  PROVE  FollowsCode'
<1>1. prog' = prog /\ prog \in Programs
  BY DEF Effect, FollowsCode
<1>2. \A d \in 1..Len(frames') : Stands(d)
  <2>1. CASE Ends
    BY <2>1 DEF Ends, FollowsCode, Stands
  <2>. QED
    BY <2>1, MovesStand, GuardsStand, UnguardsStand, UnwindsStand, EntersStand, LeavesStand DEF Effect
<1>3. \A i \in 1..Len(handlers') :
        Follows(prog.fns, frames'[handlers'[i].frameDepth].function, handlers'[i].catchIp, Before(handlers', i))
  BY KeptHandlersFollow, NewHandlerFollows, HandlersAfter
<1>. QED
  BY <1>1, <1>2, <1>3 DEF FollowsCode, Stands

\* If the code is balanced, then whenever a statement begins, the handlers its call
\* has registered are those of the try bodies around it in the source: however the
\* program branched, broke, continued, returned, threw or caught before.
THEOREM HandlersAsCompiled == ASSUME ProgramsBalanced PROVE Spec => []StatementHandlers
<1>1. Init => FollowsCode
  <2>1. SUFFICES ASSUME Init PROVE FollowsCode
    OBVIOUS
  <2>2. /\ prog \in Programs /\ handlers = << >> /\ prog.main \in DOMAIN prog.fns
        /\ Len(frames) = 1 /\ frames[1].function = prog.main /\ frames[1].ip = 1
    BY <2>1, VMAssumption DEF Init, Frame
  <2>3. Opened(handlers, 1) = {} /\ Len(handlers) = 0
    BY <2>2 DEF Opened
  <2>4. <<1, 0>> \in Reached(prog.fns[prog.main].code)
    BY <2>2, BalancedFacts DEF ProgramsBalanced
  <2>5. Follows(prog.fns, prog.main, 1, Opened(handlers, 1))
    BY <2>3, <2>4, FS_EmptySet DEF Follows
  <2>6. \A d \in 1..Len(frames) : d = 1
    BY <2>2
  <2>. QED
    BY <2>2, <2>3, <2>5, <2>6 DEF FollowsCode
<1>2. ASSUME IInv, FollowsCode, [Next]_vars PROVE FollowsCode'
  <2>1. CASE Step
    BY <1>2, <2>1, StepRuns, StepEffect, EffectFollows
  <2>2. CASE UNCHANGED <<prog, frames, handlers>>
    BY <1>2, <2>2 DEF FollowsCode
  <2>. QED
    BY <1>2, <2>1, <2>2 DEF Next, Ended, Clock, vars, control
<1>3. IInv /\ FollowsCode => StatementHandlers
  <2>1. SUFFICES ASSUME IInv, FollowsCode, NEW m \in Here
                 PROVE  Cardinality({i \in DOMAIN handlers : handlers[i].frameDepth = Len(frames)}) = m.tries
    BY DEF StatementHandlers
  <2>2. outcome = Running /\ m \in CodeOf(Top.function).marks /\ m.ip = Top.ip
    BY <2>1 DEF Here
  <2>3. Len(frames) \in 1..Len(frames) /\ DOMAIN handlers = 1..Len(handlers)
    BY <2>1, <2>2, RunningFacts, SeqFacts DEF IInv, TypeOK
  <2>4. /\ Top.function \in DOMAIN prog.fns /\ prog \in Programs
        /\ <<Top.ip, Cardinality(Opened(handlers, Len(frames)))>> \in Reached(prog.fns[Top.function].code)
    BY <2>1, <2>3 DEF FollowsCode, Follows, Top, Last
  <2>5. PICK a : a = <<Top.ip, Cardinality(Opened(handlers, Len(frames)))>>
    OBVIOUS
  <2>6. a \in Reached(prog.fns[Top.function].code) /\ a[1] = m.ip
    BY <2>2, <2>4, <2>5
  <2>7. a[2] = m.tries
    BY <2>2, <2>4, <2>6 DEF ProgramsBalanced, Balanced, CodeOf
  <2>. QED
    BY <2>3, <2>5, <2>7 DEF Opened
<1>. QED
  BY <1>1, <1>2, <1>3, Invariance, PTL DEF Spec

-----------------------------------------------------------------------------
(* The limit on the depth of calls.                                        *)

\* Every class has a constructor or None.
ClassesOK == \A c \in DOMAIN classes : "ctor" \in DOMAIN classes[c]

\* A class that takes over its parent's members keeps a constructor of its own.
LEMMA ParentResolved ==
  ASSUME ClassesOK, NEW c, classes' = ResolveParent(c)
  PROVE  ClassesOK' /\ Constructors \subseteq Constructors'
<1> DEFINE k == classes[c]
<1>1. PICK p, fs, ms, ct : /\ classes' = [classes EXCEPT ![c] = [k EXCEPT !.parent = p, !.fields = fs, !.ctor = ct,
                                                                         !.methods = ms]]
                           /\ k.ctor # None => ct = k.ctor
  BY DEF ResolveParent
<1>2. DOMAIN classes' = DOMAIN classes /\ \A d \in DOMAIN classes \ {c} : classes'[d] = classes[d]
  BY <1>1
<1>3. c \in DOMAIN classes => "ctor" \in DOMAIN classes'[c] /\ classes'[c].ctor = ct
  BY <1>1 DEF ClassesOK
<1>4. ClassesOK'
  BY <1>2, <1>3 DEF ClassesOK
<1>5. \A d \in DOMAIN classes : classes[d].ctor # None => classes'[d].ctor = classes[d].ctor
  BY <1>1, <1>2, <1>3
<1>. QED
  BY <1>2, <1>4, <1>5 DEF Constructors

\* A step leaves the classes alone, or lets one take over its parent's members.
LEMMA ClassesSame == ASSUME Step PROVE UNCHANGED classes \/ \E c : classes' = ResolveParent(c)
<1>1. opDefineGlobal => UNCHANGED classes \/ classes' = ResolveParent(Peek(0)[2])
  BY DEF opDefineGlobal
<1>2. CASE UNCHANGED classes
  BY <1>2
<1>3. Pure => UNCHANGED classes
  BY DEF Pure, data
<1>4. (opConstant \/ opBinary \/ opNegate \/ opNot \/ opPop \/ opDup \/ opGetLocal \/ opSetLocal \/
       opGetGlobal \/ opJump \/ opJumpIfFalse \/ opLoop \/ opTryBegin \/ opTryEnd \/ opYield \/ opReturn) => UNCHANGED classes
  BY <1>3 DEF data, opConstant, opBinary, opNegate, opNot, opPop, opDup, opGetLocal, opSetLocal, opGetGlobal,
     opJump, opJumpIfFalse, opLoop, opTryBegin, opTryEnd, opYield, opReturn
<1>5. (opSetGlobal \/ opUnderflow \/ opEnd \/ opUnknown \/ opImport) => UNCHANGED classes
  BY <1>3 DEF data, opSetGlobal, opUnderflow, opEnd, opUnknown, opImport
<1>6. (opCallFunction \/ opCallOther \/ opInvoke \/ opCallClass) => UNCHANGED classes
  BY <1>3 DEF data, opCallFunction, opCallOther, opInvoke, opCallClass
<1>7. (opCallBuiltin \/ opInvokeBuiltin) => UNCHANGED classes
  BY <1>3 DEF data, RunBuiltin, opCallBuiltin, opInvokeBuiltin
<1>8. (opBuildArray \/ opBuildTuple \/ opBuildHashMap \/ opInterpolate \/ opIndexGet \/ opIndexSet) => UNCHANGED classes
  BY <1>3 DEF data, Allocate, opBuildArray, opBuildTuple, opBuildHashMap, opInterpolate, opIndexGet, opIndexSet
<1>9. (opSlice \/ opGetMember \/ opIterInit) => UNCHANGED classes
  BY <1>3 DEF data, Allocate, opSlice, opGetMember, opIterInit
<1>10. (opSetMember \/ opIterNext \/ opIterValue) => UNCHANGED classes
  BY <1>3 DEF data, opSetMember, opIterNext, opIterValue
<1>11. (opClosure \/ opGetUpvalue \/ opSetUpvalue \/ opRangeCheck \/ opTypeCheck \/ opAssertBool \/
       opDeclCheck) => UNCHANGED classes
  BY <1>3 DEF data, opClosure, opGetUpvalue, opSetUpvalue, opRangeCheck, opTypeCheck, opAssertBool, opDeclCheck
<1>. QED
  BY <1>1, <1>2, <1>4, <1>5, <1>6, <1>7, <1>8, <1>9, <1>10, <1>11 DEF Step

\* No step takes a constructor away.
LEMMA ClassesAfter ==
  ASSUME ClassesOK, Step
  PROVE  ClassesOK' /\ Constructors \subseteq Constructors'
<1>1. CASE UNCHANGED classes
  BY <1>1 DEF ClassesOK, Constructors
<1>. QED
  BY <1>1, ClassesSame, ParentResolved

\* A frame is where it was, or was admitted at the limit.
LEMMA EffectBounded ==
  ASSUME IInv, outcome = Running, FramesBounded, Effect, Constructors \subseteq Constructors'
  PROVE  FramesBounded'
<1>1. FRAMES_MAX \in Nat /\ Len(frames) \in Nat \ {0}
  BY VMAssumption, RunningFacts DEF IInv
<1>2. Len(frames') \in Nat /\ Continues(frames')
  BY FramesAfter, SeqFacts DEF Continues
<1>3. SUFFICES ASSUME NEW i \in FRAMES_MAX + 1..Len(frames'), frames'[i].hasCallee
               PROVE  frames'[i].function \in Constructors
  BY DEF FramesBounded
<1>4. i \in 1..Len(frames') /\ i > FRAMES_MAX
  BY <1>1, <1>2
<1>5. CASE i <= Len(frames)
  <2>1. i \in FRAMES_MAX + 1..Len(frames)
    BY <1>1, <1>2, <1>4, <1>5
  <2>2. frames'[i].function = frames[i].function /\ frames[i].hasCallee
    BY <1>2, <1>3, <1>4, <1>5 DEF Continues
  <2>. QED
    BY <2>1, <2>2 DEF FramesBounded
<1>6. CASE i > Len(frames)
  <2>1. i = Len(frames) + 1 /\ Len(frames') = Len(frames) + 1 /\ TooDeep
    BY <1>1, <1>2, <1>4, <1>6 DEF Continues, TooDeep
  <2>2. Enters
    BY <2>1, AddsByEntering
  <2>. QED
    BY <1>3, <2>1, <2>2 DEF Enters, Admitted
<1>. QED
  BY <1>1, <1>2, <1>4, <1>5, <1>6

\* However calls of functions, methods, constructors and imports nest and are
\* unwound, a function is not called above the limit on frames.
THEOREM FunctionsStayBounded == Spec => []FramesBounded
<1> DEFINE BInv == FramesBounded /\ ClassesOK
<1>1. Init => BInv
  <2>. SUFFICES ASSUME Init PROVE BInv
    OBVIOUS
  <2>1. ClassesOK
    BY VMAssumption DEF Init, ClassesOK
  <2>2. Len(frames) = 1 /\ FRAMES_MAX + 1..1 = {}
    BY VMAssumption DEF Init
  <2>. QED
    BY <2>1, <2>2 DEF FramesBounded
<1>2. ASSUME IInv, BInv, [Next]_vars PROVE BInv'
  <2>1. CASE Step
    BY <1>2, <2>1, StepRuns, StepEffect, ClassesAfter, EffectBounded
  <2>2. CASE UNCHANGED <<frames, classes>>
    BY <1>2, <2>2 DEF FramesBounded, Constructors, ClassesOK
  <2>. QED
    BY <1>2, <2>1, <2>2 DEF Next, Ended, Clock, vars, control, data
<1>. QED
  BY <1>1, <1>2, Invariance, PTL DEF Spec

=============================================================================
