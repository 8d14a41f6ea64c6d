------------------------------ MODULE StackProofs ------------------------------
(***************************************************************************)
(* The operand stack is where the compiler counts on it to be, proved for  *)
(* every program without classes whose code is stacked, and every limit.   *)
(*                                                                         *)
(* StackStep says what a step does to the stack beside what it does to     *)
(* frames and handlers; the invariant, that every call and every handler   *)
(* is at a place its code leads to, is then shown for the few ways in      *)
(* which a step can end.                                                   *)
(***************************************************************************)
EXTENDS VMProofs

\* What the theorem asks of the programs: what CodeStacked finds of those the
\* compiler makes.
ProgramsStacked == \A p \in Programs : StackedProgram(p)

-----------------------------------------------------------------------------
(* The invariant.                                                          *)

\* The try bodies that the call at depth d is in after registering those of the first
\* handlers in hs that are its own; base is where its slots begin.
Nest(hs, d, base) ==
  LET nest[n \in 0..Len(hs)] ==
        IF n = 0 THEN << >>
        ELSE IF hs[n].frameDepth = d THEN <<nest[n - 1], hs[n].stackDepth - base>>
        ELSE nest[n - 1]
  IN  nest

\* The call at depth d: its code's places, where its slots begin and its operands end,
\* and the try bodies it is in.
Places(d) == LET fn == prog.fns[frames[d].function] IN Levels(fn.code, fn.arity)
Base(d)   == frames[d].slotOffset
Until(d)  == IF d = Len(frames) THEN Len(stack) ELSE Base(d + 1)
Within(d) == Nest(handlers, d, Base(d))[Len(handlers)]

\* A call of a function is at a place of its code.
CallPlaced(d) ==
  /\ frames[d].function \in DOMAIN prog.fns /\ frames[d].hasCallee
  /\ Base(d) \in Nat /\ Until(d) \in Nat
  /\ <<frames[d].ip, Until(d) - Base(d), Within(d)>> \in Places(d)

\* A handler resumes its call at a place of the call's code.
HandlerPlaced(i) ==
  LET h == handlers[i]
      d == h.frameDepth
  IN  /\ h.stackDepth \in Nat
      /\ <<h.catchIp, h.stackDepth - Base(d) + 1, Nest(handlers, d, Base(d))[i - 1]>> \in Places(d)

\* The slots of a call begin above those of its callers, and above what they had on
\* the stack when the try bodies they are in began.
Ordered == \A d, e \in 1..Len(frames) : d < e => Base(d) < Base(e) /\ Base(d) + Floor(Within(d)) <= Base(e)

StackPlaced ==
  /\ IsSeq(stack) /\ Ordered
  /\ \A d \in 1..Len(frames) : CallPlaced(d)
  /\ \A i \in 1..Len(handlers) : HandlerPlaced(i)

Placed ==
  /\ prog \in Programs /\ prog.classes = << >> /\ prog.files = << >> /\ DOMAIN classes = {}
  /\ outcome = Running => StackPlaced

-----------------------------------------------------------------------------
(* The try bodies a call is in.                                            *)

\* What comes after n handlers, given what comes after one less.
Nests(f, hs, d, base, n) ==
  f = [i \in 0..n |-> IF i = 0 THEN << >>
                      ELSE IF hs[i].frameDepth = d THEN <<f[i - 1], hs[i].stackDepth - base>>
                      ELSE f[i - 1]]

LEMMA NestsExist == ASSUME NEW hs, NEW d, NEW base, NEW n \in Nat PROVE \E f : Nests(f, hs, d, base, n)
<1> DEFINE S == {m \in Nat : \E f : Nests(f, hs, d, base, m)}
           Next1(i, x) == IF hs[i].frameDepth = d THEN <<x, hs[i].stackDepth - base>> ELSE x
<1>1. 0 \in S
  <2> DEFINE f == [i \in 0..0 |-> << >>]
  <2>1. Nests(f, hs, d, base, 0)
    BY DEF Nests
  <2>. QED
    BY <2>1
<1>2. ASSUME NEW m \in Nat, m \in S PROVE m + 1 \in S
  <2>1. PICK f : Nests(f, hs, d, base, m)
    BY <1>2
  <2> DEFINE g == [i \in 0..m + 1 |-> IF i <= m THEN f[i] ELSE Next1(m + 1, f[m])]
  <2>2. \A i \in 0..m : f[i] = IF i = 0 THEN << >> ELSE Next1(i, f[i - 1])
    BY <2>1 DEF Nests
  <2> HIDE DEF Next1
  <2>3. ASSUME NEW i \in 0..m + 1
        PROVE  g[i] = IF i = 0 THEN << >> ELSE Next1(i, g[i - 1])
    <3>1. CASE i = m + 1
      <4>1. g[i] = Next1(m + 1, f[m]) /\ i - 1 = m /\ g[m] = f[m] /\ i # 0
        BY <3>1
      <4>. QED
        BY <3>1, <4>1
    <3>2. CASE i \in 0..m
      <4>1. g[i] = f[i]
        BY <3>2
      <4>2. i # 0 => g[i - 1] = f[i - 1]
        BY <3>2
      <4> HIDE DEF g
      <4>. QED
        BY <2>2, <3>2, <4>1, <4>2
    <3>. QED
      BY <3>1, <3>2
  <2>4. g = [i \in 0..m + 1 |-> g[i]]
    OBVIOUS
  <2> HIDE DEF g
  <2>5. g = [i \in 0..m + 1 |-> IF i = 0 THEN << >> ELSE Next1(i, g[i - 1])]
    BY <2>3, <2>4
  <2>6. Nests(g, hs, d, base, m + 1)
    BY <2>5 DEF Nests, Next1
  <2>. QED
    BY <2>6
<1> HIDE DEF S
<1>3. n \in S
  BY <1>1, <1>2, SetInduction
<1>. QED
  BY <1>3 DEF S

\* A handler of the call is one try body more; any other changes nothing.
LEMMA NestFacts ==
  ASSUME NEW hs, IsSeq(hs), NEW d, NEW base
  PROVE  /\ Nest(hs, d, base)[0] = << >>
         /\ \A i \in 1..Len(hs) :
              Nest(hs, d, base)[i] = IF hs[i].frameDepth = d
                                     THEN <<Nest(hs, d, base)[i - 1], hs[i].stackDepth - base>>
                                     ELSE Nest(hs, d, base)[i - 1]
<1> DEFINE nest == CHOOSE f : Nests(f, hs, d, base, Len(hs))
<1>1. Len(hs) \in Nat
  BY SeqFacts
<1>2. Nests(nest, hs, d, base, Len(hs))
  BY <1>1, NestsExist
<1>3. Nest(hs, d, base) = nest
  BY DEF Nest, Nests
<1> HIDE DEF nest
<1>4. \A i \in 0..Len(hs) : nest[i] = IF i = 0 THEN << >>
                                      ELSE IF hs[i].frameDepth = d THEN <<nest[i - 1], hs[i].stackDepth - base>>
                                      ELSE nest[i - 1]
  BY <1>2 DEF Nests
<1>5. 0 \in 0..Len(hs) /\ \A i \in 1..Len(hs) : i \in 0..Len(hs) /\ i # 0
  BY <1>1
<1>. QED
  BY <1>3, <1>4, <1>5

\* It depends on no handler but the first n.
LEMMA NestSame ==
  ASSUME NEW hs, IsSeq(hs), NEW gs, IsSeq(gs), NEW d, NEW base,
         NEW n \in Nat, n <= Len(hs), n <= Len(gs), \A i \in 1..n : hs[i] = gs[i]
  PROVE  Nest(hs, d, base)[n] = Nest(gs, d, base)[n]
<1> DEFINE S == {i \in Nat : i <= n => Nest(hs, d, base)[i] = Nest(gs, d, base)[i]}
<1>1. Len(hs) \in Nat /\ Len(gs) \in Nat
  BY SeqFacts
<1>2. 0 \in S
  BY NestFacts
<1>3. ASSUME NEW i \in Nat, i \in S PROVE i + 1 \in S
  <2>1. SUFFICES ASSUME i + 1 <= n PROVE Nest(hs, d, base)[i + 1] = Nest(gs, d, base)[i + 1]
    OBVIOUS
  <2>2. Nest(hs, d, base)[i] = Nest(gs, d, base)[i]
    BY <1>3, <2>1
  <2>3. PICK k : k = i + 1
    OBVIOUS
  <2>4. k \in 1..Len(hs) /\ k \in 1..Len(gs) /\ k \in 1..n /\ k - 1 = i
    BY <1>1, <2>1, <2>3
  <2>5. hs[k] = gs[k] /\ Nest(hs, d, base)[k - 1] = Nest(gs, d, base)[k - 1]
    BY <2>2, <2>4
  <2>6. Nest(hs, d, base)[k] = IF hs[k].frameDepth = d THEN <<Nest(hs, d, base)[k - 1], hs[k].stackDepth - base>>
                               ELSE Nest(hs, d, base)[k - 1]
    BY <2>4, NestFacts
  <2>7. Nest(gs, d, base)[k] = IF gs[k].frameDepth = d THEN <<Nest(gs, d, base)[k - 1], gs[k].stackDepth - base>>
                               ELSE Nest(gs, d, base)[k - 1]
    BY <2>4, NestFacts
  <2>8. Nest(hs, d, base)[k] = Nest(gs, d, base)[k]
    BY <2>5, <2>6, <2>7
  <2>. QED
    BY <2>3, <2>8
<1> HIDE DEF S
<1>4. n \in S
  BY <1>2, <1>3, SetInduction
<1>. QED
  BY <1>4 DEF S

\* The handlers of other calls do not matter.
LEMMA NestSkips ==
  ASSUME NEW hs, IsSeq(hs), NEW d, NEW base,
         NEW m \in Nat, NEW n \in Nat, m <= n, n <= Len(hs), \A i \in m + 1..n : hs[i].frameDepth # d
  PROVE  Nest(hs, d, base)[n] = Nest(hs, d, base)[m]
<1> DEFINE S == {i \in Nat : m + i <= n => Nest(hs, d, base)[m + i] = Nest(hs, d, base)[m]}
<1>1. Len(hs) \in Nat
  BY SeqFacts
<1>2. 0 \in S
  OBVIOUS
<1>3. ASSUME NEW i \in Nat, i \in S PROVE i + 1 \in S
  <2>1. SUFFICES ASSUME m + (i + 1) <= n PROVE Nest(hs, d, base)[m + (i + 1)] = Nest(hs, d, base)[m]
    OBVIOUS
  <2>2. Nest(hs, d, base)[m + i] = Nest(hs, d, base)[m]
    BY <1>3, <2>1
  <2>3. PICK k : k = m + (i + 1)
    OBVIOUS
  <2>4. k \in 1..Len(hs) /\ k \in m + 1..n /\ k - 1 = m + i
    BY <1>1, <2>1, <2>3
  <2>5. Nest(hs, d, base)[k] = IF hs[k].frameDepth = d THEN <<Nest(hs, d, base)[k - 1], hs[k].stackDepth - base>>
                               ELSE Nest(hs, d, base)[k - 1]
    BY <2>4, NestFacts
  <2>. QED
    BY <2>2, <2>3, <2>4, <2>5
<1> HIDE DEF S
<1>4. n - m \in S /\ m + (n - m) = n
  <2>1. n - m \in Nat
    OBVIOUS
  <2>. QED
    BY <1>2, <1>3, <2>1, SetInduction
<1>. QED
  BY <1>4 DEF S

-----------------------------------------------------------------------------
(* Where the current call is.                                              *)

\* What stacked code leads to has its operands, and leads on to what it leads to.
LEMMA StackedFacts ==
  ASSUME NEW fn, NEW height, Stacked(fn, height)
  PROVE  /\ fn.arity \in Nat /\ <<1, height, << >>>> \in Levels(fn.code, height)
         /\ \A pc, n, open : <<pc, n, open>> \in Levels(fn.code, height) =>
              /\ n \in Nat /\ Floor(open) \in Nat
              /\ pc \in DOMAIN fn.code => /\ Supplied(fn.code[pc], n, open)
                                          /\ Onward(fn.code, pc, n, open) \subseteq Levels(fn.code, height)
<1> DEFINE at == Levels(fn.code, height)
<1>1. /\ fn.arity \in Nat /\ <<1, height, << >>>> \in at
      /\ \A a \in at : /\ a[2] \in Nat /\ Floor(a[3]) \in Nat
                       /\ a[1] \in DOMAIN fn.code => /\ Supplied(fn.code[a[1]], a[2], a[3])
                                                     /\ Onward(fn.code, a[1], a[2], a[3]) \subseteq at
  BY DEF Stacked
<1> HIDE DEF at
<1>2. ASSUME NEW pc, NEW n, NEW open, <<pc, n, open>> \in at
      PROVE  /\ n \in Nat /\ Floor(open) \in Nat
             /\ pc \in DOMAIN fn.code => /\ Supplied(fn.code[pc], n, open)
                                         /\ Onward(fn.code, pc, n, open) \subseteq at
  <2>1. PICK a : a = <<pc, n, open>>
    OBVIOUS
  <2>2. a[1] = pc /\ a[2] = n /\ a[3] = open /\ a \in at
    BY <1>2, <2>1
  <2>. QED
    BY <1>1, <2>2
<1>. QED
  BY <1>1, <1>2 DEF at

\* A statement begins where the locals around it end.
LEMMA StackedMarks ==
  ASSUME NEW fn, NEW height, Stacked(fn, height),
         NEW pc, NEW n, NEW open, <<pc, n, open>> \in Levels(fn.code, height), NEW m \in fn.marks, pc = m.ip
  PROVE  n = m.locals
<1>1. PICK a : a = <<pc, n, open>>
  OBVIOUS
<1>2. a \in Levels(fn.code, height) /\ a[1] = m.ip /\ a[2] = n
  BY <1>1
<1>. QED
  BY <1>2 DEF Stacked

\* Without classes there are no methods: a call of a function starts with its arguments.
LEMMA FunctionStacked ==
  ASSUME ProgramsStacked, Placed, NEW f \in DOMAIN prog.fns
  PROVE  Stacked(prog.fns[f], prog.fns[f].arity)
<1>1. StackedProgram(prog) /\ DOMAIN prog.classes = {}
  BY DEF ProgramsStacked, Placed
<1>2. f \notin Methods(prog)
  BY <1>1 DEF Methods
<1>3. PICK fn, h : fn = prog.fns[f] /\ h = fn.arity + IF f \in Methods(prog) THEN 1 ELSE 0
  OBVIOUS
<1>4. Stacked(fn, h)
  BY <1>1, <1>3 DEF StackedProgram
<1>5. fn.arity \in Nat
  BY <1>4 DEF Stacked
<1>6. h = fn.arity
  BY <1>2, <1>3, <1>5
<1>. QED
  BY <1>3, <1>4, <1>6

\* How many values the current call has on the stack, and how many its instruction takes.
Size  == Len(stack) - Base(Len(frames))
Taken == Operands(Instr)

\* The instruction of the current call finds its operands above its innermost try.
LEMMA Current ==
  ASSUME IInv, outcome = Running, ProgramsStacked, Placed
  PROVE  LET open == Within(Len(frames)) IN
         /\ IsSeq(stack) /\ Len(stack) \in Nat /\ Base(Len(frames)) \in Nat
         /\ Size \in Nat /\ Len(stack) = Base(Len(frames)) + Size
         /\ Floor(open) \in Nat /\ Top.hasCallee /\ Top.function \in DOMAIN prog.fns
         /\ \A m \in CodeOf(Top.function).marks : Top.ip = m.ip => Size = m.locals
         /\ HasInstr => /\ Taken \in Nat /\ Floor(open) + Taken <= Size
                        /\ Instr.op = "CALL" => Instr.arg \in Nat
                        /\ Instr.op = "TRY_END" => open # << >>
                        /\ Onward(CodeOf(Top.function).code, Top.ip, Size, open) \subseteq Places(Len(frames))
<1> DEFINE T == Len(frames)
           open == Within(T)
           fn == prog.fns[Top.function]
<1>1. T \in 1..T /\ Top = frames[T]
  BY RunningFacts DEF IInv, Top, Last
<1>2. CallPlaced(T) /\ IsSeq(stack)
  BY <1>1 DEF Placed, StackPlaced
<1>3. /\ Top.function \in DOMAIN prog.fns /\ Top.hasCallee /\ Base(T) \in Nat
      /\ <<Top.ip, Size, open>> \in Levels(fn.code, fn.arity)
  BY <1>1, <1>2 DEF CallPlaced, Places, Until, Size
<1>4. Stacked(fn, fn.arity) /\ Len(stack) \in Nat
  BY <1>2, <1>3, FunctionStacked, SeqFacts
<1> HIDE DEF open, fn
<1>5. /\ Size \in Nat /\ Floor(open) \in Nat
      /\ Top.ip \in DOMAIN fn.code => Supplied(fn.code[Top.ip], Size, open)
      /\ Top.ip \in DOMAIN fn.code => Onward(fn.code, Top.ip, Size, open) \subseteq Levels(fn.code, fn.arity)
      /\ \A m \in fn.marks : Top.ip = m.ip => Size = m.locals
  <2>1. PICK h : h = fn.arity
    OBVIOUS
  <2>2. Stacked(fn, h) /\ <<Top.ip, Size, open>> \in Levels(fn.code, h)
    BY <1>3, <1>4, <2>1
  <2>3. \A m \in fn.marks : Top.ip = m.ip => Size = m.locals
    BY <2>2, StackedMarks
  <2>4. Size \in Nat /\ Floor(open) \in Nat
    BY <2>2, StackedFacts
  <2>5. Top.ip \in DOMAIN fn.code => Supplied(fn.code[Top.ip], Size, open)
    BY <2>2, StackedFacts
  <2>6. Top.ip \in DOMAIN fn.code => Onward(fn.code, Top.ip, Size, open) \subseteq Levels(fn.code, h)
    BY <2>2, StackedFacts
  <2>. QED
    BY <2>1, <2>3, <2>4, <2>5, <2>6
<1>6. fn = CodeOf(Top.function) /\ Instr = fn.code[Top.ip] /\ Levels(fn.code, fn.arity) = Places(T)
  BY <1>1 DEF fn, CodeOf, Instr, Places
<1>7. Len(stack) = Base(T) + Size
  BY <1>3, <1>4 DEF Size
<1>8. HasInstr => Supplied(Instr, Size, open) /\ Onward(fn.code, Top.ip, Size, open) \subseteq Places(T)
  BY <1>5, <1>6 DEF HasInstr
<1>9. HasInstr => /\ Taken \in Nat /\ Floor(open) + Taken <= Size
                  /\ Instr.op = "CALL" => Instr.arg \in Nat
                  /\ Instr.op = "TRY_END" => open # << >>
  BY <1>8 DEF Supplied, Taken
<1>. QED
  BY <1>2, <1>3, <1>4, <1>5, <1>6, <1>7, <1>8, <1>9 DEF open

-----------------------------------------------------------------------------
(* What an instruction leaves on the stack.                                *)

\* A stack with everything but the operands of the current instruction at least, and
\* one on which it has left what it leaves.
Enough(st) == IsSeq(st) /\ Len(st) >= Len(stack) - Taken
AsLeft(st) == IsSeq(st) /\ Len(st) = Len(stack) - Taken + Left(Instr)

\* How many operands an instruction has and how many values it leaves.
LEMMA Sizes ==
  ASSUME NEW i
  PROVE  /\ i.op \in {"CONSTANT", "NULL", "TRUE", "FALSE", "GET_LOCAL", "GET_GLOBAL", "CLOSURE", "GET_UPVALUE"}
              => Operands(i) = 0 /\ Left(i) = 1
         /\ i.op \in {"JUMP", "LOOP", "IMPORT"} => Operands(i) = 0 /\ Left(i) = 0
         /\ i.op \in {"NEGATE", "NOT", "DECL_CHECK", "ASSERT_BOOL", "SET_LOCAL", "SET_GLOBAL", "SET_UPVALUE",
                      "ITER_NEXT", "GET_MEMBER", "ITER_INIT", "TYPE_CHECK", "RETURN"}
              => Operands(i) = 1 /\ Left(i) = 1
         /\ i.op \in {"POP", "JUMP_IF_FALSE", "DEFINE_GLOBAL", "YIELD",
                      "SET_LOCAL_POP", "SET_GLOBAL_POP", "SET_UPVALUE_POP"}
              => Operands(i) = 1 /\ Left(i) = 0
         /\ i.op \in {"DUP", "ITER_VALUE"} => Operands(i) = 1 /\ Left(i) = 2
         /\ i.op \in BinaryOps \cup {"INDEX_GET", "SET_MEMBER"} => Operands(i) = 2 /\ Left(i) = 1
         /\ i.op = "SET_MEMBER_POP" => Operands(i) = 2 /\ Left(i) = 0
         /\ i.op \in {"INDEX_SET", "RANGE_CHECK"} => Operands(i) = 3 /\ Left(i) = 1
         /\ i.op \in {"BUILD_ARRAY", "BUILD_TUPLE", "INTERPOLATE"} => Operands(i) = i.arg /\ Left(i) = 1
         /\ i.op = "BUILD_HASHMAP" => Operands(i) = 2 * i.arg /\ Left(i) = 1
         /\ i.op = "CALL" => Operands(i) = i.arg + 1 /\ Left(i) = 1
         /\ i.op = "INVOKE" => Operands(i) = i.arg.argc + 1 /\ Left(i) = 1
         /\ i.op = "SLICE" => Left(i) = 1
BY DEF Operands, Left, PeekOps, Fused, BinaryOps, Arithmetic, Comparisons

\* Replacing an element, whether or not it is there, leaves a sequence of the same length.
LEMMA ExceptFacts ==
  ASSUME NEW s, IsSeq(s), NEW x, NEW e
  PROVE  IsSeq([s EXCEPT ![x] = e]) /\ Len([s EXCEPT ![x] = e]) = Len(s)
<1> DEFINE S == Range(s) \cup {e}
           t == [s EXCEPT ![x] = e]
<1>1. Len(s) \in Nat /\ s \in Seq(S) /\ e \in S /\ DOMAIN s = 1..Len(s)
  BY SeqFacts, SeqMonotonic DEF IsSeq
<1>2. CASE x \in 1..Len(s)
  <2>1. t \in Seq(S) /\ Len(t) = Len(s)
    BY <1>1, <1>2, ExceptSeq
  <2>. QED
    BY <2>1, SomeSeq
<1>3. CASE x \notin 1..Len(s)
  <2>1. t = [i \in DOMAIN s |-> s[i]]
    BY <1>1, <1>3
  <2>2. s = [i \in DOMAIN s |-> s[i]]
    BY <1>1
  <2>. QED
    BY <2>1, <2>2
<1>. QED
  BY <1>2, <1>3

\* What a call fills up has the callee's arguments on top.
LEMMA FilledFacts ==
  ASSUME IsSeq(stack), NEW fn, fn.arity \in Nat, NEW argc \in Nat, argc <= fn.arity
  PROVE  IsSeq(Filled(fn, argc)) /\ Len(Filled(fn, argc)) = Len(stack) + (fn.arity - argc)
<1> DEFINE more == [i \in 1..fn.arity - argc |-> LET d == fn.defaults[argc + i] IN IF d = None THEN Null ELSE d[1]]
           S == Range(stack) \cup Range(more)
<1>1. PICK k \in Nat : k = fn.arity - argc
  OBVIOUS
<1>2. DOMAIN more = 1..k
  BY <1>1
<1>3. Filled(fn, argc) = stack \o more
  BY DEF Filled
<1>4. \A i \in 1..k : more[i] \in Range(more)
  BY <1>2 DEF Range
<1>5. more = [i \in 1..k |-> more[i]]
  BY <1>1
<1> HIDE DEF more
<1>6. more \in Seq(Range(more)) /\ Len(more) = k
  BY <1>4, <1>5, LenProperties, IsASeq
<1>7. stack \in Seq(S) /\ more \in Seq(S)
  BY <1>6, SeqMonotonic DEF IsSeq
<1> HIDE DEF S
<1>8. stack \o more \in Seq(S) /\ Len(stack \o more) = Len(stack) + Len(more)
  BY <1>7, ConcatProperties
<1>. QED
  BY <1>1, <1>3, <1>6, <1>8, SomeSeq

\* The stacks that the instructions leave.
LEMMA Shapes ==
  ASSUME IsSeq(stack), Taken \in Nat, Taken <= Len(stack)
  PROVE  /\ Enough(stack)
         /\ Left(Instr) = Taken => AsLeft(stack)
         /\ \A v : Left(Instr) = Taken + 1 => AsLeft(Append(stack, v))
         /\ \A k \in 0..Taken : Enough(Drop(k)) /\ Len(Drop(k)) = Len(stack) - k
         /\ Left(Instr) = 0 => AsLeft(Drop(Taken))
         /\ \A v : Left(Instr) = 1 => AsLeft(Append(Drop(Taken), v))
<1>1. Len(stack) \in Nat
  BY SeqFacts
<1>2. ASSUME NEW k \in 0..Taken PROVE IsSeq(Drop(k)) /\ Len(Drop(k)) = Len(stack) - k
  <2>1. PICK n : n = Len(stack) - k
    OBVIOUS
  <2>2. n \in 0..Len(stack) /\ Drop(k) = SubSeq(stack, 1, n)
    BY <1>1, <2>1 DEF Drop
  <2>. QED
    BY <2>1, <2>2, PrefixFacts
<1>3. \A k \in 0..Taken : Enough(Drop(k)) /\ Len(Drop(k)) = Len(stack) - k
  BY <1>1, <1>2 DEF Enough
<1>4. Enough(stack) /\ (Left(Instr) = Taken => AsLeft(stack))
  BY <1>1 DEF Enough, AsLeft
<1>5. ASSUME NEW v, Left(Instr) = Taken + 1 PROVE AsLeft(Append(stack, v))
  <2>1. IsSeq(Append(stack, v)) /\ Len(Append(stack, v)) = Len(stack) + 1
    BY AppendFacts
  <2>. QED
    BY <1>1, <1>5, <2>1 DEF AsLeft
<1>6. PICK st : st = Drop(Taken) /\ IsSeq(st) /\ Len(st) = Len(stack) - Taken
  BY <1>2
<1>7. Left(Instr) = 0 => AsLeft(st)
  BY <1>1, <1>6 DEF AsLeft
<1>8. ASSUME NEW v, Left(Instr) = 1 PROVE AsLeft(Append(st, v))
  <2>1. IsSeq(Append(st, v)) /\ Len(Append(st, v)) = Len(st) + 1
    BY <1>6, AppendFacts
  <2>. QED
    BY <1>1, <1>6, <1>8, <2>1 DEF AsLeft
<1>. QED
  BY <1>3, <1>4, <1>5, <1>6, <1>7, <1>8

\* A fused instruction leaves nothing, and the one it was made of its value.
LEMMA AfterSetFits ==
  ASSUME Len(stack) \in Nat, Taken \in Nat, Taken <= Len(stack), Taken >= 1,
         Left(Instr) = IF Instr.op \in Fused THEN 0 ELSE 1,
         NEW st, IsSeq(st), Len(st) = Len(stack) - (Taken - 1)
  PROVE  AsLeft(AfterSet(st))
<1>1. CASE Instr.op \in Fused
  <2>1. PICK n : n = Len(st) - 1
    OBVIOUS
  <2>2. n \in 0..Len(st) /\ n = Len(stack) - Taken /\ AfterSet(st) = SubSeq(st, 1, n)
    BY <1>1, <2>1 DEF AfterSet, Front
  <2>3. IsSeq(AfterSet(st)) /\ Len(AfterSet(st)) = n
    BY <2>2, PrefixFacts
  <2>. QED
    BY <1>1, <2>2, <2>3 DEF AsLeft
<1>2. CASE Instr.op \notin Fused
  <2>1. AfterSet(st) = st /\ Left(Instr) = 1
    BY <1>2 DEF AfterSet
  <2>. QED
    BY <2>1 DEF AsLeft
<1>. QED
  BY <1>1, <1>2

-----------------------------------------------------------------------------
(* What a step does to the stack.                                          *)

GoesOn  == Moves /\ Instr.op # "TRY_END" /\ AsLeft(stack')
Catches == Unwinds /\ HasInstr /\ \E st, err : Enough(st) /\ stack' = Append(Keep(st, Last(handlers).stackDepth), err)
Calls   == /\ Enters /\ Instr.op = "CALL"
           /\ LET f == frames'[Len(frames) + 1]
              IN  /\ f.hasCallee /\ f.slotOffset = Len(stack) - Instr.arg
                  /\ IsSeq(stack') /\ Len(stack') = f.slotOffset + prog.fns[f.function].arity
Returns == Leaves /\ (Front(frames) # << >> => IsSeq(stack') /\ Len(stack') = Top.slotOffset)
Opens   == Guards /\ UNCHANGED stack
Closes  == Unguards /\ UNCHANGED stack

StackEffect == Ends \/ GoesOn \/ Catches \/ Calls \/ Returns \/ Opens \/ Closes

\* What the lemmas below ask of a state: the current call finds its operands.
Ready == IInv /\ outcome = Running /\ ProgramsStacked /\ Placed

\* The ways an instruction ends, together.
LEMMA StackControls ==
  ASSUME Ready, HasInstr
  PROVE  /\ \A st : Plain /\ AsLeft(st) /\ Continue(st) => GoesOn
         /\ \A st, err : Enough(st) /\ Throw(st, err) => Catches \/ Ends
         /\ \A st, m : Enough(st) /\ ThrowMsg(st, m) => Catches \/ Ends
         /\ \A st, r : Plain /\ Enough(st) /\ (\A v : AsLeft(Append(st, v))) /\ Push(st, r) => GoesOn \/ Catches \/ Ends
         /\ \A st : Instr.op \in {"JUMP", "JUMP_IF_FALSE", "LOOP", "ITER_NEXT"} /\ AsLeft(st) /\ Goto(st, Target) => GoesOn
         /\ \A st : Instr.op \in {"JUMP_IF_FALSE", "ITER_NEXT"} /\ AsLeft(st) /\ Goto(st, NextIp) => GoesOn
<1>1. IInv /\ outcome = Running
  BY DEF Ready
<1>2. \A st : Plain /\ AsLeft(st) /\ Continue(st) => GoesOn
  BY <1>1, ControlEffects DEF GoesOn, Plain, Continue, Goto
<1>3. \A st, err : Enough(st) /\ Throw(st, err) => Catches \/ Ends
  <2>1. SUFFICES ASSUME NEW st, NEW err, Enough(st), Throw(st, err) PROVE Catches \/ Ends
    OBVIOUS
  <2>2. CASE Ends
    BY <2>2
  <2>3. CASE Unwinds
    <3>1. stack' = Append(Keep(st, Last(handlers).stackDepth), err)
      BY <2>1, <2>3 DEF Throw, Unwinds
    <3>. QED
      BY <2>1, <2>3, <3>1 DEF Catches
  <2>. QED
    BY <1>1, <2>1, <2>2, <2>3, ControlEffects
<1>4. \A st, m : Enough(st) /\ ThrowMsg(st, m) => Catches \/ Ends
  BY <1>3 DEF ThrowMsg
<1>5. \A st, r : Plain /\ Enough(st) /\ (\A v : AsLeft(Append(st, v))) /\ Push(st, r) => GoesOn \/ Catches \/ Ends
  BY <1>2, <1>3 DEF Push
<1>6. \A st : Instr.op \in {"JUMP", "JUMP_IF_FALSE", "LOOP", "ITER_NEXT"} /\ AsLeft(st) /\ Goto(st, Target) => GoesOn
  BY <1>1, JumpEffects DEF GoesOn, Goto
<1>7. \A st : Instr.op \in {"JUMP_IF_FALSE", "ITER_NEXT"} /\ AsLeft(st) /\ Goto(st, NextIp) => GoesOn
  BY <1>1, JumpEffects DEF GoesOn, Goto
<1>. QED
  BY <1>2, <1>3, <1>4, <1>5, <1>6, <1>7

\* What an instruction finds and leaves: an operand more on top, or as many as it
\* takes in their place.
LEMMA StackShapes ==
  ASSUME Ready, HasInstr
  PROVE  /\ IsSeq(stack) /\ Len(stack) \in Nat /\ Taken \in Nat /\ Taken <= Len(stack)
         /\ Enough(stack)
         /\ Left(Instr) = Taken => AsLeft(stack)
         /\ \A v : Left(Instr) = Taken + 1 => AsLeft(Append(stack, v))
         /\ \A k \in 0..Taken : Enough(Drop(k)) /\ Len(Drop(k)) = Len(stack) - k
         /\ Left(Instr) = 0 => AsLeft(Drop(Taken))
         /\ \A v : Left(Instr) = 1 => AsLeft(Append(Drop(Taken), v))
<1>1. /\ IsSeq(stack) /\ Len(stack) \in Nat /\ Base(Len(frames)) \in Nat
      /\ Size \in Nat /\ Len(stack) = Base(Len(frames)) + Size
      /\ Floor(Within(Len(frames))) \in Nat /\ Taken \in Nat /\ Floor(Within(Len(frames))) + Taken <= Size
  BY Current DEF Ready
<1>2. Taken <= Len(stack)
  BY <1>1
<1>. QED
  BY <1>1, <1>2, Shapes

\* So the ways in which a plain instruction ends leave the stack as they should.
LEMMA PlainWays ==
  ASSUME Ready, HasInstr, Plain, NEW k, k = Taken
  PROVE  /\ \A m : ThrowMsg(stack, m) => StackEffect
         /\ \A err : Throw(Drop(k), err) => StackEffect
         /\ \A m : ThrowMsg(Drop(k), m) => StackEffect
         /\ Left(Instr) = 0 /\ Continue(Drop(k)) => StackEffect
         /\ \A v : Left(Instr) = 1 /\ Continue(Append(Drop(k), v)) => StackEffect
         /\ \A r : Left(Instr) = 1 /\ Push(Drop(k), r) => StackEffect
         /\ Left(Instr) = k /\ Continue(stack) => StackEffect
         /\ \A v : Left(Instr) = k + 1 /\ Continue(Append(stack, v)) => StackEffect
         /\ \A r : Left(Instr) = k + 1 /\ Push(stack, r) => StackEffect
<1>1. k \in Nat /\ k \in 0..Taken
  BY StackShapes
<1>2. Enough(stack) /\ Enough(Drop(k))
  BY <1>1, StackShapes
<1>3. /\ \A m : ThrowMsg(stack, m) => StackEffect
      /\ \A err : Throw(Drop(k), err) => StackEffect
      /\ \A m : ThrowMsg(Drop(k), m) => StackEffect
  BY <1>2, StackControls DEF StackEffect
<1>4. /\ Left(Instr) = 0 /\ Continue(Drop(k)) => StackEffect
      /\ Left(Instr) = k /\ Continue(stack) => StackEffect
  BY StackShapes, StackControls DEF StackEffect
<1>5. ASSUME Left(Instr) = 1
      PROVE  /\ \A v : Continue(Append(Drop(k), v)) => StackEffect
             /\ \A r : Push(Drop(k), r) => StackEffect
  <2>1. \A v : AsLeft(Append(Drop(k), v))
    BY <1>5, StackShapes
  <2>. QED
    BY <1>2, <2>1, StackControls DEF StackEffect
<1>6. ASSUME Left(Instr) = k + 1
      PROVE  /\ \A v : Continue(Append(stack, v)) => StackEffect
             /\ \A r : Push(stack, r) => StackEffect
  <2>1. \A v : AsLeft(Append(stack, v))
    BY <1>6, StackShapes
  <2>. QED
    BY <1>2, <2>1, StackControls DEF StackEffect
<1>. QED
  BY <1>3, <1>4, <1>5, <1>6

\* Variables, operators and jumps.
LEMMA SimpleStacks ==
  ASSUME Ready,
         \/ opConstant \/ opBinary \/ opNegate \/ opNot \/ opPop \/ opDup
         \/ opGetLocal \/ opSetLocal \/ opGetGlobal \/ opSetGlobal \/ opDefineGlobal
         \/ opJump \/ opJumpIfFalse \/ opLoop
  PROVE  StackEffect
<1> USE DEF Jumps, ForwardJumps
<1>1. CASE opConstant
  BY <1>1, FetchRuns, Sizes, PlainWays DEF opConstant, Taken
<1>2. CASE opBinary
  BY <1>2, FetchRuns, Sizes, PlainWays DEF opBinary, BinaryOps, Arithmetic, Comparisons, Taken
<1>3. CASE opNegate
  BY <1>3, FetchRuns, Sizes, PlainWays DEF opNegate, Taken
<1>4. CASE opNot
  BY <1>4, FetchRuns, Sizes, PlainWays DEF opNot, Taken
<1>5. CASE opPop
  BY <1>5, FetchRuns, Sizes, PlainWays DEF opPop, Taken
<1>6. CASE opDup
  BY <1>6, FetchRuns, Sizes, PlainWays DEF opDup, Taken
<1>7. CASE opGetLocal
  BY <1>7, FetchRuns, Sizes, PlainWays DEF opGetLocal, Taken
<1>8. CASE opSetLocal
  <2>1. HasInstr /\ Plain /\ Instr.op \in {"SET_LOCAL", "SET_LOCAL_POP"}
    BY <1>8, FetchRuns DEF opSetLocal
  <2>2. Taken = 1 /\ Left(Instr) = IF Instr.op \in Fused THEN 0 ELSE 1
    BY <2>1, Sizes DEF Fused, Taken
  <2>3. ASSUME NEW x, NEW v PROVE AsLeft(AfterSet([stack EXCEPT ![x] = v]))
    <3>1. PICK st : st = [stack EXCEPT ![x] = v] /\ IsSeq(st) /\ Len(st) = Len(stack)
      BY <2>1, StackShapes, ExceptFacts
    <3>2. /\ Len(stack) \in Nat /\ Taken \in Nat /\ Taken <= Len(stack) /\ Taken >= 1
          /\ IsSeq(st) /\ Len(st) = Len(stack) - (Taken - 1)
      BY <2>1, <2>2, <3>1, StackShapes
    <3>3. AsLeft(AfterSet(st))
      BY <2>2, <3>2, AfterSetFits
    <3>. QED
      BY <3>1, <3>3
  <2>4. (\E x, v : Continue(AfterSet([stack EXCEPT ![x] = v]))) \/ \E m : ThrowMsg(stack, m)
    BY <1>8 DEF opSetLocal
  <2>. QED
    BY <2>1, <2>3, <2>4, StackControls, PlainWays DEF StackEffect
<1>9. CASE opGetGlobal
  BY <1>9, FetchRuns, Sizes, PlainWays DEF opGetGlobal, Taken
<1>10. CASE opSetGlobal
  <2>1. HasInstr /\ Plain /\ Instr.op \in {"SET_GLOBAL", "SET_GLOBAL_POP"}
    BY <1>10, FetchRuns DEF opSetGlobal
  <2>2. Taken = 1 /\ Left(Instr) = IF Instr.op \in Fused THEN 0 ELSE 1
    BY <2>1, Sizes DEF Fused, Taken
  <2>3. AsLeft(AfterSet(stack))
    BY <2>1, <2>2, StackShapes, AfterSetFits
  <2>. QED
    BY <1>10, <2>1, <2>3, StackControls DEF opSetGlobal, StackEffect
<1>11. CASE opDefineGlobal
  BY <1>11, FetchRuns, Sizes, PlainWays DEF opDefineGlobal, Taken
<1>12. CASE opJump
  <2>1. HasInstr /\ Instr.op = "JUMP" /\ Goto(stack, Target)
    BY <1>12, FetchRuns DEF opJump
  <2>2. AsLeft(stack)
    BY <2>1, Sizes, StackShapes DEF Taken
  <2>. QED
    BY <2>1, <2>2, StackControls DEF StackEffect
<1>13. CASE opJumpIfFalse
  <2>1. /\ HasInstr /\ Instr.op = "JUMP_IF_FALSE"
        /\ (\E m : ThrowMsg(Drop(1), m)) \/ Goto(Drop(1), NextIp) \/ Goto(Drop(1), Target)
    BY <1>13, FetchRuns DEF opJumpIfFalse
  <2>2. Taken = 1 /\ Left(Instr) = 0
    BY <2>1, Sizes DEF Taken
  <2>3. AsLeft(Drop(1)) /\ Enough(Drop(1))
    BY <2>1, <2>2, StackShapes
  <2>. QED
    BY <2>1, <2>3, StackControls DEF StackEffect
<1>14. CASE opLoop
  <2>1. /\ HasInstr /\ Instr.op = "LOOP"
        /\ (\E m : ThrowMsg(stack, m)) \/ Goto(stack, Target)
    BY <1>14, FetchRuns DEF opLoop
  <2>2. AsLeft(stack) /\ Enough(stack)
    BY <2>1, Sizes, StackShapes DEF Taken
  <2>. QED
    BY <2>1, <2>2, StackControls DEF StackEffect
<1>. QED
  BY <1>1, <1>2, <1>3, <1>4, <1>5, <1>6, <1>7, <1>8, <1>9, <1>10, <1>11, <1>12, <1>13, <1>14

\* Objects, checks and patterns.
LEMMA ObjectStacks ==
  ASSUME Ready,
         \/ opBuildArray \/ opBuildTuple \/ opBuildHashMap \/ opInterpolate \/ opIndexGet
         \/ opIndexSet \/ opSlice \/ opGetMember \/ opSetMember \/ opIterInit
         \/ opIterNext \/ opIterValue \/ opClosure \/ opGetUpvalue \/ opSetUpvalue
         \/ opRangeCheck \/ opTypeCheck \/ opAssertBool \/ opDeclCheck
  PROVE  StackEffect
<1> USE DEF Jumps, ForwardJumps
<1>1. CASE opBuildArray
  BY <1>1, FetchRuns, Sizes, PlainWays DEF opBuildArray, Allocate, Taken
<1>2. CASE opBuildTuple
  BY <1>2, FetchRuns, Sizes, PlainWays DEF opBuildTuple, Taken
<1>3. CASE opBuildHashMap
  <2>1. HasInstr /\ Plain /\ Instr.op = "BUILD_HASHMAP"
    BY <1>3, FetchRuns DEF opBuildHashMap
  <2>2. 2 * Instr.arg = Taken /\ Left(Instr) = 1
    BY <2>1, Sizes DEF Taken
  <2>3. (\E v : Continue(Append(Drop(2 * Instr.arg), v))) \/ \E m : ThrowMsg(Drop(2 * Instr.arg), m)
    BY <1>3 DEF opBuildHashMap, Allocate
  <2>. QED
    BY <2>1, <2>2, <2>3, PlainWays
<1>4. CASE opInterpolate
  BY <1>4, FetchRuns, Sizes, PlainWays DEF opInterpolate, Taken
<1>5. CASE opIndexGet
  BY <1>5, FetchRuns, Sizes, PlainWays DEF opIndexGet, Taken
<1>6. CASE opIndexSet
  <2>1. HasInstr /\ Plain /\ Instr.op = "INDEX_SET"
    BY <1>6, FetchRuns DEF opIndexSet
  <2>2. 3 = Taken /\ Left(Instr) = 1
    BY <2>1, Sizes DEF Taken
  <2>3. (\E v : Continue(Append(Drop(3), v))) \/ \E err : Throw(Drop(3), err)
    BY <1>6 DEF opIndexSet
  <2>. QED
    BY <2>1, <2>2, <2>3, PlainWays
<1>7. CASE opSlice
  <2>1. HasInstr /\ Plain /\ Instr.op = "SLICE"
    BY <1>7, FetchRuns DEF opSlice
  <2>2. Left(Instr) = 1
    BY <2>1, Sizes
  <2>3. (\E v : Continue(Append(Drop(Operands(Instr)), v))) \/ \E m : ThrowMsg(Drop(Operands(Instr)), m)
    BY <1>7 DEF opSlice, Allocate
  <2>. QED
    BY <2>1, <2>2, <2>3, PlainWays DEF Taken
<1>8. CASE opGetMember
  BY <1>8, FetchRuns, Sizes, PlainWays DEF opGetMember, Taken
<1>9. CASE opSetMember
  <2>1. HasInstr /\ Plain /\ Instr.op \in {"SET_MEMBER", "SET_MEMBER_POP"}
    BY <1>9, FetchRuns DEF opSetMember
  <2>2. Taken = 2 /\ Left(Instr) = IF Instr.op \in Fused THEN 0 ELSE 1
    BY <2>1, Sizes DEF Fused, Taken
  <2>3. 1 \in 0..Taken /\ Enough(Drop(1)) /\ Len(Drop(1)) = Len(stack) - (Taken - 1)
    BY <2>1, <2>2, StackShapes
  <2>4. AsLeft(AfterSet(Drop(1)))
    BY <2>1, <2>2, <2>3, StackShapes, AfterSetFits DEF Enough
  <2>5. Continue(AfterSet(Drop(1))) \/ \E m : ThrowMsg(Drop(1), m)
    BY <1>9 DEF opSetMember
  <2>. QED
    BY <2>1, <2>3, <2>4, <2>5, StackControls DEF StackEffect
<1>10. CASE opIterInit
  BY <1>10, FetchRuns, Sizes, PlainWays DEF opIterInit, Allocate, Taken
<1>11. CASE opIterNext
  <2>1. /\ HasInstr /\ Instr.op = "ITER_NEXT"
        /\ (\E m : ThrowMsg(stack, m)) \/ Goto(stack, NextIp) \/ Goto(stack, Target)
    BY <1>11, FetchRuns DEF opIterNext, Continue
  <2>2. AsLeft(stack) /\ Enough(stack)
    BY <2>1, Sizes, StackShapes DEF Taken
  <2>. QED
    BY <2>1, <2>2, StackControls DEF StackEffect
<1>12. CASE opIterValue
  BY <1>12, FetchRuns, Sizes, PlainWays DEF opIterValue, Taken
<1>13. CASE opClosure
  <2>1. Fetch({"CLOSURE"}) /\ \E v : Continue(Append(stack, v))
    BY <1>13, Zenon DEF opClosure
  <2>. QED
    BY <2>1, FetchRuns, Sizes, PlainWays DEF Taken
<1>14. CASE opGetUpvalue
  BY <1>14, FetchRuns, Sizes, PlainWays DEF opGetUpvalue, Taken
<1>15. CASE opSetUpvalue
  <2>1. HasInstr /\ Plain /\ Instr.op \in {"SET_UPVALUE", "SET_UPVALUE_POP"}
    BY <1>15, FetchRuns DEF opSetUpvalue
  <2>2. Taken = 1 /\ Left(Instr) = IF Instr.op \in Fused THEN 0 ELSE 1
    BY <2>1, Sizes DEF Fused, Taken
  <2>3. AsLeft(AfterSet(stack))
    BY <2>1, <2>2, StackShapes, AfterSetFits
  <2>. QED
    BY <1>15, <2>1, <2>3, StackControls DEF opSetUpvalue, StackEffect
<1>16. CASE opRangeCheck
  BY <1>16, FetchRuns, Sizes, PlainWays DEF opRangeCheck, Taken
<1>17. CASE opTypeCheck
  BY <1>17, FetchRuns, Sizes, PlainWays DEF opTypeCheck, Taken
<1>18. CASE opAssertBool
  BY <1>18, FetchRuns, Sizes, PlainWays DEF opAssertBool, Taken
<1>19. CASE opDeclCheck
  BY <1>19, FetchRuns, Sizes, PlainWays DEF opDeclCheck, Taken
<1>. QED
  BY <1>1, <1>2, <1>3, <1>4, <1>5, <1>6, <1>7, <1>8, <1>9, <1>10, <1>11, <1>12, <1>13, <1>14, <1>15, <1>16, <1>17, <1>18, <1>19

\* Calls: a function starts above its callee, with as many arguments as it has
\* parameters; there is no class to call and no method to invoke.
LEMMA CallStacks ==
  ASSUME Ready,
         \/ opCallBuiltin \/ opCallFunction \/ opCallClass \/ opCallOther \/ opInvokeBuiltin
         \/ opInvoke \/ opImport
  PROVE  StackEffect
<1> USE DEF Jumps, ForwardJumps
<1>1. CASE opCallBuiltin
  <2>1. HasInstr /\ Plain /\ Instr.op = "CALL" /\ \E r : Push(Drop(Instr.arg + 1), r)
    BY <1>1, FetchRuns DEF opCallBuiltin, RunBuiltin
  <2>2. Instr.arg + 1 = Taken /\ Left(Instr) = 1
    BY <2>1, Sizes DEF Taken
  <2>. QED
    BY <2>1, <2>2, PlainWays
<1>2. CASE opCallFunction
  <2> DEFINE fn == prog.fns[Callee[2]]
             argc == Instr.arg
             st == Filled(fn, argc)
  <2>1. HasInstr /\ Plain /\ outcome = Running /\ Instr.op = "CALL" /\ Callee[2] \in DOMAIN prog.fns
    BY <1>2, FetchRuns DEF opCallFunction
  <2>2. argc + 1 = Taken /\ Left(Instr) = 1 /\ argc \in Nat
    BY <2>1, Current, Sizes DEF Ready, Taken
  <2>3. Stacked(fn, fn.arity)
    BY <2>1, FunctionStacked DEF Ready
  <2>4. fn.arity \in Nat /\ IsSeq(stack) /\ Len(stack) \in Nat /\ Enough(stack)
    BY <2>1, <2>3, StackShapes, StackedFacts
  <2> HIDE DEF fn, argc
  <2>5. argc <= fn.arity => IsSeq(st) /\ Len(st) = Len(stack) + (fn.arity - argc) /\ Enough(st)
    <3>1. SUFFICES ASSUME argc <= fn.arity PROVE IsSeq(st) /\ Len(st) = Len(stack) + (fn.arity - argc) /\ Enough(st)
      OBVIOUS
    <3>2. IsSeq(st) /\ Len(st) = Len(stack) + (fn.arity - argc)
      BY <2>2, <2>4, <3>1, FilledFacts
    <3>. QED
      BY <2>2, <2>4, <3>1, <3>2 DEF Enough
  <2> HIDE DEF st
  <2>6. \/ \E m : ThrowMsg(stack, m)
        \/ argc <= fn.arity /\ \E m : ThrowMsg(st, m)
        \/ /\ argc <= fn.arity /\ ~TooDeep
           /\ \E closure, gen : Enter(st, Frame(Callee[2], Len(st) - fn.arity, TRUE, closure, gen))
    BY <1>2 DEF opCallFunction, Accepts, CodeOf, fn, argc, st
  <2>7. CASE (\E m : ThrowMsg(stack, m)) \/ (argc <= fn.arity /\ \E m : ThrowMsg(st, m))
    BY <2>1, <2>4, <2>5, <2>7, StackControls DEF StackEffect
  <2>8. CASE /\ argc <= fn.arity /\ ~TooDeep
             /\ \E closure, gen : Enter(st, Frame(Callee[2], Len(st) - fn.arity, TRUE, closure, gen))
    <3>1. PICK closure, gen : Enter(st, Frame(Callee[2], Len(st) - fn.arity, TRUE, closure, gen))
      BY <2>8
    <3>2. Enters
      BY <2>1, <2>8, <3>1, EntersFrame DEF Ready
    <3>3. PICK f : f = Frame(Callee[2], Len(st) - fn.arity, TRUE, closure, gen)
      OBVIOUS
    <3>4. f.function = Callee[2] /\ f.hasCallee /\ f.slotOffset = Len(st) - fn.arity
      BY <3>3 DEF Frame
    <3>5. stack' = st /\ frames'[Len(frames) + 1] = f
      <4>1. Len(frames) \in 1..Len(frames) /\ IsSeq(frames) /\ Len(frames) > 0 /\ IsFrame(frames[Len(frames)])
        BY <2>1, RunningFacts DEF Ready, IInv
      <4>2. PICK fs : fs = [frames EXCEPT ![Len(frames)] = [frames[Len(frames)] EXCEPT !.ip = frames[Len(frames)].ip + 1]]
        OBVIOUS
      <4>3. IsSeq(fs) /\ Len(fs) = Len(frames)
        BY <4>1, <4>2, ExceptFacts
      <4>4. stack' = st /\ frames' = Append(fs, f)
        BY <3>1, <3>3, <4>2 DEF Enter
      <4>. QED
        BY <4>3, <4>4, AppendFacts
    <3>6. f.slotOffset = Len(stack) - argc /\ Len(st) = f.slotOffset + fn.arity
      BY <2>2, <2>4, <2>5, <2>8, <3>4
    <3>. QED
      BY <2>1, <2>5, <2>8, <3>2, <3>4, <3>5, <3>6 DEF Calls, StackEffect, fn, argc
  <2>. QED
    BY <2>6, <2>7, <2>8
<1>3. CASE opCallClass
  BY <1>3 DEF opCallClass, Ready, Placed
<1>4. CASE opCallOther
  BY <1>4, FetchRuns, PlainWays DEF opCallOther
<1>5. CASE opInvokeBuiltin
  <2>1. HasInstr /\ Plain /\ Instr.op = "INVOKE" /\ \E r : Push(Drop(Instr.arg.argc + 1), r)
    BY <1>5, FetchRuns DEF opInvokeBuiltin, RunBuiltin
  <2>2. Instr.arg.argc + 1 = Taken /\ Left(Instr) = 1
    BY <2>1, Sizes DEF Taken
  <2>. QED
    BY <2>1, <2>2, PlainWays
<1>6. CASE opInvoke
  <2>1. HasInstr /\ Plain
    <3>1. Fetch({"INVOKE"})
      BY <1>6, Zenon DEF opInvoke
    <3>. QED
      BY <3>1, FetchRuns
  <2>2. \E m : ThrowMsg(stack, m)
    BY <1>6 DEF opInvoke, Ready, Placed
  <2>. QED
    BY <2>1, <2>2, PlainWays
<1>7. CASE opImport
  <2>1. HasInstr /\ Plain /\ Instr.arg \notin DOMAIN prog.files
    BY <1>7, FetchRuns DEF opImport, Ready, Placed
  <2>2. \E m : ThrowMsg(stack, m)
    BY <1>7, <2>1 DEF opImport
  <2>. QED
    BY <2>1, <2>2, PlainWays
<1>. QED
  BY <1>1, <1>2, <1>3, <1>4, <1>5, <1>6, <1>7

\* A return takes everything above the slots of the call, and the callee below them;
\* the result is where the callee was.
LEMMA ReturnStack ==
  ASSUME Ready, opReturn, Leaves, Front(frames) # << >>,
         NEW v, NEW below, below = Keep(Drop(1), Top.slotOffset),
         stack' = Append(IF PopsCallee(below) THEN Front(below) ELSE below, v)
  PROVE  IsSeq(stack') /\ Len(stack') = Top.slotOffset
<1> DEFINE T == Len(frames)
           base == Top.slotOffset
           rest == Drop(1)
<1>1. HasInstr /\ Instr.op = "RETURN" /\ outcome = Running
  BY FetchRuns DEF opReturn
<1>2. Taken = 1
  BY <1>1, Sizes DEF Taken
<1>3. IsSeq(frames) /\ T \in Nat \ {0} /\ Top = frames[T]
  BY <1>1, RunningFacts DEF Ready, IInv, Top, Last
<1>4. T - 1 \in 1..T /\ T \in 1..T /\ T - 1 < T
  <2>1. CASE T = 1
    <3>1. Front(frames) = SubSeq(frames, 1, 0)
      BY <2>1 DEF Front
    <3>2. 0 \in 0..T
      BY <1>3
    <3>3. IsSeq(Front(frames)) /\ Len(Front(frames)) = 0
      BY <1>3, <3>1, <3>2, PrefixFacts
    <3>. QED
      BY <3>3, SeqFacts
  <2>2. CASE T # 1
    <3>1. PICK t \in Nat \ {0} : t = T
      BY <1>3
    <3>2. t # 1
      BY <2>2, <3>1
    <3>. QED
      BY <3>1, <3>2
  <2>. QED
    BY <2>1, <2>2
<1>5. base = Base(T) /\ base \in Nat /\ Base(T - 1) \in Nat /\ Base(T - 1) < base /\ Top.hasCallee
  BY <1>1, <1>3, <1>4 DEF Ready, Placed, StackPlaced, Ordered, CallPlaced, Base
<1>6. IsSeq(rest) /\ Len(rest) = Len(stack) - 1 /\ Len(stack) \in Nat
  <2>1. 1 \in 0..Taken
    BY <1>2
  <2>. QED
    BY <1>1, <2>1, StackShapes DEF Enough
<1>7. base <= Len(rest)
  <2>1. Size \in Nat /\ Len(stack) = Base(T) + Size /\ Floor(Within(T)) \in Nat /\ Floor(Within(T)) + Taken <= Size
    BY <1>1, Current DEF Ready
  <2>. QED
    BY <1>2, <1>5, <1>6, <2>1
<1> HIDE DEF rest, base
<1>8. below = SubSeq(rest, 1, base) /\ base \in 0..Len(rest)
  BY <1>5, <1>6, <1>7 DEF Keep, rest, base
<1>9. IsSeq(below) /\ Len(below) = base
  BY <1>6, <1>8, PrefixFacts
<1>10. frames[T - 1].slotOffset = Base(T - 1)
  BY DEF Base
<1>11. PopsCallee(below)
  <2>1. below # << >>
    BY <1>5, <1>9, SeqFacts
  <2>. QED
    BY <1>5, <1>9, <1>10, <2>1 DEF PopsCallee
<1>12. PICK k : k = base - 1
  OBVIOUS
<1>13. k \in 0..Len(below) /\ Front(below) = SubSeq(below, 1, k)
  BY <1>5, <1>9, <1>12 DEF Front
<1>14. IsSeq(Front(below)) /\ Len(Front(below)) = k
  BY <1>9, <1>13, PrefixFacts
<1>15. stack' = Append(Front(below), v)
  BY <1>11
<1>16. IsSeq(stack') /\ Len(stack') = k + 1
  BY <1>14, <1>15, AppendFacts
<1>. QED
  BY <1>5, <1>12, <1>16 DEF base

\* Returns, yields, try bodies and the end of the code; no instruction misses operands.
LEMMA EndStacks ==
  ASSUME Ready, opReturn \/ opYield \/ opTryBegin \/ opTryEnd \/ opUnderflow \/ opEnd \/ opUnknown
  PROVE  StackEffect
<1> USE DEF Jumps, ForwardJumps
<1>1. CASE opReturn
  <2> DEFINE below == Keep(Drop(1), Top.slotOffset)
  <2>1. HasInstr /\ Instr.op = "RETURN"
    BY <1>1, FetchRuns DEF opReturn
  <2>2. \/ \E m : ThrowMsg(Drop(1), m)
        \/ /\ Leaves
           /\ Front(frames) # << >> =>
                \E v : stack' = Append(IF PopsCallee(below) THEN Front(below) ELSE below, v)
    BY <1>1 DEF opReturn, Leaves
  <2>3. CASE \E m : ThrowMsg(Drop(1), m)
    <3>1. 1 \in 0..Taken
      BY <2>1, Sizes DEF Taken
    <3>2. Enough(Drop(1))
      BY <2>1, <3>1, StackShapes
    <3>. QED
      BY <2>1, <2>3, <3>2, StackControls DEF StackEffect
  <2>4. CASE /\ Leaves
             /\ Front(frames) # << >> =>
                  \E v : stack' = Append(IF PopsCallee(below) THEN Front(below) ELSE below, v)
    <3> HIDE DEF below
    <3>1. ASSUME Front(frames) # << >> PROVE IsSeq(stack') /\ Len(stack') = Top.slotOffset
      <4>1. PICK v : stack' = Append(IF PopsCallee(below) THEN Front(below) ELSE below, v)
        BY <2>4, <3>1
      <4>2. below = Keep(Drop(1), Top.slotOffset)
        BY DEF below
      <4>. QED
        BY <1>1, <2>4, <3>1, <4>1, <4>2, ReturnStack
    <3>. QED
      BY <2>4, <3>1 DEF Returns, StackEffect
  <2>. QED
    BY <2>2, <2>3, <2>4
<1>2. CASE opYield
  <2>1. Moves /\ Plain /\ HasInstr /\ Instr.op = "YIELD" /\ stack' = Drop(1)
    BY <1>2, YieldEffect, FetchRuns DEF opYield, Ready
  <2>2. Taken = 1 /\ Left(Instr) = 0
    BY <2>1, Sizes DEF Taken
  <2>. QED
    BY <2>1, <2>2, StackShapes DEF GoesOn, StackEffect
<1>3. CASE opTryBegin
  BY <1>3, TryBeginEffect DEF opTryBegin, Ready, Opens, StackEffect
<1>4. CASE opTryEnd
  <2>1. HasInstr /\ Instr.op = "TRY_END" /\ outcome = Running /\ UNCHANGED stack /\ (Moves \/ Unguards)
    BY <1>4, FetchRuns, TryEndEffect DEF opTryEnd, Ready
  <2>2. handlers # << >>
    <3>1. SUFFICES ASSUME handlers = << >> PROVE FALSE
      OBVIOUS
    <3>2. Within(Len(frames)) # << >>
      BY <2>1, Current DEF Ready
    <3>3. IsSeq(handlers) /\ Len(handlers) = 0
      BY <3>1 DEF Ready, IInv, TypeOK
    <3>4. Nest(handlers, Len(frames), Base(Len(frames)))[0] = << >>
      BY <3>3, NestFacts
    <3>. QED
      BY <3>2, <3>3, <3>4 DEF Within
  <2>3. Unguards
    BY <2>1, <2>2 DEF Moves
  <2>. QED
    BY <2>1, <2>3 DEF Closes, StackEffect
<1>5. CASE opUnderflow
  BY <1>5, StackShapes DEF opUnderflow, Taken
<1>6. CASE opEnd
  BY <1>6 DEF opEnd, Ends, StackEffect
<1>7. CASE opUnknown
  BY <1>7, StackShapes, StackControls DEF opUnknown, StackEffect
<1>. QED
  BY <1>1, <1>2, <1>3, <1>4, <1>5, <1>6, <1>7

\* Every step of the VM leaves the stack in one of these ways.
LEMMA StepStack == ASSUME Ready, Step PROVE StackEffect
BY SimpleStacks, ObjectStacks, CallStacks, EndStacks DEF Step

-----------------------------------------------------------------------------
(* The calls and the handlers after a step.                                *)

\* Two sequences of handlers that differ in handlers of other calls only are, for a
\* call, the same try bodies.
LEMMA NestKept ==
  ASSUME NEW hs, IsSeq(hs), NEW gs, IsSeq(gs), NEW d, NEW base,
         NEW n \in Nat, n <= Len(hs), n <= Len(gs), \A i \in 1..n : hs[i] = gs[i],
         \A i \in n + 1..Len(hs) : hs[i].frameDepth # d,
         \A i \in n + 1..Len(gs) : gs[i].frameDepth # d
  PROVE  Nest(gs, d, base)[Len(gs)] = Nest(hs, d, base)[Len(hs)]
<1>1. Len(hs) \in Nat /\ Len(gs) \in Nat
  BY SeqFacts
<1>2. Nest(hs, d, base)[n] = Nest(gs, d, base)[n]
  BY NestSame
<1>3. Nest(hs, d, base)[Len(hs)] = Nest(hs, d, base)[n]
  BY <1>1, NestSkips
<1>4. Nest(gs, d, base)[Len(gs)] = Nest(gs, d, base)[n]
  BY <1>1, NestSkips
<1>. QED
  BY <1>2, <1>3, <1>4

\* A call that remains runs the same code on the same slots.
LEMMA CallsSame ==
  ASSUME Ready, Effect, NEW d \in 1..Len(frames), d <= Len(frames')
  PROVE  /\ Base(d)' = Base(d) /\ Places(d)' = Places(d) /\ Base(d) \in Nat
         /\ frames'[d].function \in DOMAIN prog'.fns /\ frames'[d].hasCallee
         /\ d < Len(frames) /\ d < Len(frames') => frames'[d] = frames[d]
<1>1. Len(frames) \in Nat /\ Len(frames') \in Nat /\ Continues(frames')
  BY FramesAfter, SeqFacts, RunningFacts DEF Ready, IInv, Continues
<1>2. d \in 1..Len(frames')
  BY <1>1
<1>3. /\ frames'[d].function = frames[d].function /\ frames'[d].hasCallee = frames[d].hasCallee
      /\ frames'[d].slotOffset = frames[d].slotOffset
      /\ d < Len(frames) /\ d < Len(frames') => frames'[d] = frames[d]
  BY <1>1, <1>2 DEF Continues
<1>4. prog' = prog /\ CallPlaced(d)
  BY DEF Effect, Ready, Placed, StackPlaced
<1>. QED
  BY <1>3, <1>4 DEF CallPlaced, Base, Places

\* When no call is added, the callers are where they were if they keep their try
\* bodies, and the current call has to be at its new place.
LEMMA TopPlaced ==
  ASSUME Ready, Effect, NEW t \in 1..Len(frames), t = Len(frames'), IsSeq(stack'),
         \A d \in 1..t - 1 : Nest(handlers', d, Base(d))[Len(handlers')] = Within(d),
         <<frames'[t].ip, Len(stack') - Base(t), Nest(handlers', t, Base(t))[Len(handlers')]>> \in Places(t)
  PROVE  (\A d \in 1..Len(frames') : CallPlaced(d)') /\ Ordered'
<1>1. Len(frames) \in Nat /\ Len(stack') \in Nat
  BY RunningFacts, SeqFacts DEF Ready, IInv
<1>2. \A d \in 1..t : /\ d \in 1..Len(frames) /\ Base(d)' = Base(d) /\ Places(d)' = Places(d) /\ Base(d) \in Nat
                      /\ frames'[d].function \in DOMAIN prog'.fns /\ frames'[d].hasCallee
  BY <1>1, CallsSame
<1>3. \A d \in 1..t - 1 : Within(d)' = Within(d)
  <2>1. \A d \in 1..t - 1 : d \in 1..t
    BY <1>1
  <2>. QED
    BY <1>2, <2>1 DEF Within
<1>4. ASSUME NEW d \in 1..t - 1 PROVE CallPlaced(d)'
  <2>1. d \in 1..t /\ d + 1 \in 1..t /\ d # t /\ d < Len(frames) /\ d < Len(frames') /\ d # Len(frames)
    BY <1>1
  <2>2. frames'[d] = frames[d] /\ CallPlaced(d)
    BY <1>1, <1>2, <2>1, CallsSame DEF Ready, Placed, StackPlaced
  <2>3. Until(d) = Base(d + 1) /\ Until(d)' = Base(d + 1)
    BY <1>2, <2>1 DEF Until
  <2>. QED
    BY <1>2, <1>3, <2>1, <2>2, <2>3 DEF CallPlaced
<1>5. CallPlaced(t)'
  <2>1. t \in 1..t
    BY <1>1
  <2>2. Until(t)' = Len(stack') /\ Within(t)' = Nest(handlers', t, Base(t))[Len(handlers')]
    BY <1>2, <2>1 DEF Until, Within
  <2>. QED
    BY <1>1, <1>2, <2>1, <2>2 DEF CallPlaced
<1>6. \A d \in 1..Len(frames') : CallPlaced(d)'
  <2>1. \A d \in 1..t : d \in 1..t - 1 \/ d = t
    BY <1>1
  <2>. QED
    BY <1>4, <1>5, <2>1
<1>7. ASSUME NEW d \in 1..t, NEW e \in 1..t, d < e
      PROVE  Base(d)' < Base(e)' /\ Base(d)' + Floor(Within(d)') <= Base(e)'
  <2>1. d \in 1..t - 1
    BY <1>1, <1>7
  <2>. QED
    BY <1>2, <1>3, <1>7, <2>1 DEF Ready, Placed, StackPlaced, Ordered
<1>8. Ordered'
  BY <1>7 DEF Ordered
<1>. QED
  BY <1>6, <1>8

\* A handler that is left resumes its call where it did.
LEMMA OldHandlerPlaced ==
  ASSUME Ready, Effect, IsSeq(handlers'), NEW i \in 1..Len(handlers), i <= Len(handlers'),
         \A j \in 1..i : handlers'[j] = handlers[j], handlers[i].frameDepth <= Len(frames')
  PROVE  HandlerPlaced(i)'
<1>1. /\ Len(handlers) \in Nat /\ Len(frames) \in Nat /\ Len(frames') \in Nat /\ Len(handlers') \in Nat
      /\ IsSeq(handlers) /\ DOMAIN handlers = 1..Len(handlers)
  BY SeqFacts, FramesAfter DEF Ready, IInv, TypeOK, Continues
<1>2. handlers'[i] = handlers[i]
  OBVIOUS
<1>3. PICK d : d = handlers[i].frameDepth
  OBVIOUS
<1>4. d \in 1..Len(frames) /\ d <= Len(frames')
  BY <1>1, <1>3 DEF Ready, IInv, HandlersLive
<1>5. Base(d)' = Base(d) /\ Places(d)' = Places(d)
  BY <1>4, CallsSame
<1>6. PICK k : k = i - 1
  OBVIOUS
<1>7. k \in Nat /\ k <= Len(handlers) /\ k <= Len(handlers') /\ \A j \in 1..k : handlers[j] = handlers'[j]
  BY <1>1, <1>6
<1>8. Nest(handlers, d, Base(d))[k] = Nest(handlers', d, Base(d))[k]
  BY <1>1, <1>7, NestSame
<1>9. HandlerPlaced(i)
  BY DEF Ready, Placed, StackPlaced
<1>10. <<handlers[i].catchIp, handlers[i].stackDepth - Base(d) + 1, Nest(handlers, d, Base(d))[k]>> \in Places(d)
  BY <1>3, <1>6, <1>9 DEF HandlerPlaced
<1>11. handlers[i].stackDepth \in Nat
  BY <1>9 DEF HandlerPlaced
<1>. QED
  BY <1>2, <1>3, <1>5, <1>6, <1>8, <1>10, <1>11 DEF HandlerPlaced

\* So do all handlers when a step leaves some of them.
LEMMA KeptHandlersPlaced ==
  ASSUME Ready, Effect, NEW n, Keeps(handlers', n)
  PROVE  \A i \in 1..Len(handlers') : HandlerPlaced(i)'
<1>1. Len(handlers) \in Nat
  BY SeqFacts DEF Ready, IInv, TypeOK
<1>2. /\ IsSeq(handlers') /\ Len(handlers') = n /\ n \in 0..Len(handlers)
      /\ \A j \in 1..n : handlers'[j] = handlers[j]
  BY DEF Keeps
<1>3. SUFFICES ASSUME NEW i \in 1..n PROVE HandlerPlaced(i)'
  BY <1>2
<1>4. i \in 1..Len(handlers) /\ i <= Len(handlers') /\ \A j \in 1..i : handlers'[j] = handlers[j]
  BY <1>1, <1>2
<1>5. handlers[i].frameDepth <= Len(frames')
  BY <1>2 DEF Keeps
<1>. QED
  BY <1>2, <1>4, <1>5, OldHandlerPlaced

\* Handlers that do not change stay with their calls.
LEMMA SameHandlersKeep ==
  ASSUME Ready, Len(frames') \in Nat, Len(frames') >= Len(frames), UNCHANGED handlers
  PROVE  Keeps(handlers', Len(handlers))
<1>1. IsSeq(handlers) /\ Len(handlers) \in Nat /\ DOMAIN handlers = 1..Len(handlers) /\ Len(frames) \in Nat
  BY SeqFacts DEF Ready, IInv, TypeOK
<1>2. \A i \in 1..Len(handlers) : handlers[i].frameDepth \in 1..Len(frames)
  BY <1>1 DEF Ready, IInv, HandlersLive
<1>. QED
  BY <1>1, <1>2 DEF Keeps

\* An instruction that goes on leaves what going down the code counts on.
LEMMA GoesOnPlaced == ASSUME Ready, Effect, GoesOn PROVE StackPlaced'
<1> DEFINE t == Len(frames)
           code == CodeOf(Top.function).code
           open == Within(t)
<1>1. PICK x \in Successors(code, Top.ip) : Shifts(x)
  BY DEF GoesOn, Moves
<1>2. /\ HasInstr /\ Instr.op \notin {"TRY_BEGIN", "TRY_END"} /\ UNCHANGED handlers
      /\ IsSeq(stack') /\ Len(stack') = Len(stack) - Taken + Left(Instr)
  BY DEF GoesOn, Moves, AsLeft
<1>3. t \in Nat \ {0} /\ t \in 1..t /\ Len(frames') = t /\ frames'[t].ip = x
  BY <1>1, RunningFacts DEF Ready, IInv, Shifts, Outermost
<1>4. /\ Len(stack) \in Nat /\ Base(t) \in Nat /\ Size \in Nat /\ Len(stack) = Base(t) + Size /\ Taken \in Nat
      /\ Onward(code, Top.ip, Size, open) \subseteq Places(t)
  BY <1>2, Current DEF Ready
<1>5. Left(Instr) \in {0, 1, 2}
  BY DEF Left
<1>6. PICK n : n = Size - Taken + Left(Instr)
  OBVIOUS
<1>7. Len(stack') - Base(t) = n
  BY <1>2, <1>4, <1>5, <1>6
<1>8. <<x, n, open>> \in Onward(code, Top.ip, Size, open)
  BY <1>1, <1>2, <1>6 DEF Onward, Instr, Taken
<1>9. \A d : Nest(handlers', d, Base(d))[Len(handlers')] = Within(d)
  BY <1>2 DEF Within
<1>10. (\A d \in 1..Len(frames') : CallPlaced(d)') /\ Ordered'
  BY <1>2, <1>3, <1>4, <1>7, <1>8, <1>9, TopPlaced
<1>11. \A i \in 1..Len(handlers') : HandlerPlaced(i)'
  BY <1>2, <1>3, SameHandlersKeep, KeptHandlersPlaced
<1>. QED
  BY <1>2, <1>10, <1>11 DEF StackPlaced

\* The last handler is the innermost try body of its call, and began no higher than
\* what the current instruction leaves on the stack.
LEMMA LastHandler ==
  ASSUME Ready, HasInstr, handlers # << >>, NEW h, h = handlers[Len(handlers)]
  PROVE  /\ Len(handlers) \in Nat \ {0} /\ h = Last(handlers) /\ h.frameDepth \in 1..Len(frames)
         /\ h.stackDepth \in Nat /\ h.stackDepth <= Len(stack) - Taken
         /\ <<h.catchIp, h.stackDepth - Base(h.frameDepth) + 1,
              Nest(handlers, h.frameDepth, Base(h.frameDepth))[Len(handlers) - 1]>> \in Places(h.frameDepth)
<1> DEFINE t == Len(frames)
           l == Len(handlers)
           d == h.frameDepth
<1>1. IsSeq(handlers) /\ l \in Nat \ {0} /\ l \in 1..l /\ DOMAIN handlers = 1..l
  BY SeqFacts DEF Ready, IInv, TypeOK
<1>2. t \in 1..t /\ d \in 1..t /\ t \in Nat
  BY <1>1, RunningFacts DEF Ready, IInv, HandlersLive
<1>3. HandlerPlaced(l)
  BY <1>1 DEF Ready, Placed, StackPlaced
<1>4. h.stackDepth \in Nat
  BY <1>3 DEF HandlerPlaced
<1>5. Within(d) = <<Nest(handlers, d, Base(d))[l - 1], h.stackDepth - Base(d)>>
  <2>1. PICK base, hs : base = Base(d) /\ hs = handlers
    OBVIOUS
  <2>2. Nest(hs, d, base)[l] = IF hs[l].frameDepth = d THEN <<Nest(hs, d, base)[l - 1], hs[l].stackDepth - base>>
                               ELSE Nest(hs, d, base)[l - 1]
    <3>1. IsSeq(hs) /\ l \in 1..Len(hs)
      BY <1>1, <2>1
    <3>2. \A i \in 1..Len(hs) : Nest(hs, d, base)[i] = IF hs[i].frameDepth = d
                                                      THEN <<Nest(hs, d, base)[i - 1], hs[i].stackDepth - base>>
                                                      ELSE Nest(hs, d, base)[i - 1]
      BY <3>1, NestFacts
    <3>. QED
      BY <3>1, <3>2
  <2>3. hs[l] = h /\ hs[l].frameDepth = d
    BY <2>1
  <2>. QED
    BY <2>1, <2>2, <2>3 DEF Within
<1>6. Floor(Within(d)) = h.stackDepth - Base(d)
  <2>1. PICK open, n : open = Within(d) /\ n = h.stackDepth - Base(d) /\ open[2] = n /\ open # << >>
    BY <1>5
  <2>. QED
    BY <2>1 DEF Floor
<1>7. Base(d) \in Nat
  BY <1>2 DEF Ready, Placed, StackPlaced, CallPlaced
<1>8. /\ Len(stack) \in Nat /\ Base(t) \in Nat /\ Size \in Nat /\ Len(stack) = Base(t) + Size
      /\ Floor(Within(t)) \in Nat /\ Taken \in Nat /\ Floor(Within(t)) + Taken <= Size
  BY Current DEF Ready
<1>9. h.stackDepth <= Len(stack) - Taken
  <2>1. CASE d = t
    BY <1>4, <1>6, <1>8, <2>1
  <2>2. CASE d < t
    <3>1. Base(d) + Floor(Within(d)) <= Base(t)
      BY <1>2, <2>2 DEF Ready, Placed, StackPlaced, Ordered
    <3>. QED
      BY <1>4, <1>6, <1>7, <1>8, <3>1
  <2>. QED
    BY <1>2, <2>1, <2>2
<1>10. h = Last(handlers)
  BY DEF Last
<1>. QED
  BY <1>1, <1>2, <1>3, <1>4, <1>9, <1>10 DEF HandlerPlaced

\* What is left of the handlers when the last is taken away.
LEMMA FrontHandlers ==
  ASSUME Ready, handlers # << >>, handlers' = Front(handlers)
  PROVE  /\ IsSeq(handlers) /\ IsSeq(handlers') /\ Len(handlers) \in Nat \ {0} /\ Len(handlers') = Len(handlers) - 1
         /\ \A i \in 1..Len(handlers') : handlers[i] = handlers'[i]
<1>1. IsSeq(handlers) /\ Len(handlers) \in Nat \ {0}
  BY SeqFacts DEF Ready, IInv, TypeOK
<1>2. PICK k : k = Len(handlers) - 1
  OBVIOUS
<1>3. handlers' = SubSeq(handlers, 1, k) /\ k \in 0..Len(handlers)
  BY <1>1, <1>2 DEF Front
<1>4. /\ IsSeq(handlers') /\ Len(handlers') = k /\ \A i \in 1..k : handlers'[i] = handlers[i]
  BY <1>1, <1>3, PrefixFacts
<1>. QED
  BY <1>1, <1>2, <1>4

\* Taking the last handler away leaves the other calls their try bodies.
LEMMA FrontNests ==
  ASSUME Ready, handlers # << >>, handlers' = Front(handlers), NEW k, k = handlers[Len(handlers)].frameDepth
  PROVE  /\ \A d : d # k => Nest(handlers', d, Base(d))[Len(handlers')] = Within(d)
         /\ Nest(handlers', k, Base(k))[Len(handlers')] = Nest(handlers, k, Base(k))[Len(handlers) - 1]
<1>1. /\ IsSeq(handlers) /\ IsSeq(handlers') /\ Len(handlers) \in Nat \ {0} /\ Len(handlers') = Len(handlers) - 1
      /\ \A i \in 1..Len(handlers') : handlers[i] = handlers'[i]
  BY FrontHandlers
<1>2. PICK n \in Nat : n = Len(handlers')
  BY <1>1
<1>3. n = Len(handlers) - 1 /\ n <= Len(handlers) /\ n <= Len(handlers') /\ \A i \in 1..n : handlers[i] = handlers'[i]
  BY <1>1, <1>2
<1>4. \A i \in n + 1..Len(handlers) : i = Len(handlers)
  BY <1>1, <1>3
<1>5. \A i \in n + 1..Len(handlers') : FALSE
  BY <1>2
<1>6. ASSUME NEW d, d # k PROVE Nest(handlers', d, Base(d))[Len(handlers')] = Nest(handlers, d, Base(d))[Len(handlers)]
  <2>1. \A i \in n + 1..Len(handlers) : handlers[i].frameDepth # d
    BY <1>4, <1>6
  <2>2. PICK base : base = Base(d)
    OBVIOUS
  <2>3. \A i \in n + 1..Len(handlers') : handlers'[i].frameDepth # d
    BY <1>5
  <2>4. Nest(handlers', d, base)[Len(handlers')] = Nest(handlers, d, base)[Len(handlers)]
    <3>1. PICK hs, gs : hs = handlers /\ gs = handlers'
      OBVIOUS
    <3>2. /\ IsSeq(hs) /\ IsSeq(gs) /\ n <= Len(hs) /\ n <= Len(gs) /\ \A i \in 1..n : hs[i] = gs[i]
      BY <1>1, <1>3, <3>1
    <3>3. \A i \in n + 1..Len(hs) : hs[i].frameDepth # d
      BY <2>1, <3>1
    <3>4. \A i \in n + 1..Len(gs) : gs[i].frameDepth # d
      BY <2>3, <3>1
    <3>5. Nest(gs, d, base)[Len(gs)] = Nest(hs, d, base)[Len(hs)]
      BY <3>2, <3>3, <3>4, NestKept
    <3>. QED
      BY <3>1, <3>5
  <2>. QED
    BY <2>2, <2>4
<1>7. Nest(handlers, k, Base(k))[n] = Nest(handlers', k, Base(k))[n]
  BY <1>1, <1>3, NestSame
<1>. QED
  BY <1>2, <1>3, <1>6, <1>7 DEF Within

\* A catch begins with the exception on what was there when its try body began.
LEMMA CatchesPlaced == ASSUME Ready, Effect, Catches PROVE StackPlaced'
<1>1. PICK h : h = handlers[Len(handlers)]
  OBVIOUS
<1>2. PICK k, n : k = h.frameDepth /\ n = h.stackDepth
  OBVIOUS
<1>3. PICK st, err : Enough(st) /\ stack' = Append(Keep(st, Last(handlers).stackDepth), err)
  BY DEF Catches
<1>4. HasInstr /\ handlers # << >> /\ handlers' = Front(handlers)
  BY DEF Catches, Unwinds
<1>5. /\ Len(handlers) \in Nat \ {0} /\ h = Last(handlers) /\ k \in 1..Len(frames)
      /\ n \in Nat /\ n <= Len(stack) - Taken
      /\ <<h.catchIp, n - Base(k) + 1, Nest(handlers, k, Base(k))[Len(handlers) - 1]>> \in Places(k)
  BY <1>1, <1>2, <1>4, LastHandler
<1>6. Len(frames') = k /\ frames'[k].ip = h.catchIp
  BY <1>2, <1>5 DEF Catches, Unwinds, Outermost
<1>7. IsSeq(st) /\ n \in 0..Len(st) /\ Len(st) \in Nat
  <2>1. IsSeq(st) /\ Len(st) \in Nat /\ Len(st) >= Len(stack) - Taken
    BY <1>3, SeqFacts DEF Enough
  <2>2. Len(stack) \in Nat /\ Taken \in Nat
    BY <1>4, StackShapes
  <2>. QED
    BY <1>5, <2>1, <2>2
<1>8. Keep(st, n) = SubSeq(st, 1, n)
  BY <1>7 DEF Keep
<1>9. IsSeq(stack') /\ Len(stack') = n + 1
  <2>1. PICK low : low = SubSeq(st, 1, n)
    OBVIOUS
  <2>2. IsSeq(low) /\ Len(low) = n
    BY <1>7, <2>1, PrefixFacts
  <2>3. stack' = Append(low, err)
    BY <1>2, <1>3, <1>5, <1>8, <2>1
  <2>. QED
    BY <2>2, <2>3, AppendFacts
<1>10. Base(k) \in Nat
  BY <1>5 DEF Ready, Placed, StackPlaced, CallPlaced
<1>11. Len(stack') - Base(k) = n - Base(k) + 1
  BY <1>5, <1>9, <1>10
<1>12. /\ \A d : d # k => Nest(handlers', d, Base(d))[Len(handlers')] = Within(d)
       /\ Nest(handlers', k, Base(k))[Len(handlers')] = Nest(handlers, k, Base(k))[Len(handlers) - 1]
  BY <1>1, <1>2, <1>4, FrontNests
<1>13. <<frames'[k].ip, Len(stack') - Base(k), Nest(handlers', k, Base(k))[Len(handlers')]>> \in Places(k)
  BY <1>5, <1>6, <1>11, <1>12
<1>14. \A d \in 1..k - 1 : Nest(handlers', d, Base(d))[Len(handlers')] = Within(d)
  <2>1. \A d \in 1..k - 1 : d # k
    BY <1>5
  <2>. QED
    BY <1>12, <2>1
<1>15. (\A d \in 1..Len(frames') : CallPlaced(d)') /\ Ordered'
  BY <1>5, <1>6, <1>9, <1>13, <1>14, TopPlaced
<1>16. Keeps(handlers', Len(handlers) - 1)
  <2>1. Len(frames') \in Nat /\ Last(handlers).frameDepth <= Len(frames')
    BY <1>2, <1>5, <1>6
  <2>. QED
    BY <1>4, <2>1, FrontKeeps DEF Ready
<1>17. \A i \in 1..Len(handlers') : HandlerPlaced(i)'
  BY <1>16, KeptHandlersPlaced
<1>. QED
  BY <1>9, <1>15, <1>17 DEF StackPlaced

\* A try ends: its handler is the last one, and the current call's.
LEMMA ClosesPlaced == ASSUME Ready, Effect, Closes PROVE StackPlaced'
<1> DEFINE t == Len(frames)
           code == CodeOf(Top.function).code
<1>1. /\ HasInstr /\ Instr.op = "TRY_END" /\ Shifts(Top.ip + 1) /\ stack' = stack
      /\ handlers # << >> /\ handlers' = Front(handlers)
  BY DEF Closes, Unguards
<1>2. t \in Nat \ {0} /\ t \in 1..t /\ Len(frames') = t /\ frames'[t].ip = Top.ip + 1
  BY <1>1, RunningFacts DEF Ready, IInv, Shifts, Outermost
<1>3. PICK h : h = handlers[Len(handlers)]
  OBVIOUS
<1>4. Len(handlers) \in Nat \ {0} /\ h = Last(handlers) /\ h.frameDepth \in 1..t
  BY <1>1, <1>3, LastHandler
<1>5. /\ IsSeq(stack) /\ Len(stack) \in Nat /\ Base(t) \in Nat /\ Size \in Nat /\ Len(stack) = Base(t) + Size
      /\ Within(t) # << >> /\ Onward(code, Top.ip, Size, Within(t)) \subseteq Places(t)
  BY <1>1, Current DEF Ready
<1>6. IsSeq(handlers) /\ DOMAIN handlers = 1..Len(handlers)
  BY SeqFacts DEF Ready, IInv, TypeOK
<1>7. h.frameDepth = t
  <2>1. SUFFICES ASSUME h.frameDepth < t PROVE FALSE
    BY <1>2, <1>4
  <2>2. \A i \in 1..Len(handlers) : handlers[i].frameDepth \in 1..t /\ handlers[i].frameDepth <= h.frameDepth
    <3>1. \A i \in 1..Len(handlers) : i = Len(handlers) \/ i < Len(handlers)
      BY <1>4
    <3>2. Len(handlers) \in 1..Len(handlers)
      BY <1>4
    <3>3. \A i \in 1..Len(handlers) : handlers[i].frameDepth \in 1..t
      BY <1>6 DEF Ready, IInv, HandlersLive
    <3>4. \A i \in 1..Len(handlers) : i < Len(handlers) => handlers[i].frameDepth <= handlers[Len(handlers)].frameDepth
      BY <1>6, <3>2 DEF Ready, IInv, HandlersLive
    <3>5. handlers[Len(handlers)].frameDepth = h.frameDepth /\ h.frameDepth \in Nat
      BY <1>3, <1>4
    <3>. QED
      BY <3>1, <3>3, <3>4, <3>5
  <2>3. \A i \in 0 + 1..Len(handlers) : handlers[i].frameDepth # t
    BY <1>2, <1>4, <2>1, <2>2
  <2>4. PICK base, zero \in Nat : base = Base(t) /\ zero = 0
    BY <1>5
  <2>5. Nest(handlers, t, base)[Len(handlers)] = Nest(handlers, t, base)[zero]
    <3>1. zero \in Nat /\ Len(handlers) \in Nat /\ zero <= Len(handlers) /\ Len(handlers) <= Len(handlers)
      BY <1>4, <2>4
    <3>2. \A i \in zero + 1..Len(handlers) : handlers[i].frameDepth # t
      BY <2>3, <2>4
    <3>. QED
      BY <1>6, <3>1, <3>2, NestSkips
  <2>6. Nest(handlers, t, base)[0] = << >>
    BY <1>6, NestFacts
  <2>. QED
    BY <1>5, <2>4, <2>5, <2>6 DEF Within
<1>8. PICK open : open = Nest(handlers, t, Base(t))[Len(handlers) - 1]
  OBVIOUS
<1>9. Within(t)[1] = open
  <2>1. PICK base, hs, l : base = Base(t) /\ hs = handlers /\ l = Len(hs)
    OBVIOUS
  <2>2. IsSeq(hs) /\ l \in 1..Len(hs) /\ hs[l].frameDepth = t
    <3>1. l \in Nat \ {0}
      BY <1>4, <2>1
    <3>2. hs[l] = h
      BY <1>3, <2>1
    <3>. QED
      BY <1>6, <1>7, <2>1, <3>1, <3>2
  <2>3. \A i \in 1..Len(hs) : Nest(hs, t, base)[i] = IF hs[i].frameDepth = t
                                                    THEN <<Nest(hs, t, base)[i - 1], hs[i].stackDepth - base>>
                                                    ELSE Nest(hs, t, base)[i - 1]
    BY <2>2, NestFacts
  <2>4. Nest(hs, t, base)[l] = <<Nest(hs, t, base)[l - 1], hs[l].stackDepth - base>>
    BY <2>2, <2>3
  <2>. QED
    BY <1>8, <2>1, <2>4 DEF Within
<1>10. <<Top.ip + 1, Size, open>> \in Onward(code, Top.ip, Size, Within(t))
  BY <1>1, <1>9 DEF Onward, Instr
<1>11. /\ \A d : d # t => Nest(handlers', d, Base(d))[Len(handlers')] = Within(d)
       /\ Nest(handlers', t, Base(t))[Len(handlers')] = open
  BY <1>1, <1>3, <1>7, <1>8, FrontNests
<1>12. Len(stack') - Base(t) = Size
  BY <1>1, <1>5
<1>13. <<frames'[t].ip, Len(stack') - Base(t), Nest(handlers', t, Base(t))[Len(handlers')]>> \in Places(t)
  BY <1>2, <1>5, <1>10, <1>11, <1>12
<1>14. \A d \in 1..t - 1 : Nest(handlers', d, Base(d))[Len(handlers')] = Within(d)
  <2>1. \A d \in 1..t - 1 : d # t
    BY <1>2
  <2>. QED
    BY <1>11, <2>1
<1>15. (\A d \in 1..Len(frames') : CallPlaced(d)') /\ Ordered'
  BY <1>1, <1>2, <1>5, <1>13, <1>14, TopPlaced
<1>16. Keeps(handlers', Len(handlers) - 1)
  <2>1. Len(frames') \in Nat /\ Last(handlers).frameDepth <= Len(frames')
    BY <1>2, <1>4, <1>7
  <2>. QED
    BY <1>1, <2>1, FrontKeeps DEF Ready
<1>17. \A i \in 1..Len(handlers') : HandlerPlaced(i)'
  BY <1>16, KeptHandlersPlaced
<1>. QED
  BY <1>1, <1>5, <1>15, <1>17 DEF StackPlaced

\* A try begins: the current call is in one try body more, and the handler resumes it
\* without.
LEMMA OpensPlaced == ASSUME Ready, Effect, Opens PROVE StackPlaced'
<1> DEFINE t == Len(frames)
           l == Len(handlers)
           code == CodeOf(Top.function).code
<1>1. /\ HasInstr /\ Instr.op = "TRY_BEGIN" /\ Shifts(Top.ip + 1) /\ stack' = stack
      /\ handlers' = Append(handlers, Handler)
  BY DEF Opens, Guards
<1>2. t \in Nat \ {0} /\ t \in 1..t /\ Len(frames') = t /\ frames'[t].ip = Top.ip + 1
  BY <1>1, RunningFacts DEF Ready, IInv, Shifts, Outermost
<1>3. IsSeq(handlers) /\ l \in Nat /\ DOMAIN handlers = 1..l
  BY SeqFacts DEF Ready, IInv, TypeOK
<1>4. /\ IsSeq(handlers') /\ Len(handlers') = l + 1
      /\ \A i \in 1..l : handlers'[i] = handlers[i]
      /\ handlers'[l + 1] = Handler
  BY <1>1, <1>3, AppendFacts
<1>5. /\ IsSeq(stack) /\ Len(stack) \in Nat /\ Base(t) \in Nat /\ Size \in Nat /\ Len(stack) = Base(t) + Size
      /\ Onward(code, Top.ip, Size, Within(t)) \subseteq Places(t)
  BY <1>1, Current DEF Ready
<1>6. /\ <<Top.ip + 1, Size, <<Within(t), Size>>>> \in Places(t)
      /\ <<Handler.catchIp, Size + 1, Within(t)>> \in Places(t)
  <2>1. JumpTarget(code, Top.ip) = Handler.catchIp
    BY <1>1 DEF JumpTarget, Handler, Instr
  <2>2. <<Top.ip + 1, Size, <<Within(t), Size>>>> \in Onward(code, Top.ip, Size, Within(t))
    BY <1>1 DEF Onward, Instr
  <2>3. <<JumpTarget(code, Top.ip), Size + 1, Within(t)>> \in Onward(code, Top.ip, Size, Within(t))
    BY <1>1 DEF Onward, Instr
  <2>. QED
    BY <1>5, <2>1, <2>2, <2>3
<1>7. Handler.frameDepth = t /\ Handler.stackDepth = Len(stack)
  BY DEF Handler
<1>8. PICK hs, gs, last, base : hs = handlers /\ gs = handlers' /\ last = l + 1 /\ base = Base(t)
  OBVIOUS
<1>9. /\ IsSeq(hs) /\ IsSeq(gs) /\ l <= Len(hs) /\ l <= Len(gs) /\ Len(gs) = last /\ last \in 1..Len(gs) /\ l = last - 1
      /\ \A i \in 1..l : hs[i] = gs[i]
      /\ gs[last].frameDepth = t /\ gs[last].stackDepth = Len(stack)
  BY <1>3, <1>4, <1>7, <1>8
<1>10. ASSUME NEW d \in 1..t - 1 PROVE Nest(handlers', d, Base(d))[Len(handlers')] = Within(d)
  <2>1. PICK b : b = Base(d)
    OBVIOUS
  <2>2. \A i \in l + 1..Len(hs) : hs[i].frameDepth # d
    BY <1>3, <1>8
  <2>3. d # t
    BY <1>2
  <2>4. \A i \in l + 1..Len(gs) : gs[i].frameDepth # d
    <3>1. \A i \in l + 1..Len(gs) : i = last
      BY <1>3, <1>9
    <3>. QED
      BY <1>9, <2>3, <3>1
  <2>5. Nest(gs, d, b)[Len(gs)] = Nest(hs, d, b)[Len(hs)]
    <3>1. PICK m \in Nat : m = l
      BY <1>3
    <3>2. /\ m <= Len(hs) /\ m <= Len(gs) /\ \A i \in 1..m : hs[i] = gs[i]
          /\ IsSeq(hs) /\ IsSeq(gs)
      BY <1>9, <3>1
    <3>3. \A i \in m + 1..Len(hs) : hs[i].frameDepth # d
      BY <2>2, <3>1
    <3>4. \A i \in m + 1..Len(gs) : gs[i].frameDepth # d
      BY <2>4, <3>1
    <3>. QED
      BY <3>2, <3>3, <3>4, NestKept
  <2>. QED
    BY <1>8, <2>1, <2>5 DEF Within
<1>11. Nest(hs, t, base)[l] = Nest(gs, t, base)[l] /\ Nest(hs, t, base)[l] = Within(t)
  <2>1. Nest(hs, t, base)[l] = Nest(gs, t, base)[l]
    BY <1>3, <1>9, NestSame
  <2>. QED
    BY <1>8, <2>1 DEF Within
<1>12. Nest(handlers', t, Base(t))[Len(handlers')] = <<Within(t), Size>>
  <2>1. \A i \in 1..Len(gs) : Nest(gs, t, base)[i] = IF gs[i].frameDepth = t
                                                    THEN <<Nest(gs, t, base)[i - 1], gs[i].stackDepth - base>>
                                                    ELSE Nest(gs, t, base)[i - 1]
    BY <1>9, NestFacts
  <2>2. Nest(gs, t, base)[last] = <<Nest(gs, t, base)[last - 1], gs[last].stackDepth - base>>
    BY <1>9, <2>1
  <2>3. gs[last].stackDepth - base = Size
    BY <1>5, <1>8, <1>9
  <2>4. Nest(gs, t, base)[last] = <<Nest(gs, t, base)[l], Size>>
    BY <1>9, <2>2, <2>3
  <2>. QED
    BY <1>8, <1>9, <1>11, <2>4
<1>13. Len(stack') - Base(t) = Size
  BY <1>1, <1>5
<1>14. (\A d \in 1..Len(frames') : CallPlaced(d)') /\ Ordered'
  BY <1>1, <1>2, <1>5, <1>6, <1>10, <1>12, <1>13, TopPlaced
<1>15. ASSUME NEW i \in 1..l PROVE HandlerPlaced(i)'
  <2>1. i <= Len(handlers') /\ \A j \in 1..i : handlers'[j] = handlers[j]
    BY <1>3, <1>4
  <2>2. handlers[i].frameDepth <= Len(frames')
    BY <1>2, <1>3 DEF Ready, IInv, HandlersLive
  <2>. QED
    BY <1>4, <2>1, <2>2, OldHandlerPlaced
<1>16. HandlerPlaced(last)'
  <2>1. PICK d, h : d = t /\ h = Handler
    OBVIOUS
  <2>2. Base(d)' = Base(d) /\ Places(d)' = Places(d)
    BY <1>2, <2>1, CallsSame
  <2>3. handlers'[last] = h /\ h.frameDepth = d
    BY <1>4, <1>7, <1>8, <2>1
  <2>4. Nest(handlers', d, Base(d))[last - 1] = Within(d)
    BY <1>8, <1>9, <1>11, <2>1
  <2>5. h.stackDepth - Base(d) + 1 = Size + 1 /\ h.stackDepth \in Nat
    BY <1>5, <1>7, <2>1
  <2>6. <<h.catchIp, h.stackDepth - Base(d) + 1, Nest(handlers', d, Base(d))[last - 1]>> \in Places(d)
    BY <1>6, <2>1, <2>4, <2>5
  <2>. QED
    BY <2>2, <2>3, <2>5, <2>6 DEF HandlerPlaced
<1>17. \A i \in 1..Len(handlers') : HandlerPlaced(i)'
  <2>1. \A i \in 1..Len(handlers') : i \in 1..l \/ i = last
    BY <1>3, <1>4, <1>8
  <2>. QED
    BY <1>15, <1>16, <2>1
<1>. QED
  BY <1>1, <1>5, <1>14, <1>17 DEF StackPlaced

\* A return: the caller goes on with the result where the callee was.
LEMMA ReturnsPlaced == ASSUME Ready, Effect, Returns, Front(frames) # << >> PROVE StackPlaced'
<1> DEFINE t == Len(frames)
<1>1. IsSeq(frames) /\ t \in Nat \ {0} /\ Top = frames[t] /\ IsSeq(handlers) /\ Len(handlers) \in Nat
  BY RunningFacts, SeqFacts DEF Ready, IInv, TypeOK, Top, Last
<1>2. PICK k : k = t - 1
  OBVIOUS
<1>3. frames' = SubSeq(frames, 1, k) /\ k \in 0..t
  BY <1>1, <1>2 DEF Returns, Leaves, Front
<1>4. IsSeq(frames') /\ Len(frames') = k /\ \A i \in 1..k : frames'[i] = frames[i]
  BY <1>1, <1>3, PrefixFacts
<1>5. frames' # << >>
  BY DEF Returns, Leaves
<1>6. k \in 1..t /\ k \in Nat
  BY <1>1, <1>3, <1>4, <1>5, SeqFacts
<1>7. PICK n : n = LiveCount(k)
  OBVIOUS
<1>8. n \in 0..Len(handlers) /\ \A i \in n + 1..Len(handlers) : handlers[i].frameDepth > k
  BY <1>6, <1>7, LiveCountFacts DEF Ready
<1>9. handlers' = SubSeq(handlers, 1, n)
  <2>1. Front(frames) = frames'
    BY DEF Returns, Leaves
  <2>. QED
    BY <1>4, <1>7, <2>1 DEF Returns, Leaves, LiveHandlers
<1>10. IsSeq(handlers') /\ Len(handlers') = n /\ \A i \in 1..n : handlers'[i] = handlers[i]
  BY <1>1, <1>8, <1>9, PrefixFacts
<1>11. ASSUME NEW d \in 1..k PROVE Nest(handlers', d, Base(d))[Len(handlers')] = Within(d)
  <2>1. PICK hs, gs, b : hs = handlers /\ gs = handlers' /\ b = Base(d)
    OBVIOUS
  <2>2. \A i \in n + 1..Len(hs) : hs[i].frameDepth # d
    BY <1>6, <1>8, <2>1
  <2>3. \A i \in n + 1..Len(gs) : gs[i].frameDepth # d
    BY <1>8, <1>10, <2>1
  <2>4. IsSeq(hs) /\ IsSeq(gs) /\ n \in Nat /\ n <= Len(hs) /\ n <= Len(gs) /\ \A i \in 1..n : hs[i] = gs[i]
    BY <1>1, <1>8, <1>10, <2>1
  <2>5. Nest(gs, d, b)[Len(gs)] = Nest(hs, d, b)[Len(hs)]
    BY <2>2, <2>3, <2>4, NestKept
  <2>. QED
    BY <2>1, <2>5 DEF Within
<1>12. IsSeq(stack') /\ Len(stack') = Base(t)
  BY <1>1 DEF Returns, Base
<1>13. CallPlaced(k) /\ k # t /\ k + 1 = t
  BY <1>1, <1>2, <1>6 DEF Ready, Placed, StackPlaced
<1>14. <<frames[k].ip, Base(t) - Base(k), Within(k)>> \in Places(k)
  BY <1>13 DEF CallPlaced, Until
<1>15. frames'[k] = frames[k] /\ Nest(handlers', k, Base(k))[Len(handlers')] = Within(k)
  BY <1>4, <1>6, <1>11
<1>16. \A d \in 1..k - 1 : Nest(handlers', d, Base(d))[Len(handlers')] = Within(d)
  <2>1. \A d \in 1..k - 1 : d \in 1..k
    BY <1>6
  <2>. QED
    BY <1>11, <2>1
<1>17. (\A d \in 1..Len(frames') : CallPlaced(d)') /\ Ordered'
  BY <1>4, <1>6, <1>12, <1>14, <1>15, <1>16, TopPlaced
<1>18. \E m : Keeps(handlers', m)
  BY <1>1, <1>2, <1>4, HandlersAfter DEF Ready
<1>19. \A i \in 1..Len(handlers') : HandlerPlaced(i)'
  BY <1>18, KeptHandlersPlaced
<1>. QED
  BY <1>12, <1>17, <1>19 DEF StackPlaced

\* A call: the caller goes on where the call's result will be on top, and the callee
\* begins with its arguments.
LEMMA CallsPlaced == ASSUME Ready, Effect, Calls PROVE StackPlaced'
<1> DEFINE code == CodeOf(Top.function).code
<1>1. PICK t, new, hs : t = Len(frames) /\ new = t + 1 /\ hs = handlers
  OBVIOUS
<1>2. PICK fn : fn = prog.fns[frames'[new].function]
  OBVIOUS
<1>3. /\ HasInstr /\ Instr.op = "CALL" /\ handlers' = handlers /\ IsSeq(frames')
      /\ frames'[t].ip = Top.ip + 1 /\ frames'[new].ip = 1
      /\ frames'[new].function \in DOMAIN prog.fns /\ frames'[new].hasCallee
      /\ frames'[new].slotOffset = Len(stack) - Instr.arg
      /\ IsSeq(stack') /\ Len(stack') = frames'[new].slotOffset + fn.arity
  BY <1>1, <1>2 DEF Calls, Enters, Plain, Admitted
<1>4. t \in Nat \ {0} /\ t \in 1..t /\ new \in Nat /\ Len(frames') = new
  BY <1>1, RunningFacts DEF Ready, IInv, Calls, Enters
<1>5. prog' = prog
  BY DEF Effect
<1>6. /\ Len(stack) \in Nat /\ Base(t) \in Nat /\ Size \in Nat /\ Len(stack) = Base(t) + Size /\ Taken \in Nat
      /\ Floor(Within(t)) \in Nat /\ Floor(Within(t)) + Taken <= Size /\ Instr.arg \in Nat
      /\ Onward(code, Top.ip, Size, Within(t)) \subseteq Places(t)
  BY <1>1, <1>3, Current DEF Ready
<1>7. Taken = Instr.arg + 1 /\ Left(Instr) = 1
  BY <1>3, Sizes DEF Taken
<1>8. PICK b \in Nat : b = Len(stack) - Instr.arg /\ b = Base(new)'
  BY <1>3, <1>6, <1>7 DEF Base
<1>9. Base(t) < b /\ Base(t) + Floor(Within(t)) <= b /\ b - Base(t) = Size - Taken + 1
  <2>1. PICK low, size, arg, floor \in Nat : low = Base(t) /\ size = Size /\ arg = Instr.arg /\ floor = Floor(Within(t))
    BY <1>6
  <2>2. floor + (arg + 1) <= size /\ b = (low + size) - arg
    BY <1>6, <1>7, <1>8, <2>1
  <2>3. low < b /\ low + floor <= b /\ b - low = size - (arg + 1) + 1
    BY <2>2
  <2>. QED
    BY <1>7, <2>1, <2>3
<1>10. \A d \in 1..t : /\ d \in 1..Len(frames) /\ Base(d)' = Base(d) /\ Places(d)' = Places(d) /\ Base(d) \in Nat
                       /\ frames'[d].function \in DOMAIN prog'.fns /\ frames'[d].hasCallee
                       /\ Within(d)' = Within(d)
  <2>1. \A d \in 1..t : d \in 1..Len(frames) /\ d <= Len(frames')
    BY <1>1, <1>4
  <2>2. \A d \in 1..t : /\ Base(d)' = Base(d) /\ Places(d)' = Places(d) /\ Base(d) \in Nat
                        /\ frames'[d].function \in DOMAIN prog'.fns /\ frames'[d].hasCallee
    BY <2>1, CallsSame
  <2>. QED
    BY <1>3, <2>1, <2>2 DEF Within
<1>11. ASSUME NEW d \in 1..t - 1 PROVE CallPlaced(d)'
  <2>1. d \in 1..t /\ d + 1 \in 1..t /\ d # t /\ d # new /\ d < Len(frames) /\ d < Len(frames')
    BY <1>1, <1>4
  <2>2. frames'[d] = frames[d] /\ CallPlaced(d)
    BY <1>10, <2>1, CallsSame DEF Ready, Placed, StackPlaced
  <2>3. Until(d) = Base(d + 1) /\ Until(d)' = Base(d + 1)
    BY <1>1, <1>4, <1>10, <2>1 DEF Until
  <2>. QED
    BY <1>10, <2>1, <2>2, <2>3 DEF CallPlaced
<1>12. CallPlaced(t)'
  <2>1. <<Top.ip + 1, Size - Taken + 1, Within(t)>> \in Onward(code, Top.ip, Size, Within(t))
    <3>1. Top.ip + 1 \in Successors(code, Top.ip)
      BY PlainFacts DEF Calls, Enters
    <3>. QED
      BY <1>3, <1>7, <3>1 DEF Onward, Instr, Taken
  <2>2. Until(t)' = b
    <3>1. t # Len(frames') /\ new = t + 1
      BY <1>1, <1>4
    <3>. QED
      BY <1>8, <3>1 DEF Until
  <2>3. <<frames'[t].ip, b - Base(t), Within(t)>> \in Places(t)
    BY <1>3, <1>6, <1>9, <2>1
  <2>. QED
    BY <1>4, <1>8, <1>10, <2>2, <2>3 DEF CallPlaced
<1>13. CallPlaced(new)'
  <2>1. fn.arity \in Nat /\ <<1, fn.arity, << >>>> \in Levels(fn.code, fn.arity)
    <3>1. PICK h : h = fn.arity
      OBVIOUS
    <3>2. Stacked(fn, h)
      BY <1>2, <1>3, <3>1, FunctionStacked DEF Ready
    <3>. QED
      BY <3>1, <3>2, StackedFacts
  <2>2. Places(new)' = Levels(fn.code, fn.arity)
    BY <1>2, <1>5 DEF Places
  <2>3. Until(new)' = Len(stack') /\ Len(stack') \in Nat /\ Len(stack') - b = fn.arity
    BY <1>3, <1>4, <1>8, <2>1, SeqFacts DEF Until
  <2>4. Within(new)' = << >>
    <3>1. IsSeq(hs) /\ Len(hs) \in Nat /\ DOMAIN hs = 1..Len(hs)
      BY <1>1, SeqFacts DEF Ready, IInv, TypeOK
    <3>2. \A i \in 1..Len(hs) : hs[i].frameDepth # new
      BY <1>1, <1>4, <3>1 DEF Ready, IInv, HandlersLive
    <3>3. PICK zero \in Nat : zero = 0
      OBVIOUS
    <3>4. zero <= Len(hs) /\ Len(hs) <= Len(hs) /\ \A i \in zero + 1..Len(hs) : hs[i].frameDepth # new
      BY <3>1, <3>2, <3>3
    <3>5. Nest(hs, new, b)[Len(hs)] = Nest(hs, new, b)[zero]
      BY <3>1, <3>4, NestSkips
    <3>6. Nest(hs, new, b)[0] = << >>
      BY <3>1, NestFacts
    <3>7. Within(new)' = Nest(handlers', new, Base(new)')[Len(handlers')]
      BY DEF Within
    <3>. QED
      BY <1>1, <1>3, <1>8, <3>3, <3>5, <3>6, <3>7
  <2>5. <<frames'[new].ip, Len(stack') - b, Within(new)'>> \in Places(new)'
    BY <1>3, <2>1, <2>2, <2>3, <2>4
  <2>. QED
    BY <1>3, <1>5, <1>8, <2>3, <2>5 DEF CallPlaced
<1>14. \A d \in 1..Len(frames') : CallPlaced(d)'
  <2>1. \A d \in 1..new : d \in 1..t - 1 \/ d = t \/ d = new
    BY <1>1, <1>4
  <2>. QED
    BY <1>4, <1>11, <1>12, <1>13, <2>1
<1>15. ASSUME NEW d \in 1..new, NEW e \in 1..new, d < e
       PROVE  Base(d)' < Base(e)' /\ Base(d)' + Floor(Within(d)') <= Base(e)'
  <2>1. d \in 1..t
    BY <1>1, <1>4, <1>15
  <2>2. CASE e \in 1..t
    BY <1>10, <1>15, <2>1, <2>2 DEF Ready, Placed, StackPlaced, Ordered
  <2>3. CASE e = new
    <3>1. CASE d = t
      BY <1>8, <1>9, <1>10, <2>1, <2>3, <3>1
    <3>2. CASE d < t
      <4>1. Base(d) < Base(t) /\ Base(d) + Floor(Within(d)) <= Base(t)
        BY <1>4, <1>10, <2>1, <3>2 DEF Ready, Placed, StackPlaced, Ordered
      <4>2. Base(d)' = Base(d) /\ Within(d)' = Within(d) /\ Base(e)' = b /\ Base(d) \in Nat
        BY <1>8, <1>10, <2>1, <2>3
      <4>3. Base(d) < b /\ Base(t) < b /\ Base(t) \in Nat
        BY <1>6, <1>9, <4>1, <4>2
      <4>4. Floor(Within(d)) \in Int => Base(d) + Floor(Within(d)) <= b
        BY <4>1, <4>2, <4>3
      <4>5. Floor(Within(d)) \in Nat
        <5>1. CallPlaced(d) /\ Stacked(prog.fns[frames[d].function], prog.fns[frames[d].function].arity)
          BY <1>10, <2>1, FunctionStacked DEF Ready, Placed, StackPlaced, CallPlaced
        <5>2. PICK g, h : g = prog.fns[frames[d].function] /\ h = g.arity
          OBVIOUS
        <5>3. <<frames[d].ip, Until(d) - Base(d), Within(d)>> \in Levels(g.code, h) /\ Stacked(g, h)
          BY <5>1, <5>2 DEF CallPlaced, Places
        <5>. QED
          BY <5>3, StackedFacts
      <4>. QED
        BY <4>2, <4>3, <4>4, <4>5
    <3>. QED
      BY <1>4, <2>1, <3>1, <3>2
  <2>. QED
    BY <1>1, <1>4, <2>2, <2>3
<1>16. Ordered'
  BY <1>4, <1>15 DEF Ordered
<1>17. \A i \in 1..Len(handlers') : HandlerPlaced(i)'
  <2>1. Len(frames') \in Nat /\ Len(frames') >= Len(frames)
    BY <1>1, <1>4
  <2>. QED
    BY <1>3, <2>1, SameHandlersKeep, KeptHandlersPlaced
<1>. QED
  BY <1>3, <1>14, <1>16, <1>17 DEF StackPlaced

-----------------------------------------------------------------------------
(* The theorem.                                                            *)

\* Whatever effect a step has, calls and handlers are where the code leads.
LEMMA StepPlaced == ASSUME Ready, Step PROVE Placed'
<1>1. Effect /\ StackEffect
  BY StepEffect, StepStack DEF Ready
<1>2. prog' \in Programs /\ prog'.classes = << >> /\ prog'.files = << >>
  BY <1>1 DEF Effect, Ready, Placed
<1>3. DOMAIN classes' = {}
  <2>1. DOMAIN classes = {}
    BY DEF Ready, Placed
  <2>2. CASE UNCHANGED classes
    BY <2>1, <2>2
  <2>3. CASE \E c : classes' = ResolveParent(c)
    BY <2>1, <2>3 DEF ResolveParent
  <2>. QED
    BY <2>2, <2>3, ClassesSame
<1>4. SUFFICES ASSUME outcome' = Running PROVE StackPlaced'
  BY <1>2, <1>3 DEF Placed
<1>5. ~Ends
  BY <1>4 DEF Ends, Running, Returned, Failed
<1>6. Returns => Front(frames) # << >>
  BY <1>4 DEF Returns, Leaves, Running, Returned
<1>. QED
  BY <1>1, <1>5, <1>6, GoesOnPlaced, CatchesPlaced, CallsPlaced, ReturnsPlaced, OpensPlaced, ClosesPlaced DEF StackEffect

\* A program begins with the first call at the first place of its code.
LEMMA InitPlaced == ASSUME ProgramsStacked, Init, prog.classes = << >>, prog.files = << >> PROVE Placed
<1>1. /\ prog \in Programs /\ handlers = << >> /\ stack = << >> /\ classes = << >> /\ prog.main \in DOMAIN prog.fns
      /\ Len(frames) = 1 /\ frames[1].function = prog.main /\ frames[1].ip = 1
      /\ frames[1].hasCallee /\ frames[1].slotOffset = 0
  BY VMAssumption DEF Init, Frame
<1>2. PICK fn : fn = prog.fns[prog.main]
  OBVIOUS
<1>3. fn.arity = 0 /\ <<1, 0, << >>>> \in Levels(fn.code, fn.arity)
  <2>1. fn.arity = 0
    BY <1>1, <1>2 DEF ProgramsStacked, StackedProgram
  <2>2. PICK h : h = fn.arity + IF prog.main \in Methods(prog) THEN 1 ELSE 0
    OBVIOUS
  <2>3. Stacked(fn, h)
    BY <1>1, <1>2, <2>2 DEF ProgramsStacked, StackedProgram
  <2>4. prog.main \notin Methods(prog)
    BY DEF Methods
  <2>5. h = 0
    BY <2>1, <2>2, <2>4
  <2>6. Stacked(fn, 0)
    BY <2>3, <2>5
  <2>7. <<1, 0, << >>>> \in Levels(fn.code, 0)
    BY <2>6, StackedFacts
  <2>. QED
    BY <2>1, <2>7
<1>4. IsSeq(stack) /\ Len(stack) = 0 /\ IsSeq(handlers) /\ Len(handlers) = 0
  BY <1>1, SomeSeq DEF IsSeq
<1>5. Base(1) = 0 /\ Until(1) = 0 /\ Within(1) = << >> /\ Places(1) = Levels(fn.code, fn.arity)
  <2>1. Nest(handlers, 1, Base(1))[0] = << >>
    BY <1>4, NestFacts
  <2>. QED
    BY <1>1, <1>2, <1>4, <2>1 DEF Base, Until, Within, Places
<1>6. CallPlaced(1)
  BY <1>1, <1>3, <1>5 DEF CallPlaced
<1>7. \A d \in 1..Len(frames) : d = 1
  BY <1>1
<1>8. Ordered
  BY <1>7 DEF Ordered
<1>9. StackPlaced
  BY <1>4, <1>6, <1>7, <1>8 DEF StackPlaced
<1>. QED
  BY <1>1, <1>9 DEF Placed

\* The inductive invariant, of the programs that have neither classes nor imports.
PlainPlaced == prog.classes = << >> /\ prog.files = << >> => Placed

LEMMA StaysPlaced == ASSUME ProgramsStacked PROVE Spec => [](IInv /\ PlainPlaced)
<1>1. Init => PlainPlaced
  BY InitPlaced DEF PlainPlaced
<1>2. ASSUME IInv, PlainPlaced, [Next]_vars PROVE PlainPlaced'
  <2>1. CASE Step
    <3>1. prog' = prog /\ outcome = Running
      BY <1>2, <2>1, StepRuns, StepEffect DEF Effect
    <3>. QED
      BY <1>2, <2>1, <3>1, StepPlaced DEF Ready, PlainPlaced
  <2>2. CASE UNCHANGED <<prog, stack, frames, handlers, outcome, classes>>
    BY <1>2, <2>2 DEF PlainPlaced, Placed, StackPlaced, Ordered, CallPlaced, HandlerPlaced, Base, Until, Within, Places
  <2>. QED
    BY <1>2, <2>1, <2>2 DEF Next, Ended, Clock, vars, control, data
<1>. QED
  BY <1>1, <1>2, Invariance, PTL DEF Spec

\* If the code is stacked, then whenever a statement of a program without classes and
\* imports begins, its call has the locals around it on the operand stack and nothing
\* else: however the program branched, broke, continued, returned, threw or caught
\* before, no value is left behind, and none is missing.
THEOREM StackAsCompiled == ASSUME ProgramsStacked PROVE Spec => [](prog.classes = << >> => StatementStack)
<1>1. IInv /\ PlainPlaced => (prog.classes = << >> => StatementStack)
  <2>1. SUFFICES ASSUME IInv, Placed, NEW m \in Here PROVE Len(stack) = Top.slotOffset + m.locals
    BY DEF StatementStack, PlainPlaced
  <2>2. outcome = Running /\ m \in CodeOf(Top.function).marks /\ Top.ip = m.ip
    BY <2>1 DEF Here
  <2>3. Len(stack) = Base(Len(frames)) + Size /\ Size = m.locals
    BY <2>1, <2>2, Current
  <2>4. Base(Len(frames)) = Top.slotOffset
    BY DEF Base, Top, Last
  <2>. QED
    BY <2>3, <2>4
<1>. QED
  BY <1>1, StaysPlaced, PTL

\* If the code is stacked, then no instruction of such a program ever takes an operand
\* of a caller, or reads or captures a slot that is not there: pop() on an empty stack
\* and a slot out of range never come up, and opClosure stays inside the stack.
THEOREM ValuesStayOwn ==
  ASSUME ProgramsStacked PROVE Spec => [](prog.classes = << >> /\ prog.files = << >> => OwnValues)
<1>1. IInv /\ PlainPlaced => (prog.classes = << >> /\ prog.files = << >> => OwnValues)
  <2>1. SUFFICES ASSUME IInv, Placed, HasInstr, NEW n, n = Len(stack) - Top.slotOffset
                 PROVE  Operands(Instr) <= n /\ \A k \in Slots(Instr) : k < n
    BY DEF OwnValues, PlainPlaced
  <2>2. PICK t : t = Len(frames)
    OBVIOUS
  <2>3. t \in 1..Len(frames) /\ Top = frames[t] /\ outcome = Running
    BY <2>1, <2>2, RunningFacts DEF HasInstr, IInv, Top, Last
  <2>4. CallPlaced(t)
    BY <2>1, <2>3 DEF Placed, StackPlaced
  <2>5. PICK fn, h : fn = CodeOf(Top.function) /\ h = fn.arity
    OBVIOUS
  <2>6. Stacked(fn, h) /\ <<Top.ip, n, Within(t)>> \in Levels(fn.code, h)
    <3>1. Top.function \in DOMAIN prog.fns /\ <<Top.ip, n, Within(t)>> \in Levels(fn.code, fn.arity)
      BY <2>1, <2>2, <2>3, <2>4, <2>5 DEF CallPlaced, Places, Until, Base, CodeOf
    <3>. QED
      BY <2>1, <2>5, <3>1, FunctionStacked DEF CodeOf
  <2>7. n \in Nat /\ Floor(Within(t)) \in Nat /\ Supplied(Instr, n, Within(t))
    BY <2>1, <2>5, <2>6, StackedFacts DEF HasInstr, Instr
  <2>. QED
    BY <2>7 DEF Supplied
<1>. QED
  BY <1>1, StaysPlaced, PTL

=============================================================================
