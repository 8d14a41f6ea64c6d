------------------------------ MODULE Evaluator ------------------------------
(***************************************************************************)
(* evaluator/evaluator.{h,cpp}, environment/environment.cpp: the tree      *)
(* walking back end.                                                       *)
(*                                                                         *)
(* eval is a function from the state s of the evaluator to the state it    *)
(* leaves and a completion c: a value, Nothing (nullptr), one of the       *)
(* control signals, or an exception.  The state holds the environments,    *)
(* the heap, the output, importedFiles and the values being yielded.       *)
(* A function value carries its node and its environment, a class value    *)
(* the address of its ClassDef, an instance that of its fields and of its  *)
(* class.  Not modelled: the clock of the limiter and the builtins that    *)
(* call back (evalHigherOrderCall), which the VM has not.                  *)
(***************************************************************************)
EXTENDS Generators

CONSTANTS
  MAX_RECURSION_DEPTH,   \* how many calls of eval may be open
  HasLimiter,            \* whether rounds of loops are counted
  MaxLoopIterations      \* and how many of them are allowed

Nothing        == <<"nothing">>
BreakSignal    == <<"break">>
ContinueSignal == <<"continue">>
ReturnValue(v) == <<"return", v>>
Exception(v)   == <<"throw", v>>

R(s, c)     == [s |-> s, c |-> c]
Raise(s, m) == R(s, Exception(Str(<<m>>)))
Lift(s, o)  == IF o.ok THEN R(s, o.val) ELSE R(s, Exception(o.val))
Thrown(r)   == Tag(r.c) = "throw"
Unwrap(c)   == IF Tag(c) = "return" THEN c[2] ELSE c     \* unwrapReturnValue

\* A call of eval, of whatever node: one more is open until it ends.
TooDeep(s)  == s.depth = MAX_RECURSION_DEPTH
Deeper(s)   == [s EXCEPT !.depth = @ + 1]
Back(s, r)  == [r EXCEPT !.s.depth = s.depth]
Limited(s)  == Raise(s, "recursion-limit")

\* incrementLoopCounter, at the start of a round.
Round(s, F(_)) ==
  LET t == [s EXCEPT !.rounds = @ + 1]
  IN  IF ~HasLimiter THEN F(s) ELSE IF t.rounds > MaxLoopIterations THEN Raise(t, "loop-limit") ELSE F(t)

-----------------------------------------------------------------------------
(* Environments: a chain of scopes, each with its variables, the optional  *)
(* ones among them and the declared types; number 1 is the global one.     *)

NewEnv(outer) == [store |-> << >>, optionals |-> << >>, types |-> << >>, outer |-> outer]

\* The nearest scope from env outwards that has name in its table, or 0.
RECURSIVE Holder(_, _, _, _)
Holder(s, env, table, name) ==
  IF env = 0 \/ name \in DOMAIN s.envs[env][table] THEN env
  ELSE Holder(s, s.envs[env].outer, table, name)

Has(s, env, table, name) == Holder(s, env, table, name) # 0
Get(s, env, table, name) == s.envs[Holder(s, env, table, name)][table][name]

SetIn(s, env, table, name, v) == [s EXCEPT !.envs[env][table] = (name :> v) @@ @]
SetVar(s, env, name, v)       == SetIn(s, env, "store", name, v)
Update(s, env, name, v) ==
  LET at == Holder(s, env, "store", name) IN IF at = 0 THEN s ELSE SetVar(s, at, name, v)

\* A new scope inside env; it is the last one of the state.
Enclosed(s, env) == [s EXCEPT !.envs = Append(@, NewEnv(env))]
Newest(s)        == Len(s.envs)

RECURSIVE Bind(_, _, _, _)
Bind(s, env, params, args) ==
  IF params = << >> THEN s
  ELSE LET p == Head(params)
           t == SetVar(s, env, p.name, Head(args))
       IN  Bind(IF p.type.optional THEN SetIn(t, env, "optionals", p.name, TRUE) ELSE t,
                env, Tail(params), Tail(args))

-----------------------------------------------------------------------------
(* Types.                                                                  *)

\* typeCheck of a value against a type token; "any" is no token at all.
typeCheck(s, type, c) ==
  LET v == Unwrap(c)
  IN  /\ type.type # "any" /\ c # Nothing
      /\ \/ v = Null
         \/ Tag(v) = type.type
         \/ Tag(v) = "inst" /\ s.heap[v[3]].name = type.type
         \/ type.type = "function" /\ Tag(v) \in {"fn", "builtin"}

RECURSIVE Descends(_, _, _)
Descends(s, class, name) == /\ class # 0
                            /\ \/ s.heap[class].name = name
                               \/ Descends(s, s.heap[class].parent, name)

NamesClass(s, env, type) == /\ type.type \notin BasicTypes /\ Has(s, env, "store", type.type)
                            /\ Tag(Get(s, env, "store", type.type)) = "class"

DeclaredTypeOk(s, env, type, v) ==
  IF v = Null THEN type.optional
  ELSE IF NamesClass(s, env, type) THEN Tag(v) = "inst" /\ Descends(s, v[3], type.type)
  ELSE typeCheck(s, type, v)

Declared(s, env, type, name, v) ==
  LET t == SetVar(s, env, name, v)
      u == IF type.optional THEN SetIn(t, env, "optionals", name, TRUE) ELSE t
      of == tokenTypeToObjectType(type.type)
  IN  IF of = "any" THEN u ELSE SetIn(u, env, "types", name, of)

\* An assignment keeps the declared type, or else the type of the value before.
AssignmentOk(s, env, name, before, v) ==
  IF v = Null THEN Has(s, env, "optionals", name)
  ELSE IF Has(s, env, "types", name) THEN Tag(v) = Get(s, env, "types", name)
  ELSE before = Null \/ Tag(v) = Tag(before)

-----------------------------------------------------------------------------
(* Builtins and collections; builtins are external (see VM).               *)

Builtins == {"print", "length", "push"}

SizeOf(s, v) == CASE Tag(v) = "str" -> Len(v[2])
                  [] Tag(v) = "array" -> Len(s.heap[v[2]].elements)
                  [] OTHER -> Cardinality(DOMAIN s.heap[v[2]].pairs)

CallBuiltin(s, b, args) ==
  CASE b = "print" ->
         R([s EXCEPT !.out = Append(@, FlattenSeq([i \in DOMAIN args |-> Display(args[i])]))], Null)
    [] b = "length" /\ Len(args) = 1 /\ Tag(args[1]) \in {"str", "array", "map"} ->
         R(s, IntVal(SizeOf(s, args[1])))
    [] b = "push" /\ Len(args) = 2 /\ Tag(args[1]) = "array" ->
         R([s EXCEPT !.heap[args[1][2]].elements = Append(@, args[2])], Null)
    [] OTHER -> Raise(s, "builtin-arguments")

Allocate(s, tag, object) == R([s EXCEPT !.heap = Append(@, object)], Ref(tag, Len(s.heap) + 1))

evalIndexExpression(s, col, i) ==
  Lift(s, CASE Tag(col) = "array" -> ElementAt(s.heap[col[2]].elements, i, LAMBDA x : x)
            [] Tag(col) = "str"   -> ElementAt(col[2], i, LAMBDA x : Str(<<x>>))
            [] Tag(col) = "tuple" -> IF IsInt(i) /\ i[2] >= 0 THEN ElementAt(col[2], i, LAMBDA x : x)
                                     ELSE Throws("index-range")
            [] Tag(col) = "map"   -> IF Tag(i) # "str" THEN Throws("map-key")
                                     ELSE IF i \notin DOMAIN s.heap[col[2]].pairs THEN Throws("no-such-key")
                                     ELSE Ok(s.heap[col[2]].pairs[i])
            [] OTHER              -> Throws("not-indexable"))

evalIndexAssignment(s, col, i, v) ==
  CASE Tag(col) = "array" ->
         LET at == ElementAt(s.heap[col[2]].elements, i, LAMBDA x : x)
             p  == Position(i[2], Len(s.heap[col[2]].elements))[1]
         IN  IF at.ok THEN R([s EXCEPT !.heap[col[2]].elements[p] = v], v) ELSE Lift(s, at)
    [] Tag(col) = "map" -> IF Tag(i) # "str" THEN Raise(s, "map-key")
                           ELSE R([s EXCEPT !.heap[col[2]].pairs = (i :> v) @@ @], v)
    [] OTHER -> Raise(s, "not-assignable")

evalSliceExpression(s, col, lo, hi) ==
  IF Tag(col) \notin {"array", "str"} \/ \E b \in {lo, hi} : b # None /\ ~IsInt(b[1])
  THEN Raise(s, "slice")
  ELSE IF Tag(col) = "str" THEN R(s, Str(SliceOf(col[2], lo, hi)))
  ELSE Allocate(s, "array", [elements |-> SliceOf(s.heap[col[2]].elements, lo, hi)])

-----------------------------------------------------------------------------
(* Expressions.                                                            *)

RECURSIVE eval(_, _, _)          \* of an expression
RECURSIVE evalEach(_, _, _, _)   \* of a list of expressions
RECURSIVE evalBlock(_, _, _, _)  \* of statements
RECURSIVE evalStatement(_, _, _, _)

\* Evaluate es in order; the completion is the exception that ended it or the
\* tuple of their values.
evalEach(es, env, s, vals) ==
  IF es = << >> THEN R(s, TupleVal(vals))
  ELSE LET r == eval(Head(es), env, s)
       IN  IF Thrown(r) THEN r ELSE evalEach(Tail(es), env, r.s, Append(vals, r.c))

Then(r, F(_, _)) == IF Thrown(r) THEN r ELSE F(r.s, r.c)
\* The values of es, then F of the state and the sequence of values.
ThenAll(es, env, s, F(_, _)) == Then(evalEach(es, env, s, << >>), LAMBDA t, c : F(t, c[2]))

\* && and ||: shortcut is the left value that decides.
evalLogical(e, env, s, shortcut) ==
  Then(eval(e.left, env, s), LAMBDA s1, l :
    IF Tag(l) # "bool" THEN Raise(s1, "logical-type")
    ELSE IF l[2] = shortcut THEN R(s1, Bool(shortcut))
    ELSE Then(eval(e.right, env, s1), LAMBDA s2, r :
           IF Tag(r) # "bool" THEN Raise(s2, "logical-type") ELSE R(s2, r)))

evalInfix(e, env, s) ==
  CASE e.op = "AND" -> evalLogical(e, env, s, FALSE)
    [] e.op = "OR"  -> evalLogical(e, env, s, TRUE)
    [] OTHER        -> ThenAll(<<e.left, e.right>>, env, s,
                               LAMBDA t, v : Lift(t, binaryOp(e.op, v[1], v[2])))

evalIdentifier(e, env, s) ==
  IF Has(s, env, "store", e.name) THEN R(s, Get(s, env, "store", e.name))
  ELSE IF e.name \in Builtins THEN R(s, Builtin(e.name))
  ELSE Raise(s, "unknown-name")

evalPostfix(e, env, s) ==
  IF ~Has(s, env, "store", e.name) THEN Raise(s, "unknown-name")
  ELSE LET before == Get(s, env, "store", e.name)
           after  == add(before[2], IF e.op = "ADD" THEN 1 ELSE -1)
       IN  IF ~IsInt(before) THEN Raise(s, "postfix-type")
           ELSE IF after = None THEN Raise(s, "overflow")
           ELSE R(Update(s, env, e.name, IntVal(after[1])), before)

\* Missing arguments take their defaults, evaluated where the function was
\* defined; a parameter without one leaves the list short.
WithDefaults(fn, env, s, args) ==
  LET missing == SubSeq(fn.parameters, Len(args) + 1, Len(fn.parameters))
  IN  evalEach(FlattenSeq([i \in DOMAIN missing |->
                 IF missing[i].default = None THEN << >> ELSE <<Lit(missing[i].default[1])>>]), env, s, args)

ArgumentOk(s, p, v) == IF v = Null THEN p.type.optional ELSE typeCheck(s, p.type, v)

\* The result of a call: what the body returned, or the value of its last
\* statement, of the declared type.
ReturnOf(s, returns, c) ==
  IF returns.type = "any" /\ c = Nothing THEN R(s, Nothing)
  ELSE IF returns.optional /\ Unwrap(c) = Null THEN R(s, Null)
  ELSE IF typeCheck(s, returns, c) THEN R(s, Unwrap(c))
  ELSE Raise(s, "return-type")

\* A generator's body runs at once; the values it yields are collected in the
\* last of the lists s.yields.
RunGenerator(fn, s) ==
  LET r    == evalBlock(fn.body, Newest(s), [s EXCEPT !.yields = Append(@, << >>)], TRUE)
      left == [r.s EXCEPT !.yields = Front(@)]
  IN  IF Thrown(r) THEN R(left, r.c)
      ELSE Allocate(left, "gen", [elements |-> Last(r.s.yields), taken |-> 0])

applyFunction(s, f, given) ==
  CASE Tag(f) = "builtin" -> CallBuiltin(s, f[2], given)
    [] Tag(f) \notin {"builtin", "fn"} -> Raise(s, "not-callable")
    [] Tag(f) = "fn" ->
         LET fn == f[2]
             Run(t, args) ==
               IF Len(args) # Len(fn.parameters) THEN Raise(t, "argument-count")
               ELSE IF \E i \in DOMAIN args : ~ArgumentOk(t, fn.parameters[i], args[i])
                    THEN Raise(t, "argument-type")
               ELSE LET u == Enclosed(t, f[3])
                        v == Bind(u, Newest(u), fn.parameters, args)
                    IN  IF containsYield(fn.body) THEN RunGenerator(fn, v)
                        ELSE Then(evalBlock(fn.body, Newest(v), v, FALSE),
                                  LAMBDA w, c : ReturnOf(w, fn.returns, c))
         IN  Then(WithDefaults(fn, f[3], s, given), LAMBDA t, c : Run(t, c[2]))

\* The fields of a class and of its ancestors.
RECURSIVE AllFields(_, _)
AllFields(s, class) == IF class = 0 THEN {} ELSE s.heap[class].fields \cup AllFields(s, s.heap[class].parent)

instantiateClass(s, env, class, args) ==
  LET ctor == s.heap[class].ctor
      new  == Allocate(s, "inst", [fields |-> [x \in AllFields(s, class) |-> Null]])
      made == R(new.s, Append(new.c, class))
      u    == Enclosed(made.s, env)
      self == SetVar(u, Newest(u), "self", made.c)
  IN  IF ctor = None THEN made
      ELSE IF Len(args) # Len(ctor[1].parameters) THEN Raise(made.s, "argument-count")
      ELSE IF \E i \in DOMAIN args : ~typeCheck(s, ctor[1].parameters[i].type, args[i])
           THEN Raise(made.s, "argument-type")
      ELSE Then(evalBlock(ctor[1].body, Newest(u),
                          Bind(self, Newest(u), ctor[1].parameters, args), FALSE),
                LAMBDA t, c : R(t, made.c))

\* A code point counts as one byte here.
evalMemberAccess(s, obj, member) ==
  IF member = "length" /\ Tag(obj) \in {"str", "array", "map"} THEN R(s, IntVal(SizeOf(s, obj)))
  ELSE IF Tag(obj) # "inst" THEN Raise(s, "not-an-instance")
  ELSE IF member \notin DOMAIN s.heap[obj[2]].fields THEN Raise(s, "no-such-field")
  ELSE R(s, s.heap[obj[2]].fields[member])

\* A method runs in the environment its class was defined in, plus the object
\* and, when the class has a parent, the object seen as one of the parent.
Method(s, obj, f, given) ==
  LET fn     == f[2]
      parent == s.heap[obj[3]].parent
      Run(t, args) ==
        IF Len(args) # Len(fn.parameters) THEN Raise(t, "argument-count")
        ELSE IF \E i \in DOMAIN args : ~typeCheck(t, fn.parameters[i].type, args[i])
             THEN Raise(t, "argument-type")
        ELSE LET u == Enclosed(t, f[3])
                 v == SetVar(u, Newest(u), "self", obj)
                 w == IF parent = 0 THEN v ELSE SetVar(v, Newest(u), "parent", <<"inst", obj[2], parent>>)
                 bare == [i \in DOMAIN args |-> [fn.parameters[i] EXCEPT !.type.optional = FALSE]]
             IN  Then(evalBlock(fn.body, Newest(u), Bind(w, Newest(u), bare, args), FALSE),
                      LAMBDA x, c : ReturnOf(x, [fn.returns EXCEPT !.optional = FALSE], c))
  IN  Then(WithDefaults(fn, f[3], s, given), LAMBDA t, c : Run(t, c[2]))

evalMethodCall(s, obj, name, args) ==
  IF Tag(obj) \in {"str", "array", "map"} /\ name \in Builtins THEN CallBuiltin(s, name, <<obj>> \o args)
  ELSE IF Tag(obj) # "inst" THEN Raise(s, "not-an-instance")
  ELSE LET methods == s.heap[obj[3]].methods
       IN  IF name \notin DOMAIN methods THEN Raise(s, "unknown-method")
           ELSE Method(s, obj, methods[name], args)

MapOf(s, kvs) ==
  LET n       == Len(kvs) \div 2
      last(k) == CHOOSE i \in 1..n : kvs[2 * i - 1] = k /\ \A j \in i + 1..n : kvs[2 * j - 1] # k
  IN  IF \E i \in 1..n : Tag(kvs[2 * i - 1]) # "str" THEN Raise(s, "map-key")
      ELSE Allocate(s, "map", [pairs |-> [k \in {kvs[2 * i - 1] : i \in 1..n} |-> kvs[2 * last(k)]]])

eval(e, env, before) ==
  IF TooDeep(before) THEN Limited(before) ELSE LET s == Deeper(before) IN Back(before,
  CASE e.node = "Literal"      -> R(s, e.value)
    [] e.node = "Identifier"   -> evalIdentifier(e, env, s)
    [] e.node = "Infix"        -> evalInfix(e, env, s)
    [] e.node = "Prefix"       -> Then(eval(e.right, env, s), LAMBDA t, v :
                                       Lift(t, IF e.op = "NEGATE" THEN Negate(v) ELSE Not(v)))
    [] e.node = "Postfix"      -> evalPostfix(e, env, s)
    [] e.node = "Call"         -> ThenAll(<<e.function>> \o e.arguments, env, s, LAMBDA t, v :
                                    IF Tag(v[1]) = "class" THEN instantiateClass(t, env, v[1][2], Tail(v))
                                    ELSE applyFunction(t, v[1], Tail(v)))
    [] e.node = "MemberAccess" -> Then(eval(e.object, env, s), LAMBDA t, v : evalMemberAccess(t, v, e.member))
    [] e.node = "MethodCall"   -> ThenAll(<<e.object>> \o e.arguments, env, s,
                                          LAMBDA t, v : evalMethodCall(t, v[1], e.method, Tail(v)))
    [] e.node = "Lambda"       -> R(s, <<"fn", Function("", e.parameters, e.returns, <<Return(e.body)>>), env>>)
    [] e.node = "Index"        -> ThenAll(<<e.name, e.index>>, env, s,
                                          LAMBDA t, v : evalIndexExpression(t, v[1], v[2]))
    [] e.node = "Slice"        -> ThenAll(<<e.object>> \o e.start \o e.end, env, s, LAMBDA t, v :
                                    evalSliceExpression(t, v[1],
                                      IF e.start = None THEN None ELSE Some(v[2]),
                                      IF e.end = None THEN None ELSE Some(Last(v))))
    [] e.node = "Array"        -> ThenAll(e.elements, env, s, LAMBDA t, v : Allocate(t, "array", [elements |-> v]))
    [] e.node = "Tuple"        -> evalEach(e.elements, env, s, << >>)
    [] e.node = "HashMap"      -> ThenAll(e.entries, env, s, MapOf)
    [] e.node = "Interpolated" -> ThenAll(e.segments, env, s, LAMBDA t, v :
                                    R(t, Str(FlattenSeq([i \in DOMAIN v |-> Display(v[i])])))))

-----------------------------------------------------------------------------
(* Statements.  The flag gen tells evalGeneratorBody, which collects the   *)
(* values yielded and treats branches and loops of its own, from eval.     *)

\* A body in a scope of its own, with some variables bound there.
InScope(body, env, s, bound, gen) ==
  LET u == Enclosed(s, env)
  IN  evalBlock(body, Newest(u), [u EXCEPT !.envs[Newest(u)].store = bound], gen)

Stops(c) == Tag(c) \in {"return", "break", "continue"}

evalBlock(stmts, env, s, gen) ==
  LET RECURSIVE run(_, _, _)
      run(t, i, last) ==
        IF i > Len(stmts) THEN R(t, last)
        ELSE Then(evalStatement(stmts[i], env, t, gen),
                  LAMBDA u, c : IF Stops(c) THEN R(u, c) ELSE run(u, i + 1, c))
  IN  IF TooDeep(s) THEN Limited(s) ELSE Back(s, run(Deeper(s), 1, Nothing))

evalInitialization(n, env, s) ==
  Then(eval(n.value, env, s), LAMBDA t, v :
    IF Has(t, env, "store", n.name) THEN Raise(t, "already-declared")
    ELSE IF ~DeclaredTypeOk(t, env, n.type, v) THEN Raise(t, "declared-type")
    ELSE R(Declared(t, env, n.type, n.name, v), v))

evalAssignment(n, env, s) ==
  IF ~Has(s, env, "store", n.name) THEN Raise(s, "unknown-name")
  ELSE Then(eval(n.value, env, s), LAMBDA t, v :
         IF AssignmentOk(t, env, n.name, Get(s, env, "store", n.name), v) THEN R(Update(t, env, n.name, v), v)
         ELSE Raise(t, "assigned-type"))

evalSelfAssignment(n, env, s) ==
  IF ~Has(s, env, "store", "self") \/ Tag(Get(s, env, "store", "self")) # "inst" THEN Raise(s, "no-self")
  ELSE Then(eval(n.value, env, s), LAMBDA t, v :
         R([t EXCEPT !.heap[Get(s, env, "store", "self")[2]].fields = (n.member :> v) @@ @], v))

\* Both the operand and its type are those from before the right side ran.
evalCompound(n, env, s) ==
  IF ~Has(s, env, "store", n.name) THEN Raise(s, "unknown-name")
  ELSE Then(eval(n.value, env, s), LAMBDA t, v :
         LET before == Get(s, env, "store", n.name)
             res    == binaryOp(n.op, before, v)
         IN  IF ~res.ok \/ Tag(res.val) = Tag(before)
             THEN Lift(IF res.ok THEN Update(t, env, n.name, res.val) ELSE t, res)
             ELSE Raise(t, "assigned-type"))

\* A condition that is no boolean selects neither branch.
evalIf(n, env, s, gen) ==
  Then(eval(n.condition, env, s), LAMBDA t, c :
    LET branch == IF c = Bool(TRUE) THEN Some(n.consequence)
                  ELSE IF c = Bool(FALSE) THEN n.otherwise ELSE None
    IN  IF branch = None THEN R(t, Nothing)
        ELSE IF gen THEN evalBlock(branch[1], env, t, gen)
        ELSE InScope(branch[1], env, t, << >>, gen))

\* After an iteration: a break ends the loop, a return and an exception
\* leave it, anything else goes on.
AfterBody(r, More(_, _)) ==
  IF Thrown(r) \/ Tag(r.c) = "return" THEN r
  ELSE IF r.c = BreakSignal THEN R(r.s, Nothing)
  ELSE More(r.s, r.c)

\* The completion of a loop is that of its last iteration.
RECURSIVE evalWhile(_, _, _, _, _)
evalWhile(n, env, s, gen, last) ==
  Then(Round(s, LAMBDA t : eval(n.condition, env, t)), LAMBDA t, c :
    IF Tag(c) # "bool" THEN Raise(t, "condition-type")
    ELSE IF ~c[2] THEN R(t, last)
    ELSE AfterBody(InScope(n.body, env, t, << >>, gen), LAMBDA u, d : evalWhile(n, env, u, gen, d)))

RECURSIVE countUp(_, _, _, _, _, _, _)
countUp(n, env, s, gen, i, end, last) ==
  IF i >= end THEN R(s, last)
  ELSE AfterBody(Round(s, LAMBDA t : InScope(n.body, env, t, n.name :> IntVal(i), gen)),
                 LAMBDA t, c : countUp(n, env, t, gen, i + 1, end, c))

evalForRange(n, env, s, gen) ==
  ThenAll(<<n.start, n.end>>, env, s, LAMBDA t, v :
    IF ~IsInt(v[1]) \/ ~IsInt(v[2]) THEN Raise(t, "range-type")
    ELSE countUp(n, env, t, gen, v[1][2], v[2][2], Nothing))

\* The elements a loop walks; a body that grows the array it walks is
\* undefined behaviour in the program and not in the models.
ElementsOf(s, it) == IF Tag(it) = "str" THEN [i \in DOMAIN it[2] |-> Str(<<it[2][i]>>)]
                     ELSE s.heap[it[2]].elements

\* A generator remembers what was taken from it; inside a generator's body
\* the element type is not checked.
RECURSIVE walk(_, _, _, _, _, _, _)
walk(n, env, s, gen, it, i, last) ==
  IF i > Len(ElementsOf(s, it)) THEN R(s, last)
  ELSE LET x        == ElementsOf(s, it)[i]
           taken(t) == IF Tag(it) = "gen" THEN [t EXCEPT !.heap[it[2]].taken = i] ELSE t
           body(t)  == IF ~gen /\ ~typeCheck(t, n.elementType, x) THEN Raise(t, "element-type")
                       ELSE InScope(n.body, env, t, n.name :> x, gen)
       IN  AfterBody(Round(s, LAMBDA t : body(taken(t))), LAMBDA u, c : walk(n, env, u, gen, it, i + 1, c))

evalForEach(n, env, s, gen) ==
  Then(eval(n.iterable, env, s), LAMBDA t, it :
    IF Tag(it) \in (IF gen THEN {"array"} ELSE {"array", "str", "gen"})
    THEN walk(n, env, t, gen, it, IF Tag(it) = "gen" THEN t.heap[it[2]].taken + 1 ELSE 1, Nothing)
    ELSE IF gen THEN R(t, Nothing) ELSE Raise(t, "not-iterable"))

evalTryCatch(n, env, s) ==
  LET r == InScope(n.tryBody, env, s, << >>, FALSE)
  IN  IF Thrown(r) THEN InScope(n.catchBody, env, r.s, n.errorName :> r.c[2], FALSE) ELSE r

\* Of the types a value pattern tells apart, only these have equal texts.
Matches(subject, pattern, vals) ==
  CASE pattern.kind = "range" -> RangeCheck(subject, vals[1], vals[2])[2]
    [] pattern.kind = "type"  -> pattern.type \in BasicTypes /\ Tag(subject) = pattern.type
    [] pattern.kind = "value" -> Tag(vals[1]) = Tag(subject) /\ Display(vals[1]) = Display(subject)

PatternValues(p) == CASE p.kind = "range" -> <<p.start, p.end>>
                      [] p.kind = "type"  -> << >>
                      [] p.kind = "value" -> <<p.value>>

RECURSIVE tryCase(_, _, _, _, _)
tryCase(n, env, s, subject, i) ==
  IF i > Len(n.cases)
  THEN IF n.default = None THEN R(s, Nothing) ELSE InScope(n.default[1], env, s, << >>, FALSE)
  ELSE LET case == n.cases[i]
           body(t)  == InScope(case.body, env, t, << >>, FALSE)
           guarded(t) == LET u == Enclosed(t, env)
                         IN  Then(eval(case.guard[1], Newest(u), u), LAMBDA w, g :
                               IF g = Bool(TRUE) THEN body(w) ELSE tryCase(n, env, w, subject, i + 1))
       IN  ThenAll(PatternValues(case.pattern), env, s, LAMBDA t, v :
             IF ~Matches(subject, case.pattern, v) THEN tryCase(n, env, t, subject, i + 1)
             ELSE IF case.guard = None THEN body(t) ELSE guarded(t))

evalMatch(n, env, s) == Then(eval(n.subject, env, s), LAMBDA t, v : tryCase(n, env, t, v, 1))

\* A class copies its parent's members; it takes the parent's constructor over
\* when that one has parameters.
evalClass(n, env, s) ==
  LET parent == IF n.parentName = "" THEN Some(0)
                ELSE IF ~Has(s, env, "store", n.parentName) THEN None
                ELSE LET v == Get(s, env, "store", n.parentName)
                     IN  IF Tag(v) = "class" THEN Some(v[2]) ELSE None
      root   == [fields |-> {}, ctor |-> None, methods |-> << >>]
      from   == IF parent = Some(0) THEN root ELSE s.heap[parent[1]]
      own    == [m \in {n.methods[i].name : i \in DOMAIN n.methods} |->
                   <<"fn", CHOOSE f \in Range(n.methods) : f.name = m, env>>]
      ctor   == IF n.ctor # None THEN n.ctor
                ELSE IF from.ctor # None /\ from.ctor[1].parameters # << >> THEN from.ctor ELSE None
      made   == Allocate(s, "class", [name |-> n.name, parent |-> parent[1], ctor |-> ctor,
                                      fields |-> DOMAIN n.fields \cup from.fields, methods |-> own @@ from.methods])
  IN  IF parent = None THEN Raise(s, "parent-class") ELSE R(SetVar(made.s, env, n.name, made.c), made.c)

\* The statements of a file: only a return ends them early.
RECURSIVE runFile(_, _, _, _)
runFile(stmts, env, s, last) ==
  IF stmts = << >> THEN R(s, last)
  ELSE Then(evalStatement(Head(stmts), env, s, FALSE), LAMBDA t, c :
         IF Tag(c) = "return" THEN R(t, Unwrap(c)) ELSE runFile(Tail(stmts), env, t, c))

\* A file counts as imported before it is opened.
evalImport(name, env, s) ==
  LET t == [s EXCEPT !.imported = @ \cup {name}]
  IN  IF name \notin DOMAIN s.sources THEN Raise(s, "import-path")
      ELSE IF name \in s.imported THEN R(s, Nothing)
      ELSE IF s.sources[name] = None THEN Raise(t, "import-failed")
      ELSE runFile(s.sources[name][1], env, t, Nothing)

evalYield(n, env, s, gen) ==
  IF ~gen THEN Raise(s, "yield-outside")
  ELSE Then(eval(n.expression, env, s), LAMBDA t, v :
         R([t EXCEPT !.yields[Len(t.yields)] = Append(@, v)], Nothing))

\* A statement of a generator that evalGeneratorBody has no case for goes on to
\* eval, one call deeper.
Entered(s, n, gen) == IF gen /\ n.node \notin {"Yield", "If", "While", "ForRange", "ForEach"} THEN Deeper(s) ELSE s

evalStatement(n, env, before, gen) ==
  IF TooDeep(before) \/ TooDeep(Entered(before, n, gen)) THEN Limited(before)
  ELSE LET s == Deeper(Entered(before, n, gen)) IN Back(before,
  CASE n.node = "Expression"      -> eval(n.expression, env, s)
    [] n.node = "Initialization"  -> evalInitialization(n, env, s)
    [] n.node = "Assignment"      -> evalAssignment(n, env, s)
    [] n.node = "SelfAssignment"  -> evalSelfAssignment(n, env, s)
    [] n.node = "IndexAssignment" -> ThenAll(<<n.collection, n.index, n.value>>, env, s,
                                       LAMBDA t, v : evalIndexAssignment(t, v[1], v[2], v[3]))
    [] n.node = "Compound"        -> evalCompound(n, env, s)
    [] n.node = "If"              -> evalIf(n, env, s, gen)
    [] n.node = "While"           -> evalWhile(n, env, s, gen, Nothing)
    [] n.node = "ForEach"         -> evalForEach(n, env, s, gen)
    [] n.node = "ForRange"        -> evalForRange(n, env, s, gen)
    [] n.node = "TryCatch"        -> evalTryCatch(n, env, s)
    [] n.node = "Break"           -> R(s, BreakSignal)
    [] n.node = "Continue"        -> R(s, ContinueSignal)
    [] n.node = "Return"          -> Then(eval(n.expression, env, s), LAMBDA t, v : R(t, ReturnValue(v)))
    [] n.node = "Yield"           -> evalYield(n, env, s, gen)
    [] n.node = "Match"           -> evalMatch(n, env, s)
    [] n.node = "Function"        -> LET f == <<"fn", n, env>> IN R(SetVar(s, env, n.name, f), f)
    [] n.node = "Class"           -> evalClass(n, env, s)
    [] n.node = "Import"          -> evalImport(n.filename, env, s))

\* What a run of the program prints and how it ends.
Evaluate(program, sources) ==
  LET s0 == [envs |-> <<NewEnv(0)>>, heap |-> << >>, out |-> << >>, imported |-> {},
             yields |-> << >>, sources |-> sources, depth |-> 1, rounds |-> 0]
      r  == runFile(program, 1, s0, Nothing)
  IN  [out |-> r.s.out, ended |-> IF Thrown(r) THEN "failed" ELSE "returned"]

=============================================================================
