----------------------------- MODULE TypeChecker -----------------------------
(***************************************************************************)
(* analyzer/type_checker*.{h,cpp}, util/type.{h,cpp}: the static check of  *)
(* a program.  It is a walk over the AST that carries the types of names   *)
(* and leaves diagnostics, here their codes.                               *)
(*                                                                         *)
(* Not modelled: messages and lines; the types of the bitwise operators,   *)
(* which AST lacks; a counting loop's variable is of type int, as in AST.  *)
(***************************************************************************)
EXTENDS AST

Prim(kind)      == <<"prim", kind>>
Optional(t)     == <<"optional", t>>
FunctionType(params, defaults, ret) == <<"function", params, defaults, ret>>
BuiltinType(name, min, max, ret)    == <<"builtin", name, min, max, ret>>
ClassType(name, arity)         == <<"class", name, arity>>
InstanceType(class, ancestors) == <<"instance", class, ancestors>>
AnyType   == <<"any">>
NeverType == <<"never">>     \* something was diagnosed here already

\* Whether a value of type `from` may go where `to` is declared, and whether two
\* types are the same.
RECURSIVE isAssignableFrom(_, _)
RECURSIVE equals(_, _)

isAssignableFrom(to, from) ==
  \/ {to, from} \cap {AnyType, NeverType} # {}
  \/ CASE Tag(to) = "prim"     -> to = from
       [] Tag(to) = "optional" -> \/ from = Prim("null")
                                  \/ isAssignableFrom(to[2], IF Tag(from) = "optional" THEN from[2] ELSE from)
       [] Tag(to) = "function" -> /\ Tag(from) = "function" /\ Len(to[2]) = Len(from[2])
                                  /\ \A i \in DOMAIN to[2] : equals(to[2][i], from[2][i])
                                  /\ equals(to[4], from[4])
       [] Tag(to) \in {"builtin", "class"} -> Tag(from) = Tag(to) /\ to[2] = from[2]
       [] Tag(to) = "instance" -> Tag(from) = "instance" /\ to[2] \in {from[2]} \cup from[3]

equals(a, b) ==
  CASE Tag(a) # Tag(b)      -> FALSE
    [] Tag(a) = "optional"  -> equals(a[2], b[2])
    [] Tag(a) = "function"  -> isAssignableFrom(a, b) /\ isAssignableFrom(b, a)
    [] Tag(a) \in {"builtin", "class", "instance"} -> a[2] = b[2]
    [] OTHER                -> a = b

-----------------------------------------------------------------------------
(* The checker's state: the types of the global names, the scopes and the  *)
(* narrowings above them, the classes, what is being checked, and what was *)
(* found.  `stuck` when a search for a member never ends.                  *)

BuiltinTypes ==
  [b \in {"print", "length", "push"} |->
     CASE b = "print"  -> BuiltinType(b, 0, 100, Prim("null"))
       [] b = "length" -> BuiltinType(b, 1, 1, Prim("int"))
       [] b = "push"   -> BuiltinType(b, 2, 2, Prim("null"))]

NewChecker ==
  [globals |-> BuiltinTypes, scopes |-> << >>, overlays |-> << >>, classTypes |-> << >>, infos |-> << >>,
   class |-> "", returns |-> None, diags |-> << >>, stuck |-> FALSE]

Warn(s, code)         == [s EXCEPT !.diags = Append(@, code)]
WarnIf(cond, s, code) == IF cond THEN Warn(s, code) ELSE s

push(s, table) == [s EXCEPT ![table] = Append(@, << >>)]
pop(s, table)  == [s EXCEPT ![table] = Front(@)]

\* The innermost of the tables that has the name.
Holding(tables, name) == SelectLastInSeq(tables, LAMBDA table : name \in DOMAIN table)

lookup(s, name) ==
  CASE Holding(s.overlays, name) # 0 -> Some(s.overlays[Holding(s.overlays, name)][name])
    [] Holding(s.overlays, name) = 0 /\ Holding(s.scopes, name) # 0 -> Some(s.scopes[Holding(s.scopes, name)][name])
    [] OTHER -> IF name \in DOMAIN s.globals THEN Some(s.globals[name]) ELSE None

\* A wrong variant of Widen: what is known of a value outlives it.
WidenNothing(s, name) == s

\* An assignment to a name or its declaration ends what is known of its value.
Widen(s, name) ==
  [s EXCEPT !.overlays = [i \in DOMAIN @ |-> [x \in DOMAIN @[i] \ {name} |-> @[i][x]]]]

declareIn(s, name, t) ==
  IF s.scopes = << >> THEN [s EXCEPT !.globals = (name :> t) @@ @]
  ELSE [s EXCEPT !.scopes[Len(s.scopes)] = (name :> t) @@ @]
declare(s, name, t) == declareIn(Widen(s, name), name, t)

\* The ancestors of a class; a class met again ends the search.
RECURSIVE ancestorChainOf(_, _, _)
ancestorChainOf(s, class, chain) ==
  IF class \notin DOMAIN s.infos \/ s.infos[class].parent \in chain \cup {""} THEN chain
  ELSE ancestorChainOf(s, s.infos[class].parent, chain \cup {s.infos[class].parent})

\* A wrong variant of instanceTypeOf: a class without its ancestors.
instanceTypeAlone(s, class) == InstanceType(class, {})

instanceTypeOf(s, class) == InstanceType(class, ancestorChainOf(s, class, {}))

typeFromToken(s, type) ==
  LET base == CASE type.type \in BasicTypes          -> Prim(type.type)
                [] type.type \in DOMAIN s.classTypes -> instanceTypeOf(s, type.type)
                [] OTHER                             -> AnyType
  IN  IF type.optional THEN Optional(base) ELSE base

\* The classes a search for a member visits, each once.
RECURSIVE Lineage(_, _, _)
Lineage(s, class, seen) ==
  IF class \notin DOMAIN s.infos \/ class \in Range(seen) THEN seen
  ELSE Lineage(s, s.infos[class].parent, Append(seen, class))

\* lookupField and lookupMethod, of the table "fields" or "methods".
lookupMember(s, class, table, member) ==
  LET visited == Lineage(s, class, << >>)
      at      == SelectInSeq(visited, LAMBDA c : member \in DOMAIN s.infos[c][table])
  IN  IF at = 0 THEN None ELSE Some(s.infos[visited[at]][table][member])

\* The search has no guard of its own: through classes that are their own
\* ancestors it ends only where the member is.
Searched(s, class, table, member) ==
  LET visited == Lineage(s, class, << >>)
      circular == visited # << >> /\ s.infos[Last(visited)].parent \in Range(visited)
  IN  IF circular /\ lookupMember(s, class, table, member) = None THEN [s EXCEPT !.stuck = TRUE] ELSE s

-----------------------------------------------------------------------------
(* Expressions: the type of one, and the state its parts leave.            *)

Typed(s, t)   == [s |-> s, t |-> t]
Then(r, F(_, _)) == F(r.s, r.t)

RECURSIVE inferExpression(_, _)
RECURSIVE inferEach(_, _, _)
inferEach(es, s, ts) ==
  IF es = << >> THEN Typed(s, ts)
  ELSE Then(inferExpression(Head(es), s), LAMBDA u, t : inferEach(Tail(es), u, Append(ts, t)))

InferAs(es, s, t) == Typed(inferEach(es, s, << >>).s, t)

Kinds(l, r, k) == l \in {Prim(x) : x \in k} /\ r \in {Prim(x) : x \in k}
Numeric == {"int", "float"}

\* A wrong variant of ResultOf: strings are not added.
ResultOfNumbers(op, l, r) ==
  CASE op \in Arithmetic /\ Kinds(l, r, {"int"})           -> Some(Prim("int"))
    [] op \in Arithmetic \ {"MOD"} /\ Kinds(l, r, Numeric) -> Some(Prim("float"))
    [] op \in Comparisons /\ (Kinds(l, r, Numeric) \/ Kinds(l, r, {"str"})) -> Some(Prim("bool"))
    [] OTHER -> None

\* The result of an operator on a pair of types it is defined on, or None.
ResultOf(op, l, r) ==
  CASE op \in Arithmetic /\ Kinds(l, r, {"int"})           -> Some(Prim("int"))
    [] op \in Arithmetic \ {"MOD"} /\ Kinds(l, r, Numeric) -> Some(Prim("float"))
    [] op = "ADD" /\ Kinds(l, r, {"str"})                  -> Some(Prim("str"))
    [] op \in Comparisons /\ (Kinds(l, r, Numeric) \/ Kinds(l, r, {"str"})) -> Some(Prim("bool"))
    [] OTHER -> None

inferInfix(op, l, r, s) ==
  LET bothPrim   == Tag(l) = "prim" /\ Tag(r) = "prim"
      nonBool(t) == Tag(t) = "prim" /\ t # Prim("bool")
      equatable  == \/ Prim("null") \in {l, r} \/ Kinds(l, r, Numeric)
                    \/ l = r /\ Kinds(l, r, {"str", "bool"})
  IN  CASE NeverType \in {l, r}               -> Typed(s, NeverType)
        [] op \in {"EQUAL", "NOT_EQUAL"}  -> Typed(WarnIf(bothPrim /\ ~equatable, s, "TC601"), Prim("bool"))
        [] "optional" \in {Tag(l), Tag(r)} -> Typed(Warn(s, "TC501"), AnyType)
        [] op \in {"AND", "OR"}           -> Typed(WarnIf(nonBool(l) \/ nonBool(r), s, "TC601"), Prim("bool"))
        [] OTHER -> IF ResultOf(op, l, r) # None THEN Typed(s, ResultOf(op, l, r)[1])
                    ELSE Typed(WarnIf(bothPrim, s, "TC601"), AnyType)

\* The arguments of a call; a wrong number of them ends the check.
checkCallArguments(f, ts, s) ==
  LET required == Cardinality({i \in DOMAIN f[3] : ~f[3][i]})
      wrong    == {i \in DOMAIN ts : ~isAssignableFrom(f[2][i], ts[i])}
  IN  IF Len(ts) \notin required..Len(f[2]) THEN Warn(s, "TC101")
      ELSE [s EXCEPT !.diags = @ \o [i \in 1..Cardinality(wrong) |-> "TC102"]]

inferCall(callee, ts, s) ==
  CASE Tag(callee) = "never"    -> Typed(s, NeverType)
    [] Tag(callee) = "builtin"  -> Typed(WarnIf(Len(ts) \notin callee[3]..callee[4], s, "TC101"), callee[5])
    [] Tag(callee) = "function" -> Typed(checkCallArguments(callee, ts, s), callee[4])
    [] Tag(callee) = "class"    -> Typed(WarnIf(Len(ts) # callee[3], s, "TC101"), instanceTypeOf(s, callee[2]))
    [] OTHER                    -> Typed(s, AnyType)

inferMethod(name, method, ts, s) ==
  IF method = None THEN Typed(Warn(s, "TC201"), NeverType)
  ELSE Typed(checkCallArguments(method[1], ts, s), method[1][4])

inferMethodCall(object, name, ts, s) ==
  CASE Tag(object) = "optional" -> Typed(Warn(s, "TC501"), AnyType)
    [] Tag(object) = "instance" /\ object[2] \in DOMAIN s.infos ->
         inferMethod(name, lookupMember(s, object[2], "methods", name), ts, Searched(s, object[2], "methods", name))
    [] OTHER -> Typed(s, AnyType)

\* A method that is not called is of no known type.
inferMemberAccess(object, member, s) ==
  LET field  == lookupMember(s, object[2], "fields", member)
      method == lookupMember(s, object[2], "methods", member)
      u      == Searched(s, object[2], "fields", member)
  IN  CASE Tag(object) = "optional" -> Typed(Warn(s, "TC501"), AnyType)
        [] Tag(object) = "instance" -> IF field # None THEN Typed(s, field[1])
                                       ELSE IF method # None \/ object[2] \notin DOMAIN s.infos THEN Typed(u, AnyType)
                                       ELSE Typed(Warn(u, "TC201"), NeverType)
        [] OTHER                    -> Typed(s, AnyType)

OptionalParts(lo, hi) == (IF lo = None THEN << >> ELSE lo) \o (IF hi = None THEN << >> ELSE hi)
KeysThenValues(kvs)   ==
  LET n == Len(kvs) \div 2 IN [i \in DOMAIN kvs |-> IF i <= n THEN kvs[2 * i - 1] ELSE kvs[2 * (i - n)]]

inferName(name, s) ==
  IF lookup(s, name) # None THEN Typed(s, lookup(s, name)[1]) ELSE Typed(Warn(s, "TC006"), NeverType)

inferExpression(e, s) ==
  CASE e.node = "Literal"      -> Typed(s, Prim(Tag(e.value)))
    [] e.node = "Interpolated" -> InferAs(e.segments, s, Prim("str"))
    [] e.node = "Array"        -> InferAs(e.elements, s, Prim("array"))
    [] e.node = "HashMap"      -> InferAs(KeysThenValues(e.entries), s, Prim("map"))
    [] e.node = "Tuple"        -> InferAs(e.elements, s, Prim("tuple"))
    [] e.node = "Identifier"   -> inferName(e.name, s)
    [] e.node = "Infix"        -> Then(inferEach(<<e.left, e.right>>, s, << >>), LAMBDA u, ts : inferInfix(e.op, ts[1], ts[2], u))
    [] e.node = "Prefix"       -> InferAs(<<e.right>>, s, AnyType)
    [] e.node = "Postfix"      -> InferAs(<<Identifier(e.name)>>, s, AnyType)
    [] e.node = "Call"         -> Then(inferEach(<<e.function>> \o e.arguments, s, << >>),
                                       LAMBDA u, ts : inferCall(ts[1], Tail(ts), u))
    [] e.node = "MethodCall"   -> Then(inferEach(<<e.object>> \o e.arguments, s, << >>),
                                       LAMBDA u, ts : inferMethodCall(ts[1], e.method, Tail(ts), u))
    [] e.node = "MemberAccess" -> Then(inferExpression(e.object, s), LAMBDA u, t : inferMemberAccess(t, e.member, u))
    [] e.node = "Index"        -> Then(inferExpression(e.name, s), LAMBDA u, t :
                                       InferAs(<<e.index>>, WarnIf(Tag(t) = "optional", u, "TC501"), AnyType))
    [] e.node = "Slice"        -> InferAs(<<e.object>> \o OptionalParts(e.start, e.end), s, AnyType)
    [] e.node = "Lambda"       -> Typed(s, AnyType)

\* The names of optional type that the outcome of a condition shows to hold a
\* value: of "x is not null" when it holds, of "x is null" when it does not.
RECURSIVE collectNarrowings(_, _, _)
collectNarrowings(s, cond, holds) ==
  LET names == {e \in {cond.left, cond.right} : e.node = "Identifier"}
      name  == (CHOOSE e \in names : TRUE).name
      t     == lookup(s, name)
  IN  CASE cond.node # "Infix" -> << >>
        [] cond.node = "Infix" /\ cond.op = "AND" ->
             IF holds THEN collectNarrowings(s, cond.right, TRUE) @@ collectNarrowings(s, cond.left, TRUE) ELSE << >>
        [] OTHER ->
             IF /\ cond.node = "Infix" /\ cond.op = (IF holds THEN "NOT_EQUAL" ELSE "EQUAL")
                /\ Lit(Null) \in {cond.left, cond.right} /\ names # {}
                /\ t # None /\ Tag(t[1]) = "optional"
             THEN name :> t[1][2] ELSE << >>

-----------------------------------------------------------------------------
(* Statements: the state after one.                                        *)

RECURSIVE checkStatement(_, _)
checkBlock(body, s) == FoldLeft(LAMBDA u, n : checkStatement(n, u), s, body)
InScope(body, s)    == pop(checkBlock(body, push(s, "scopes")), "scopes")
InScopeWith(body, name, t, s) == pop(checkBlock(body, declare(push(s, "scopes"), name, t)), "scopes")

\* A branch, with what its condition shows of the names.
Branch(body, narrowed, s) == pop(InScope(body, [s EXCEPT !.overlays = Append(@, narrowed)]), "overlays")

checkIf(n, s) ==
  LET shown(holds) == collectNarrowings(s, n.condition, holds)
  IN  Branch(IF n.otherwise = None THEN << >> ELSE n.otherwise[1], shown(FALSE), Branch(n.consequence, shown(TRUE), s))

checkAssignment(existing, t, s) ==
  IF existing = None THEN Warn(s, "TC006") ELSE WarnIf(~isAssignableFrom(existing[1], t), s, "TC002")

\* A field that no class of the chain has is added to this one.
checkSelfAssignment(member, field, t, s) ==
  IF field = None THEN [s EXCEPT !.infos[s.class].fields = (member :> t) @@ @]
  ELSE checkAssignment(field, t, s)

checkForEach(n, s) ==
  Then(inferExpression(n.iterable, declare(push(s, "scopes"), n.name, typeFromToken(s, n.elementType))), LAMBDA u, t :
    pop(checkBlock(n.body, WarnIf(Tag(t) = "prim" /\ t \notin {Prim("array"), Prim("str")}, u, "TC302")), "scopes"))

NoBound == {Prim(k) : k \in {"str", "bool", "null", "array", "map", "float"}}
checkForRange(n, s) ==
  Then(inferEach(<<n.start, n.end>>, declare(push(s, "scopes"), n.name, Prim("int")), << >>), LAMBDA u, ts :
    pop(checkBlock(n.body, WarnIf(ts[2] \in NoBound, WarnIf(ts[1] \in NoBound, u, "TC301"), "TC301")), "scopes"))

\* The bodies of a match have no scope of their own.
checkCase(c, s) ==
  LET values == (IF c.pattern.kind = "value" THEN <<c.pattern.value>> ELSE << >>) \o c.guard
  IN  checkBlock(c.body, inferEach(values, s, << >>).s)
checkMatch(n, s) ==
  checkBlock(IF n.default = None THEN << >> ELSE n.default[1],
             FoldLeft(LAMBDA u, c : checkCase(c, u), inferExpression(n.subject, s).s, n.cases))

Signature(fn, s) ==
  FunctionType([i \in DOMAIN fn.parameters |-> typeFromToken(s, fn.parameters[i].type)],
               [i \in DOMAIN fn.parameters |-> fn.parameters[i].default # None],
               typeFromToken(s, fn.returns))

DeclareParameters(params, s) ==
  FoldLeft(LAMBDA u, p : declare(u, p.name, typeFromToken(u, p.type)), s, params)

\* checkFunctionLike; the defaults are literals, of which there is nothing to say.
checkFunctionBody(fn, s) ==
  LET inner == [DeclareParameters(fn.parameters, push(s, "scopes")) EXCEPT !.returns = Some(typeFromToken(s, fn.returns))]
      left  == pop(checkBlock(fn.body, inner), "scopes")
  IN  [left EXCEPT !.returns = s.returns]

\* A body of a class, which knows the object and the object as one of the parent.
WithSelf(n, s) ==
  LET u == declare(push(s, "scopes"), "self", instanceTypeOf(s, n.name))
  IN  IF n.parentName = "" THEN u ELSE declare(u, "parent", instanceTypeOf(s, n.parentName))

checkConstructor(n, s) ==
  IF n.ctor = None THEN s
  ELSE LET bare == [i \in DOMAIN n.ctor[1].parameters |-> [n.ctor[1].parameters[i] EXCEPT !.type.optional = FALSE]]
       IN  pop(checkBlock(n.ctor[1].body, DeclareParameters(bare, WithSelf(n, s))), "scopes")

checkClassBody(n, s) ==
  LET inner == checkConstructor(n, [s EXCEPT !.class = n.name])
      left  == FoldLeft(LAMBDA u, m : pop(checkFunctionBody(m, WithSelf(n, u)), "scopes"), inner, n.methods)
  IN  [left EXCEPT !.class = s.class]

\* The name and what calling it takes first, then the members, then the bodies.
\* A class without a constructor takes what its parent's takes.
checkClass(n, s) ==
  LET arity == IF n.ctor = None /\ n.parentName \in DOMAIN s.classTypes THEN s.classTypes[n.parentName]
               ELSE IF n.ctor = None THEN 0 ELSE Len(n.ctor[1].parameters)
      known == n.parentName = "" \/ n.parentName \in DOMAIN s.classTypes
      u     == WarnIf(~known, declare([s EXCEPT !.classTypes = (n.name :> arity) @@ @], n.name, ClassType(n.name, arity)),
                      "TC006")
      last(m) == CHOOSE i \in DOMAIN n.methods : n.methods[i].name = m /\ \A j \in DOMAIN n.methods : n.methods[j].name = m => j <= i
      info  == [parent  |-> n.parentName,
                fields  |-> [x \in DOMAIN n.fields |-> typeFromToken(u, n.fields[x])],
                methods |-> [m \in {n.methods[i].name : i \in DOMAIN n.methods} |-> Signature(n.methods[last(m)], u)]]
  IN  checkClassBody(n, [u EXCEPT !.infos = (n.name :> info) @@ @])

checkStatement(n, s) ==
  CASE n.node = "Initialization" ->
         Then(inferExpression(n.value, s), LAMBDA u, t :
           LET declared == typeFromToken(s, n.type)
           IN  declare(WarnIf(~isAssignableFrom(declared, t), u, "TC001"), n.name, declared))
    [] n.node = "Assignment" ->
         Then(inferExpression(n.value, Widen(s, n.name)), LAMBDA u, t : checkAssignment(lookup(u, n.name), t, u))
    [] n.node = "SelfAssignment" ->
         Then(inferExpression(n.value, s), LAMBDA u, t :
           IF s.class = "" THEN Warn(u, "TC006")
           ELSE checkSelfAssignment(n.member, lookupMember(u, s.class, "fields", n.member), t,
                                    Searched(u, s.class, "fields", n.member)))
    [] n.node = "Compound" ->
         Then(inferExpression(n.value, s), LAMBDA u, t : WarnIf(lookup(u, n.name) = None, u, "TC006"))
    [] n.node \in {"Expression", "Yield"} -> inferExpression(n.expression, s).s
    [] n.node = "If"       -> checkIf(n, inferExpression(n.condition, s).s)
    [] n.node = "While"    -> InScope(n.body, inferExpression(n.condition, s).s)
    [] n.node = "ForEach"  -> checkForEach(n, s)
    [] n.node = "ForRange" -> checkForRange(n, s)
    [] n.node = "TryCatch" -> InScopeWith(n.catchBody, n.errorName, AnyType, InScope(n.tryBody, s))
    [] n.node = "Match"    -> checkMatch(n, s)
    [] n.node = "IndexAssignment" -> inferEach(<<n.collection, n.index, n.value>>, s, << >>).s
    [] n.node = "Function" -> checkFunctionBody(n, declare(s, n.name, Signature(n, s)))
    [] n.node = "Return"   ->
         Then(inferExpression(n.expression, s), LAMBDA u, t :
           WarnIf(u.returns # None /\ ~isAssignableFrom(u.returns[1], t), u, "TC103"))
    [] n.node = "Class"    -> checkClass(n, s)
    [] OTHER               -> s

\* check: one program after another on the same checker, each with diagnostics
\* of its own.
check(program, s) == checkBlock(program, [s EXCEPT !.diags = << >>])

=============================================================================
