--------------------------------- MODULE AST ---------------------------------
(***************************************************************************)
(* ast/{expressions,literals,statements,program}.h: the program the parser *)
(* hands to both back ends.  A node is a record of its class and its       *)
(* members; an absent member (nullptr) is None, a present one Some(node).  *)
(***************************************************************************)
EXTENDS Values

\* Literals carry their value.
Lit(v) == [node |-> "Literal", value |-> v]
Num(n) == Lit(IntVal(n))

Identifier(name) == [node |-> "Identifier", name |-> name]
Infix(op, l, r)  == [node |-> "Infix", op |-> op, left |-> l, right |-> r]
Prefix(op, e)    == [node |-> "Prefix", op |-> op, right |-> e]
Postfix(op, n)   == [node |-> "Postfix", op |-> op, name |-> n]   \* op: "ADD" or "SUB"
Call(fn, args)   == [node |-> "Call", function |-> fn, arguments |-> args]
Member(obj, m)   == [node |-> "MemberAccess", object |-> obj, member |-> m]
MethodCall(obj, m, args) == [node |-> "MethodCall", object |-> obj, method |-> m, arguments |-> args]
Index(col, i)    == [node |-> "Index", name |-> col, index |-> i]
Slice(obj, lo, hi) == [node |-> "Slice", object |-> obj, start |-> lo, end |-> hi]
ArrayLit(es)     == [node |-> "Array", elements |-> es]
TupleLit(es)     == [node |-> "Tuple", elements |-> es]
MapLit(kvs)      == [node |-> "HashMap", entries |-> kvs]   \* key, value, key, value...
Interpolated(es) == [node |-> "Interpolated", segments |-> es]
Lambda(params, returns, e) == [node |-> "Lambda", parameters |-> params, returns |-> returns, body |-> e]

\* A declared type: its name and whether '?' allows Null.
Type(t)    == [type |-> t, optional |-> FALSE]
OptType(t) == [type |-> t, optional |-> TRUE]
Param(name, type, default) == [name |-> name, type |-> type, default |-> default]

ExprStmt(e)         == [node |-> "Expression", expression |-> e]
Declare(type, n, e) == [node |-> "Initialization", type |-> type, name |-> n, value |-> e]
Assign(n, e)        == [node |-> "Assignment", name |-> n, value |-> e]
SelfAssign(m, e)    == [node |-> "SelfAssignment", member |-> m, value |-> e]
Compound(op, n, e)  == [node |-> "Compound", op |-> op, name |-> n, value |-> e]
IndexAssign(c, i, e) == [node |-> "IndexAssignment", collection |-> c, index |-> i, value |-> e]
If(cond, yes, no)   == [node |-> "If", condition |-> cond, consequence |-> yes, otherwise |-> no]
While(cond, body)   == [node |-> "While", condition |-> cond, body |-> body]
ForEach(type, n, e, body) == [node |-> "ForEach", elementType |-> type, name |-> n,
                              iterable |-> e, body |-> body]
ForRange(n, lo, hi, body) == [node |-> "ForRange", name |-> n, start |-> lo, end |-> hi, body |-> body]
Break               == [node |-> "Break"]
ContinueStmt        == [node |-> "Continue"]
Return(e)           == [node |-> "Return", expression |-> e]
Yield(e)            == [node |-> "Yield", expression |-> e]
TryCatch(body, n, handler) == [node |-> "TryCatch", tryBody |-> body, errorName |-> n,
                               catchBody |-> handler]
Function(n, params, returns, body) == [node |-> "Function", name |-> n, parameters |-> params,
                                       returns |-> returns, body |-> body]
\* The fields of a class are a function from their names to their types.
ClassStmt(n, parent, fields, ctor, methods) ==
  [node |-> "Class", name |-> n, parentName |-> parent, fields |-> fields, ctor |-> ctor,
   methods |-> methods]
Import(file)        == [node |-> "Import", filename |-> file]

\* A case of a match: its pattern, its guard (None or Some) and its body.
ValuePattern(e)     == [kind |-> "value", value |-> e]
RangePattern(l, h)  == [kind |-> "range", start |-> l, end |-> h]
TypePattern(t)      == [kind |-> "type", type |-> t]
MatchCase(pattern, guard, body) == [pattern |-> pattern, guard |-> guard, body |-> body]
Match(subject, cases, default) == [node |-> "Match", subject |-> subject, cases |-> cases,
                                   default |-> default]

PrintStmt(e) == ExprStmt(Call(Identifier("print"), <<e>>))

=============================================================================
