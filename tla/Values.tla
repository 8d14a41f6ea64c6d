------------------------------- MODULE Values -------------------------------
(***************************************************************************)
(* vm/vm_value.h, the operators of vm/vm.cpp and util/: what values are    *)
(* and what one operation makes of them, shared by the back ends.          *)
(*                                                                         *)
(* A value is a tuple whose first component is its tag.  Strings are       *)
(* sequences of code points.  Objects with identity (arrays, maps,         *)
(* instances, iterators, captured variables) are addresses of the heap, a  *)
(* sequence of objects; a function value carries its captured cells.       *)
(***************************************************************************)
EXTENDS CheckedInt, SequencesExt, TLC

Null      == <<"null">>
IntVal(n) == <<"int", n>>
Float(x)  == <<"float", x>>
Bool(b)   == <<"bool", b>>
Str(s)    == <<"str", s>>
Ref(tag, addr)   == <<tag, addr>>
Fn(f, cells)     == <<"fn", f, cells>>
Class(c)         == <<"class", c>>
Builtin(b)       == <<"builtin", b>>
TupleVal(s)      == <<"tuple", s>>

Tag(v) == v[1]
IsInt(v) == Tag(v) = "int"

\* The outcome of one operation: a value, or the exception it throws.
Ok(v)     == [ok |-> TRUE, val |-> v]
Throws(m) == [ok |-> FALSE, val |-> Str(<<m>>)]

IfSome(opt) == IF opt = None THEN Throws("overflow") ELSE Ok(IntVal(opt[1]))

Comparison(op, l, r) ==
  CASE op = "EQUAL" -> l = r         [] op = "NOT_EQUAL" -> l # r
    [] op = "LESS" -> l < r          [] op = "GREATER" -> l > r
    [] op = "LESS_EQUAL" -> l <= r   [] op = "GREATER_EQUAL" -> l >= r

Comparisons == {"EQUAL", "NOT_EQUAL", "LESS", "GREATER", "LESS_EQUAL", "GREATER_EQUAL"}
Arithmetic  == {"ADD", "SUB", "MUL", "DIV", "MOD", "POW"}
BinaryOps   == Comparisons \cup Arithmetic \cup {"AND", "OR"}

\* A power that leaves the integers becomes a double: only its type matters here.
IntArithmetic(op, l, r) ==
  CASE op = "ADD" -> IfSome(add(l, r))
    [] op = "SUB" -> IfSome(sub(l, r))
    [] op = "MUL" -> IfSome(mul(l, r))
    [] op = "DIV" -> IF r = 0 THEN Throws("div-zero") ELSE IfSome(div(l, r))
    [] op = "MOD" -> IF r = 0 THEN Throws("div-zero") ELSE Ok(IntVal(mod(l, r)))
    [] op = "POW" -> IF r >= 0 /\ pow(l, r) # None
                     THEN Ok(IntVal(pow(l, r)[1])) ELSE Ok(Float("pow"))

(***************************************************************************)
(* VM::binaryOp.  Not modelled: bitwise operators, arithmetic on doubles   *)
(* (a double is an opaque payload, equal only to itself) and the           *)
(* lexicographic order of strings; programs of the models use none.        *)
(***************************************************************************)
binaryOp(op, left, right) ==
  LET both(tag) == Tag(left) = tag /\ Tag(right) = tag
  IN  IF left = Null \/ right = Null
      THEN IF op \in {"EQUAL", "NOT_EQUAL"}
           THEN Ok(Bool((op = "EQUAL") <=> (left = Null /\ right = Null)))
           ELSE Throws("null-operand")
      ELSE IF both("int") /\ op \in Comparisons THEN Ok(Bool(Comparison(op, left[2], right[2])))
      ELSE IF both("int") /\ op \in Arithmetic  THEN IntArithmetic(op, left[2], right[2])
      ELSE IF both("bool") /\ op = "AND"        THEN Ok(Bool(left[2] /\ right[2]))
      ELSE IF both("bool") /\ op = "OR"         THEN Ok(Bool(left[2] \/ right[2]))
      ELSE IF both("str") /\ op = "ADD"         THEN Ok(Str(left[2] \o right[2]))
      ELSE IF (both("bool") \/ both("str") \/ both("float")) /\ op \in {"EQUAL", "NOT_EQUAL"}
           THEN Ok(Bool((op = "EQUAL") <=> (left[2] = right[2])))
      ELSE Throws("operand-types")

Negate(v) == IF IsInt(v) THEN IfSome(neg(v[2]))
             ELSE IF Tag(v) = "float" THEN Ok(Float("neg")) ELSE Throws("negate-type")

Not(v) == IF Tag(v) = "bool" THEN Ok(Bool(~v[2])) ELSE Throws("not-type")

RangeCheck(v, lo, hi) == Bool(IsInt(v) /\ IsInt(lo) /\ IsInt(hi) /\ v[2] \in lo[2]..hi[2])

\* The types a declaration or a type pattern can name.
BasicTypes == {"int", "float", "str", "bool", "array", "map"}

\* The tag of the values of a type; a class has none of its own.
tokenTypeToObjectType(type) == CASE type \in BasicTypes -> type
                                 [] type = "function"   -> "fn"
                                 [] OTHER               -> "any"

\* A negative index counts from the end; the result is a 1-based position or None.
Position(index, len) ==
  LET at == IF index < 0 THEN len + index ELSE index
  IN  IF 0 <= at /\ at < len THEN Some(at + 1) ELSE None

\* The element of s (an array's or a string's) at an index value.
ElementAt(s, index, wrap(_)) ==
  IF ~IsInt(index) THEN Throws("index-type")
  ELSE IF Position(index[2], Len(s)) = None THEN Throws("index-range")
  ELSE Ok(wrap(s[Position(index[2], Len(s))[1]]))

\* slice_utils::normalizeSliceBounds; lo and hi are None (omitted) or Some(value).
SliceOf(s, lo, hi) ==
  LET len   == Len(s)
      clip(n, omitted) == IF n = None THEN omitted
                          ELSE IF n[1][2] < 0 THEN len + n[1][2] ELSE n[1][2]
      start == IF clip(lo, 0) < 0 THEN 0 ELSE clip(lo, 0)
      end   == IF clip(hi, len) > len THEN len ELSE clip(hi, len)
  IN  SubSeq(s, start + 1, end)

\* ToString, with the layout of containers and functions left out.
Display(v) == CASE Tag(v) = "str"  -> v[2]
                [] Tag(v) = "int"  -> <<ToString(v[2])>>
                [] Tag(v) = "bool" -> <<IF v[2] THEN "true" ELSE "false">>
                [] OTHER           -> <<Tag(v)>>

=============================================================================
