-------------------------------- MODULE Parser --------------------------------
(***************************************************************************)
(* parser/parser.{h,cpp}: recursive descent over statements, precedence    *)
(* climbing over expressions, and recovery at the next line.               *)
(*                                                                         *)
(* The parser's position is a parameter p, the current token that of       *)
(* position p.  A method gives what it made and the position after it, or  *)
(* a failure (an exception) and where the parser stood when it threw.      *)
(* Two simplifications of bookkeeping: positions, lines and columns of     *)
(* nodes are dropped, and a method that in the code stops at its last      *)
(* token, for its caller to step over, steps over it here.                 *)
(*                                                                         *)
(* Keywords have their English names: LOOP..WHILE for the while loop,      *)
(* LOOP..FROM..TO for the range, EACH..IN, TRY..FAIL, NEW for the          *)
(* constructor.  TYPE with a text is a type keyword.                       *)
(***************************************************************************)
EXTENDS Lexer, AST

CONSTANT kMaxExpressionDepth   \* the greatest depth of an expression

\* current_token->type, or "nullptr" past the last token.
At(t, p)   == IF p \in DOMAIN t THEN t[p][1] ELSE "nullptr"
Text(t, p) == IF p \in DOMAIN t THEN t[p][2] ELSE ""

Got(p, v)  == [ok |-> TRUE, pos |-> p, val |-> v, depth |-> 0]
Throw(p)   == [ok |-> FALSE, pos |-> p, val |-> "exception", depth |-> 0]
\* A member of the null token is read.
Crash(p)   == [ok |-> FALSE, pos |-> p, val |-> "null dereference", depth |-> 0]
Bind(r, Rest(_, _)) == IF r.ok THEN Rest(r.pos, r.val) ELSE r

\* An expression, with nestedExpressionDepth_ as it leaves it.
Expr(p, e, depth) == [ok |-> TRUE, pos |-> p, val |-> e, depth |-> depth]
Deeper(a, b)      == IF a > b THEN a ELSE b

\* The current token's type is read, whether there is a token or not.
Read(t, r) == IF r.ok /\ r.pos \notin DOMAIN t THEN Crash(r.pos) ELSE r

\* skipToken, for each type in turn.  The exception for a missing token holds
\* the token before it, which must be there.
Skip(t, p, types) ==
  LET wrong == {i \in DOMAIN types : At(t, p + i - 1) # types[i]}
      first == p - 1 + CHOOSE i \in wrong : \A j \in wrong : i <= j
  IN  IF wrong = {} THEN Got(p + Len(types), None)
      ELSE IF first > Len(t) + 1 THEN Crash(first) ELSE Throw(first)

isTypeKeyword(type)         == type \in {"TYPE", "FUNCTION"}
isCompoundAssignToken(type) == type \in {"PLUS_ASSIGN", "MINUS_ASSIGN", "ASTERISK_ASSIGN", "SLASH_ASSIGN",
                                         "PERCENT_ASSIGN"}

\* The name a token has where a type is expected: whatever token it is.
TypeName(t, p) == IF At(t, p) = "FUNCTION" THEN "function" ELSE Text(t, p)
NoType         == Type("any")

-----------------------------------------------------------------------------
(* Expressions                                                             *)

Levels == <<"LOWEST", "LOGICAL_OR", "LOGICAL_AND", "BITWISE_OR", "BITWISE_AND", "EQUALS", "LESS_GREATER",
            "SUM", "PRODUCT", "POWER", "PREFIX", "POSTFIX", "CALL", "INDEX", "MEMBER">>
Level(name) == CHOOSE i \in DOMAIN Levels : Levels[i] = name
LOWEST      == Level("LOWEST")

LevelOf ==
  [EQUAL |-> "EQUALS", NOT_EQUAL |-> "EQUALS", LESS_THAN |-> "LESS_GREATER", GREATER_THAN |-> "LESS_GREATER",
   LESS_EQUAL |-> "LESS_GREATER", GREATER_EQUAL |-> "LESS_GREATER", PLUS |-> "SUM", MINUS |-> "SUM",
   ASTERISK |-> "PRODUCT", SLASH |-> "PRODUCT", PERCENT |-> "PRODUCT", POWER |-> "POWER",
   INCREMENT |-> "POSTFIX", DECREMENT |-> "POSTFIX", LPAREN |-> "CALL", LBRACKET |-> "INDEX",
   LOGICAL_AND |-> "LOGICAL_AND", LOGICAL_OR |-> "LOGICAL_OR", BITWISE_AND |-> "BITWISE_AND",
   BITWISE_OR |-> "BITWISE_OR", DOT |-> "MEMBER"]
getPrecedence(type) == IF type \in DOMAIN LevelOf THEN Level(LevelOf[type]) ELSE LOWEST

\* The operators of Infix nodes.
OperatorOf ==
  [PLUS |-> "ADD", MINUS |-> "SUB", ASTERISK |-> "MUL", SLASH |-> "DIV", PERCENT |-> "MOD", POWER |-> "POW",
   EQUAL |-> "EQUAL", NOT_EQUAL |-> "NOT_EQUAL", LESS_THAN |-> "LESS", GREATER_THAN |-> "GREATER",
   LESS_EQUAL |-> "LESS_EQUAL", GREATER_EQUAL |-> "GREATER_EQUAL", LOGICAL_AND |-> "AND", LOGICAL_OR |-> "OR",
   BITWISE_AND |-> "BITAND", BITWISE_OR |-> "BITOR"]

PrefixTokens == {"LPAREN", "MINUS", "BANG", "IDENTIFIER", "SELF", "PARENT", "INTEGER", "FLOAT", "TRUE", "FALSE",
                 "STRING", "LBRACKET", "LBRACE", "NULL", "FUNCTION"}

\* Gives the result of a prefix or infix function a node made from its value.
Node(r, Made(_)) == IF r.ok THEN [r EXCEPT !.val = Made(@)] ELSE r

\* n is expressionNesting_: how many calls of parseExpression are open.
\* The brace that closes the one at `open`, past nested braces and strings, or
\* 0 (npos).
findInterpolationEnd(raw, open) ==
  LET From[j \in open..Len(raw) + 2, depth \in 0..Len(raw)] ==
        IF j > Len(raw) THEN 0
        ELSE CASE raw[j] = Quote     -> LET string == readString(raw, j + 1) IN IF string.ok THEN From[string.next, depth] ELSE 0
               [] raw[j] = OpenBrace -> From[j + 1, depth + 1]
               [] raw[j] = CloseBrace -> IF depth = 1 THEN j ELSE From[j + 1, depth - 1]
               [] OTHER              -> From[j + 1, depth]
  IN  From[open, 0]

isBlankText(chars) == \A i \in DOMAIN chars : chars[i] \in Whitespace
Trimmed(chars) ==
  LET text(c) == c \notin Whitespace
  IN  SubSeq(chars, SelectInSeq(chars, text), SelectLastInSeq(chars, text))

\* A string taken apart: its literals, at odd places, and the texts of the
\* expressions between them.  Doubled braces are one, a brace without a partner
\* and empty braces are themselves.
Pieces(raw) ==
  LET Literally(chars, rest) == [rest EXCEPT ![1] = chars \o @]
      doubled(i) == raw[i] \in {OpenBrace, CloseBrace} /\ i < Len(raw) /\ raw[i + 1] = raw[i]
      From[i \in 1..Len(raw) + 1] ==
        IF i > Len(raw) THEN << << >> >>
        ELSE IF doubled(i) THEN Literally(<<raw[i]>>, From[i + 2])
        ELSE LET close == IF raw[i] = OpenBrace THEN findInterpolationEnd(raw, i) ELSE 0
                 inner == SubSeq(raw, i + 1, close - 1)
             IN  IF close = 0 THEN Literally(<<raw[i]>>, From[i + 1])
                 ELSE IF isBlankText(inner) THEN Literally(SubSeq(raw, i, close), From[close + 1])
                 ELSE << << >>, inner>> \o From[close + 1]
  IN  From[1]

\* parseInterpolationExpression lexes the text between braces on its own, when it
\* comes to it.  Here every string is given its parts beforehand: literals, and
\* texts as the lexer leaves them.
RECURSIVE InParts(_)
Lexed(toks)     == [ok |-> \A k \in DOMAIN toks : toks[k] # BadCharacter, tokens |-> InParts(Append(toks, NewLine))]
LexPart(text)   == Lexed(TokensIn(Trimmed(text)))
PartsOf(pieces) == [k \in DOMAIN pieces |-> IF k % 2 = 1 THEN pieces[k] ELSE LexPart(pieces[k])]
InParts(t) == [p \in DOMAIN t |-> IF t[p][1] = "STRING" THEN Append(t[p], PartsOf(Pieces(t[p][2]))) ELSE t[p]]

RECURSIVE parseExpression(_, _, _, _), parseInfixes(_, _, _, _), parseItems(_, _, _), parseEntries(_, _, _),
          parseParameters(_, _, _, _), parseSegments(_, _, _, _)

Empty(p) == Expr(p, << >>, 0)

\* The items read so far, and the tokens of those types after them.
Closed(t, items, types) ==
  IF ~items.ok THEN items
  ELSE LET close == Skip(t, items.pos, types) IN IF close.ok THEN [items EXCEPT !.pos = close.pos] ELSE close

\* The items read so far, and the expression after them.
Joined(items, e) == IF e.ok THEN Expr(e.pos, Append(items.val, e.val), Deeper(items.depth, e.depth)) ELSE e
And(t, items, n) == IF items.ok THEN Joined(items, parseExpression(t, items.pos, LOWEST, n)) ELSE items

\* Whether a comma says that there are more.
More(t, items)  == items.ok /\ At(t, items.pos) = "COMMA"
NextOf(items)   == [items EXCEPT !.pos = @ + 1]

ItemsAfter(t, items, n)  == IF More(t, items) THEN parseItems(t, NextOf(items), n) ELSE items
parseItems(t, items, n)  == ItemsAfter(t, And(t, items, n), n)

\* The arguments of a call, after its parenthesis, and the elements of an array.
parseArguments(t, p, n) ==
  Closed(t, IF At(t, p) \in {"RPAREN", "nullptr"} THEN Empty(p) ELSE Read(t, parseItems(t, Empty(p), n)), <<"RPAREN">>)
parseArrayLiteral(t, p, n) ==
  Node(Closed(t, IF At(t, p + 1) \in {"RBRACKET", "nullptr"} THEN Empty(p + 1) ELSE parseItems(t, Empty(p + 1), n),
              <<"RBRACKET">>),
       LAMBDA es : ArrayLit(es))

\* The value token's own expression.
Atom(t, p) ==
  CASE At(t, p) = "IDENTIFIER" -> Identifier(Text(t, p))
    [] At(t, p) = "SELF"       -> Identifier("self")
    [] At(t, p) = "PARENT"     -> Identifier("parent")
    [] At(t, p) = "INTEGER"    -> Num(Text(t, p))
    [] At(t, p) = "FLOAT"      -> Lit(Float(Text(t, p)))
    [] At(t, p) = "NULL"       -> Lit(Null)
    [] At(t, p) \in {"TRUE", "FALSE"} -> Lit(Bool(At(t, p) = "TRUE"))

\* One expression in parentheses, or a tuple.
parseGroupedExpression(t, p, n) ==
  LET tuple(items) == IF Len(items.val) > 1 THEN Read(t, items) ELSE items
  IN  Node(Closed(t, tuple(parseItems(t, Empty(p + 1), n)), <<"RPAREN">>),
           LAMBDA es : IF Len(es) = 1 THEN es[1] ELSE TupleLit(es))

\* Keys and values in turn; a key without its colon is an error.
EntriesAfter(t, entries, n) == IF More(t, entries) THEN parseEntries(t, NextOf(entries), n) ELSE entries
parseEntries(t, entries, n) ==
  EntriesAfter(t, And(t, Closed(t, And(t, entries, n), <<"COLON">>), n), n)

parseHashMapLiteral(t, p, n) ==
  Node(Closed(t, IF At(t, p + 1) \in {"RBRACE", "nullptr"} THEN Empty(p + 1) ELSE parseEntries(t, Empty(p + 1), n),
              <<"RBRACE">>),
       LAMBDA kvs : MapLit(kvs))

\* The parameters in their parentheses; only a function's are full.
parseSignature(t, p, full) ==
  Bind(Read(t, Skip(t, p, <<"LPAREN">>)), LAMBDA q, x :
    Bind(IF At(t, q) = "RPAREN" THEN Got(q, << >>) ELSE parseParameters(t, q, << >>, full), LAMBDA r, params :
      Bind(Skip(t, r, <<"RPAREN">>), LAMBDA s, y : Got(s, params))))

\* A lambda: its parameters, its type if any, and one expression, which
\* begins after the type whatever token that is.
parseLambdaExpression(t, p, n) ==
  Bind(parseSignature(t, p + 1, FALSE), LAMBDA q, params :
    LET typed == At(t, q) = "RIGHT_ARROW"
        type  == IF typed THEN Type(TypeName(t, q + 1)) ELSE NoType
    IN  Node(parseExpression(t, IF typed THEN q + 2 ELSE q, LOWEST, n), LAMBDA e : Lambda(params, type, e)))

\* parseInterpolationExpression: an expression that goes to the end of its text.
\* Nesting counts on from the string's.
WholeText(u, e) == IF e.ok /\ At(u, e.pos) \notin {"nullptr", "NEW_LINE", "END_OF_FILE"} THEN Throw(e.pos) ELSE e
parsePart(part, n) ==
  IF part.ok THEN WholeText(part.tokens, parseExpression(part.tokens, 1, LOWEST, n)) ELSE Throw(1)

\* The parts of a string from the k-th on.
parseSegments(parts, k, segments, n) ==
  IF ~segments.ok \/ k > Len(parts) THEN segments
  ELSE parseSegments(parts, k + 1,
         Joined(segments, IF k % 2 = 1 THEN Expr(0, Lit(Str(parts[k])), 0) ELSE parsePart(parts[k], n)), n)

parseStringLiteral(t, p, n) ==
  LET segments == parseSegments(t[p][3], 1, Empty(0), n)
  IN  IF ~segments.ok THEN [segments EXCEPT !.pos = p]
      ELSE Expr(p + 1, IF Len(segments.val) = 1 THEN segments.val[1] ELSE Interpolated(segments.val), segments.depth)

parsePrefix(t, p, n) ==
  CASE At(t, p) \in {"MINUS", "BANG"} ->
         Node(parseExpression(t, p + 1, Level("PREFIX"), n),
              LAMBDA e : Prefix(IF At(t, p) = "MINUS" THEN "NEGATE" ELSE "NOT", e))
    [] At(t, p) = "LPAREN"   -> parseGroupedExpression(t, p, n)
    [] At(t, p) = "LBRACKET" -> parseArrayLiteral(t, p, n)
    [] At(t, p) = "LBRACE"   -> parseHashMapLiteral(t, p, n)
    [] At(t, p) = "FUNCTION" -> parseLambdaExpression(t, p, n)
    [] At(t, p) = "STRING"   -> parseStringLiteral(t, p, n)
    [] OTHER                 -> Expr(p + 1, Atom(t, p), 0)

\* col[i], col[lo:hi], col[lo:], col[:hi] and col[:]: a bound is left out
\* before one of the enders.
parseBound(t, bounds, enders, n) ==
  IF At(t, bounds.pos) \in enders THEN [bounds EXCEPT !.val = Append(@, None)]
  ELSE Joined(bounds, Node(parseExpression(t, bounds.pos, LOWEST, n), LAMBDA e : Some(e)))

IndexOrSlice(t, left, lo, n) ==
  IF lo.ok /\ At(t, lo.pos) = "COLON"
  THEN Node(Closed(t, parseBound(t, NextOf(lo), {"RBRACKET", "nullptr"}, n), <<"RBRACKET">>),
            LAMBDA bounds : Slice(left, bounds[1], bounds[2]))
  ELSE Node(Closed(t, lo, <<"RBRACKET">>), LAMBDA bounds : Index(left, bounds[1][1]))

parseIndexExpression(t, p, left, n) == IndexOrSlice(t, left, parseBound(t, Empty(p + 1), {"COLON"}, n), n)

parseMemberAccessExpression(t, p, left, n) ==
  Bind(Skip(t, p, <<"DOT", "IDENTIFIER">>), LAMBDA q, x :
    IF At(t, q) = "LPAREN"
    THEN Node(parseArguments(t, q + 1, n), LAMBDA es : MethodCall(left, Text(t, p + 1), es))
    ELSE Expr(q, Member(left, Text(t, p + 1)), 0))

\* A wrong variant of parseInfixExpression: ** binds to the left as the others do.
parseInfixLeft(t, p, left, n) ==
  Node(parseExpression(t, p + 1, getPrecedence(At(t, p)), n), LAMBDA right : Infix(OperatorOf[At(t, p)], left, right))

\* ** binds to the right: its right operand may be another power.
parseInfixExpression(t, p, left, n) ==
  LET own == getPrecedence(At(t, p))
  IN  Node(parseExpression(t, p + 1, IF At(t, p) = "POWER" THEN own - 1 ELSE own, n),
           LAMBDA right : Infix(OperatorOf[At(t, p)], left, right))

parseCallInfixExpression(t, p, left, n) == Node(parseArguments(t, p + 1, n), LAMBDA es : Call(left, es))

parsePostfixExpression(t, p, left) ==
  Expr(p + 1, Postfix(IF At(t, p) = "INCREMENT" THEN "ADD" ELSE "SUB",
                      IF left.node = "Identifier" THEN left.name ELSE left), 0)

parseInfix(t, p, left, n) ==
  CASE At(t, p) = "LBRACKET" -> parseIndexExpression(t, p, left, n)
    [] At(t, p) = "LPAREN"   -> parseCallInfixExpression(t, p, left, n)
    [] At(t, p) = "DOT"      -> parseMemberAccessExpression(t, p, left, n)
    [] At(t, p) \in {"INCREMENT", "DECREMENT"} -> parsePostfixExpression(t, p, left)
    [] OTHER                 -> parseInfixExpression(t, p, left, n)

\* A wrong variant of Bounded: only the recursion is counted.
BoundedByCalls(e) == e

\* kMaxExpressionDepth bounds every expression, however it is built.
Bounded(e) == IF e.ok /\ e.depth > kMaxExpressionDepth THEN Throw(e.pos - 1) ELSE e

\* Extends the expression `left` by what binds tighter than precedence.
Extended(left, whole) == IF whole.ok THEN Bounded([whole EXCEPT !.depth = Deeper(left.depth, @) + 1]) ELSE whole
parseInfixes(t, left, precedence, n) ==
  IF ~left.ok \/ left.pos \notin DOMAIN t \/ precedence >= getPrecedence(At(t, left.pos)) THEN left
  ELSE parseInfixes(t, Extended(left, parseInfix(t, left.pos, left.val, n)), precedence, n)

OneDeeper(e) == IF e.ok THEN [e EXCEPT !.depth = @ + 1] ELSE e
parseExpression(t, p, precedence, n) ==
  IF p \notin DOMAIN t THEN Crash(p)
  ELSE IF At(t, p) \notin PrefixTokens \/ n + 1 > kMaxExpressionDepth THEN Throw(p)
  ELSE Bounded(parseInfixes(t, OneDeeper(parsePrefix(t, p, n + 1)), precedence, n + 1))

\* An expression and the tokens after it, as most statements end.
Then(t, p, types, Made(_)) ==
  Bind(parseExpression(t, p, LOWEST, 0), LAMBDA q, e : Bind(Skip(t, q, types), LAMBDA r, x : Got(r, Made(e))))

\* Parameters: a type, its '?' and a default only in a function's, a name.
parseParameters(t, p, before, full) ==
  LET optional == full /\ At(t, p + 1) = "QUESTION"
      name     == IF optional THEN p + 2 ELSE p + 1
      param(d) == Param(Text(t, name), [type |-> TypeName(t, p), optional |-> optional], d)
  IN  Bind(Skip(t, name, <<"IDENTIFIER">>), LAMBDA q, x :
        Bind(IF full /\ At(t, q) = "ASSIGN"
             THEN Node(parseExpression(t, q + 1, LOWEST, 0), LAMBDA e : Some(IF e.node = "Literal" THEN e.value ELSE e))
             ELSE Got(q, None), LAMBDA r, d :
          IF At(t, r) = "COMMA" THEN parseParameters(t, r + 1, Append(before, param(d)), full)
          ELSE Read(t, Got(r, Append(before, param(d))))))

-----------------------------------------------------------------------------
(* Statements                                                              *)

RECURSIVE parseStatement(_, _), parseStatements(_, _, _), parseMembers(_, _, _), parseCases(_, _, _)

\* The statements up to the END_BLOCK; nothing inside a block recovers.
parseStatements(t, p, before) ==
  IF At(t, p) \in {"END_BLOCK", "nullptr"} THEN Bind(Skip(t, p, <<"END_BLOCK">>), LAMBDA q, x : Got(q, before))
  ELSE Bind(parseStatement(t, p), LAMBDA q, s : parseStatements(t, q, before \o s))

parseBlockStatement(t, p) ==
  Bind(Skip(t, p, <<"START_BLOCK">>), LAMBDA q, x : parseStatements(t, q, << >>))

\* A block after the tokens that introduce it.
Block(t, p, types, Made(_)) ==
  Bind(Skip(t, p, types), LAMBDA q, x : Bind(parseBlockStatement(t, q), LAMBDA r, body : Got(r, Made(body))))

\* An expression, tokens and a block.
Headed(t, p, types, Made(_, _)) ==
  Bind(parseExpression(t, p, LOWEST, 0), LAMBDA q, e : Block(t, q, types, LAMBDA body : Made(e, body)))

Colon == <<"COLON", "NEW_LINE">>
Eol   == <<"NEW_LINE">>

parseInitializationStatement(t, p) ==
  LET optional == At(t, p + 1) = "QUESTION"
      name     == IF optional THEN p + 2 ELSE p + 1
      type     == [type |-> TypeName(t, p), optional |-> optional]
  IN  Bind(Skip(t, name, <<"IDENTIFIER", "ASSIGN">>), LAMBDA q, x :
             Then(t, q, Eol, LAMBDA e : Declare(type, Text(t, name), e)))

\* Whether the bracket of position p closes right before an assignment,
\* looked for to the end of the tokens.
isIndexAssign(t, p) ==
  LET inside(q) == SubSeq(t, p + 1, q - 1)
      depth(q)  == Count([i \in DOMAIN inside(q) |-> T(inside(q)[i][1])], T("LBRACKET"))
                   - Count([i \in DOMAIN inside(q) |-> T(inside(q)[i][1])], T("RBRACKET"))
      closers   == {q \in DOMAIN t : q > p /\ At(t, q) = "RBRACKET" /\ depth(q) = 0}
  IN  closers # {} /\ At(t, 1 + CHOOSE q \in closers : \A r \in closers : q <= r) = "ASSIGN"

parseIndexAssignmentStatement(t, p) ==
  Bind(parseExpression(t, p + 2, LOWEST, 0), LAMBDA q, i : Bind(Skip(t, q, <<"RBRACKET", "ASSIGN">>), LAMBDA r, x :
    Then(t, r, Eol, LAMBDA e : IndexAssign(Identifier(Text(t, p)), i, e))))

parseAssignmentStatement(t, p) == Then(t, p + 2, Eol, LAMBDA e : Assign(Text(t, p), e))

CompoundOp == [PLUS_ASSIGN |-> "ADD", MINUS_ASSIGN |-> "SUB", ASTERISK_ASSIGN |-> "MUL", SLASH_ASSIGN |-> "DIV",
               PERCENT_ASSIGN |-> "MOD"]
parseCompoundAssignmentStatement(t, p) ==
  Then(t, p + 2, Eol, LAMBDA e : Compound(CompoundOp[At(t, p + 1)], Text(t, p), e))

parseReturnStatement(t, p) == Then(t, p + 1, Eol, LAMBDA e : Return(e))
parseYieldStatement(t, p)  == Then(t, p + 1, Eol, LAMBDA e : Yield(e))
parseImportStatement(t, p) ==
  Bind(Skip(t, p + 1, <<"STRING", "NEW_LINE">>), LAMBDA q, x : Got(q, Import(Text(t, p + 1))))

parseIfHead(t, p, Made(_, _)) ==
  Bind(Skip(t, p, <<"IF">>), LAMBDA q, x : Headed(t, q, <<"THEN", "COLON", "NEW_LINE">>, Made))

\* The else part of an if, none or Some(block).  An else-if is an if alone in
\* the else block; after a plain else no other may come.
RECURSIVE parseElse(_, _)
parseElse(t, p) ==
  IF At(t, p) # "ELSE" THEN Got(p, None)
  ELSE IF At(t, p + 1) = "IF"
       THEN Bind(parseIfHead(t, p + 1, LAMBDA e, body : If(e, body, None)), LAMBDA q, s :
              Bind(parseElse(t, q), LAMBDA r, no : Got(r, Some(<<[s EXCEPT !.otherwise = no]>>))))
       ELSE Bind(Block(t, p + 1, Colon, LAMBDA body : Some(body)), LAMBDA q, no :
              IF At(t, q) = "ELSE" THEN Throw(q) ELSE Got(q, no))

parseIfStatement(t, p) ==
  Bind(parseIfHead(t, p, LAMBDA e, body : If(e, body, None)), LAMBDA q, s :
    Bind(parseElse(t, q), LAMBDA r, no : Got(r, [s EXCEPT !.otherwise = no])))

parseWhileStatement(t, p) ==
  Headed(t, p + 1, <<"WHILE", "COLON", "NEW_LINE">>, LAMBDA e, body : While(e, body))

parseForRangeStatement(t, p) ==
  Bind(Skip(t, p + 2, <<"IDENTIFIER", "ASSIGN">>), LAMBDA q, x :
    Bind(Then(t, q, <<"FROM">>, LAMBDA e : e), LAMBDA r, lo :
      Headed(t, r, <<"TO", "COLON", "NEW_LINE">>, LAMBDA hi, body : ForRange(Text(t, p + 2), lo, hi, body))))

parseForEachStatement(t, p) ==
  Bind(Skip(t, p + 2, <<"IDENTIFIER">>), LAMBDA q, x :
    Headed(t, q, <<"IN", "COLON", "NEW_LINE">>,
           LAMBDA e, body : ForEach(Type(TypeName(t, p + 1)), Text(t, p + 2), e, body)))

parseTryCatchStatement(t, p) ==
  Bind(Block(t, p + 1, Colon, LAMBDA body : body), LAMBDA q, body :
    Block(t, q, <<"FAIL", "IDENTIFIER", "COLON", "NEW_LINE">>, LAMBDA handler : TryCatch(body, Text(t, q + 1), handler)))

parseFunctionStatement(t, p) ==
  Bind(Skip(t, p, <<"FUNCTION", "IDENTIFIER">>), LAMBDA q, x : Bind(Read(t, parseSignature(t, q, TRUE)), LAMBDA r, params :
    LET typed    == At(t, r) = "RIGHT_ARROW"
        optional == typed /\ At(t, r + 2) = "QUESTION"
        after    == IF optional THEN r + 3 ELSE IF typed THEN r + 2 ELSE r
        type     == IF typed THEN [type |-> TypeName(t, r + 1), optional |-> optional] ELSE NoType
    IN  Block(t, after, Colon, LAMBDA body : Function(Text(t, p + 1), params, type, body))))

\* A pattern: a type before a colon, a range, or a value.
parsePattern(t, p) ==
  IF At(t, p) = "TYPE" /\ At(t, p + 1) = "COLON" THEN Got(p + 1, TypePattern(Text(t, p)))
  ELSE Bind(parseExpression(t, p, LOWEST, 0), LAMBDA q, lo :
         IF At(t, q) # "TILDE" THEN Got(q, ValuePattern(lo))
         ELSE Bind(parseExpression(t, q + 1, LOWEST, 0), LAMBDA r, hi : Got(r, RangePattern(lo, hi))))

parseCase(t, p) ==
  Bind(parsePattern(t, p + 1), LAMBDA q, pattern :
    Bind(IF At(t, q) = "IF" THEN Bind(parseExpression(t, q + 1, LOWEST, 0), LAMBDA r, e : Got(r, Some(e)))
         ELSE Got(q, None), LAMBDA r, guard :
      Block(t, r, Colon, LAMBDA body : MatchCase(pattern, guard, body))))

\* Cases, a default anywhere among them (the last one counts), blank lines.
parseCases(t, p, match) ==
  CASE At(t, p) = "CASE"     -> Bind(parseCase(t, p), LAMBDA q, c : parseCases(t, q, [match EXCEPT !.cases = Append(@, c)]))
    [] At(t, p) = "DEFAULT"  -> Bind(Block(t, p + 1, Colon, LAMBDA body : body), LAMBDA q, body :
                                       parseCases(t, q, [match EXCEPT !.default = Some(body)]))
    [] At(t, p) = "NEW_LINE" -> parseCases(t, p + 1, match)
    [] OTHER -> Bind(Skip(t, p, <<"END_BLOCK">>), LAMBDA q, x : Got(q, match))

parseMatchStatement(t, p) ==
  Bind(parseExpression(t, p + 1, LOWEST, 0), LAMBDA q, e :
    Bind(Skip(t, q, <<"COLON", "NEW_LINE", "START_BLOCK">>), LAMBDA r, x : parseCases(t, r, Match(e, << >>, None))))

\* Fields, constructor and methods in any order, until anything else.
parseMembers(t, p, class) ==
  CASE At(t, p) = "NEW_LINE" -> parseMembers(t, p + 1, class)
    [] /\ isTypeKeyword(At(t, p)) /\ At(t, p + 1) = "IDENTIFIER"
       /\ At(t, p + 2) \in {"NEW_LINE", "nullptr"} ->
         Bind(Skip(t, p + 2, Eol), LAMBDA q, x : parseMembers(t, q, [class EXCEPT !.fields = (Text(t, p + 1) :> Type(TypeName(t, p))) @@ @]))
    [] At(t, p) = "NEW" ->
         Bind(parseSignature(t, p + 1, FALSE), LAMBDA q, params : Bind(Block(t, q, Colon, LAMBDA body : body), LAMBDA r, body :
           parseMembers(t, r, [class EXCEPT !.ctor = Some(Function("", params, NoType, body))])))
    [] /\ At(t, p) = "FUNCTION"
       /\ ~(At(t, p + 1) = "IDENTIFIER" /\ At(t, p + 2) \in {"NEW_LINE", "nullptr"}) ->
         Bind(parseFunctionStatement(t, p), LAMBDA q, f : parseMembers(t, q, [class EXCEPT !.methods = Append(@, f)]))
    [] OTHER -> Bind(Skip(t, p, <<"END_BLOCK">>), LAMBDA q, x : Got(q, class))

parseClassStatement(t, p) ==
  LET child  == At(t, p + 2) = "LESS_THAN"
      header == (IF child THEN <<"CLASS", "IDENTIFIER", "LESS_THAN", "IDENTIFIER">> ELSE <<"CLASS", "IDENTIFIER">>)
                \o <<"COLON", "NEW_LINE", "START_BLOCK">>
  IN  Bind(Skip(t, p, header), LAMBDA q, x :
             parseMembers(t, q, ClassStmt(Text(t, p + 1), IF child THEN Text(t, p + 3) ELSE "", << >>, None, << >>)))

\* The statement at p; a NEW_LINE alone is none (nullptr).
statementAt(t, p) ==
  LET first  == At(t, p)
      second == At(t, p + 1)
      declares == \/ (isTypeKeyword(first) \/ first = "IDENTIFIER") /\ second = "QUESTION"
                  \/ (isTypeKeyword(first) \/ first = "IDENTIFIER") /\ second = "IDENTIFIER" /\ At(t, p + 2) = "ASSIGN"
  IN  CASE declares -> parseInitializationStatement(t, p)
        [] first = "SELF" /\ second = "DOT" /\ At(t, p + 2) = "IDENTIFIER" /\ At(t, p + 3) = "ASSIGN" ->
             Then(t, p + 4, Eol, LAMBDA e : SelfAssign(Text(t, p + 2), e))
        [] first = "IDENTIFIER" /\ second = "LBRACKET" /\ isIndexAssign(t, p + 1) -> parseIndexAssignmentStatement(t, p)
        [] first = "IDENTIFIER" /\ second = "ASSIGN" -> parseAssignmentStatement(t, p)
        [] first = "IDENTIFIER" /\ isCompoundAssignToken(second) -> parseCompoundAssignmentStatement(t, p)
        [] first = "RETURN" -> parseReturnStatement(t, p)
        [] first = "YIELD"  -> parseYieldStatement(t, p)
        [] first = "IF"     -> parseIfStatement(t, p)
        [] first = "LOOP"   -> IF isTypeKeyword(second) THEN parseForRangeStatement(t, p)
                               ELSE parseWhileStatement(t, p)
        [] first = "EACH"   -> parseForEachStatement(t, p)
        [] first = "TRY"    -> parseTryCatchStatement(t, p)
        [] first = "BREAK"    -> Bind(Skip(t, p + 1, Eol), LAMBDA q, x : Got(q, Break))
        [] first = "CONTINUE" -> Bind(Skip(t, p + 1, Eol), LAMBDA q, x : Got(q, ContinueStmt))
        [] first = "FUNCTION" /\ second = "IDENTIFIER" /\ ~declares -> parseFunctionStatement(t, p)
        [] first = "IMPORT" -> parseImportStatement(t, p)
        [] first = "MATCH"  -> parseMatchStatement(t, p)
        [] first = "CLASS"  -> parseClassStatement(t, p)
        [] OTHER            -> Then(t, p, Eol, LAMBDA e : ExprStmt(e))

parseStatement(t, p) ==
  IF At(t, p) = "NEW_LINE" THEN Got(p + 1, << >>)
  ELSE Bind(statementAt(t, p), LAMBDA q, s : Got(q, <<s>>))

-----------------------------------------------------------------------------
(* Programs                                                                *)

\* Wrong variants of skipToNextLine: it goes on after the block, or begins to look
\* behind the token at which the error was found.
skipToNextBlock(t, p) ==
  LET ends == {q \in DOMAIN t : q >= p /\ At(t, q) = "END_BLOCK"}
  IN  IF ends = {} THEN Deeper(p, Len(t) + 1) ELSE 1 + CHOOSE q \in ends : \A r \in ends : q <= r
skipFromNextToken(t, p) ==
  LET ends == {q \in DOMAIN t : q > p /\ At(t, q) = "NEW_LINE"}
  IN  IF ends = {} THEN Deeper(p, Len(t) + 1) ELSE 1 + CHOOSE q \in ends : \A r \in ends : q <= r

\* skipToNextLine: past the next NEW_LINE, or to the end.
skipToNextLine(t, p) ==
  LET ends == {q \in DOMAIN t : q >= p /\ At(t, q) = "NEW_LINE"}
  IN  IF ends = {} THEN Deeper(p, Len(t) + 1) ELSE 1 + CHOOSE q \in ends : \A r \in ends : q <= r

\* Parsing: the statements, and the positions of the errors.  Every error
\* resumes at the next line, at the top level.  With null dereferenced there is
\* no more.
RECURSIVE ParsingFrom(_, _, _)
AfterStatement(t, done, s) ==
  IF s.ok THEN ParsingFrom(t, s.pos, [done EXCEPT !.statements = @ \o s.val])
  ELSE IF s.val = "null dereference" THEN [done EXCEPT !.crashed = TRUE]
  ELSE ParsingFrom(t, skipToNextLine(t, s.pos), [done EXCEPT !.errors = Append(@, s.pos)])

ParsingFrom(t, p, done) == IF p \notin DOMAIN t THEN done ELSE AfterStatement(t, done, parseStatement(t, p))

Parsing(t) == ParsingFrom(InParts(t), 1, [statements |-> << >>, errors |-> << >>, crashed |-> FALSE])

=============================================================================
