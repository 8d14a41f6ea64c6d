------------------------------- MODULE Printer -------------------------------
(***************************************************************************)
(* The concrete syntax of a tree, by the grammar of the language and not   *)
(* by the parser's code: what a programmer writes to mean that tree, with  *)
(* four spaces to a level and no parentheses that can be left out.  The    *)
(* parser is checked against it.                                           *)
(***************************************************************************)
EXTENDS AST, Lexer

\* Operators from the loosest to the tightest, with their tokens.
Binary == <<[OR |-> "LOGICAL_OR"], [AND |-> "LOGICAL_AND"], [BITOR |-> "BITWISE_OR"], [BITAND |-> "BITWISE_AND"],
            [EQUAL |-> "EQUAL", NOT_EQUAL |-> "NOT_EQUAL"],
            [LESS |-> "LESS_THAN", GREATER |-> "GREATER_THAN", LESS_EQUAL |-> "LESS_EQUAL", GREATER_EQUAL |-> "GREATER_EQUAL"],
            [ADD |-> "PLUS", SUB |-> "MINUS"], [MUL |-> "ASTERISK", DIV |-> "SLASH", MOD |-> "PERCENT"], [POW |-> "POWER"]>>
Power    == Len(Binary)
Unary    == Power + 1
Suffixed == Power + 2
Strength(op) == CHOOSE i \in DOMAIN Binary : op \in DOMAIN Binary[i]
Symbol(op)   == T(Binary[Strength(op)][op])

\* How tightly a tree holds together; a lambda takes all that follows.
Binds(e) == CASE e.node = "Infix"  -> Strength(e.op)
              [] e.node = "Prefix" -> Unary
              [] e.node = "Lambda" -> 0
              [] OTHER             -> Suffixed

RECURSIVE Show(_), ShowAll(_)
Comma          == <<T("COMMA")>>
Enclosed(l, ts, r) == <<T(l)>> \o ts \o <<T(r)>>
ShowAll(es)    == IF Len(es) <= 1 THEN FlattenSeq([i \in DOMAIN es |-> Show(es[i])])
                  ELSE Show(es[1]) \o Comma \o ShowAll(Tail(es))
ShowIn(e, min) == IF Binds(e) < min THEN Enclosed("LPAREN", Show(e), "RPAREN") ELSE Show(e)
ShowOpt(e)     == IF e = None THEN << >> ELSE Show(e[1])
Arguments(es)  == Enclosed("LPAREN", ShowAll(es), "RPAREN")
Ident(name)    == <<Token("IDENTIFIER", name)>>

TypeTokens(type) ==
  (CASE type.type = "function" -> <<T("FUNCTION")>>
     [] type.type \in {"int", "float", "str", "bool", "array", "map"} -> <<Token("TYPE", type.type)>>
     [] OTHER -> Ident(type.type))
  \o (IF type.optional THEN <<T("QUESTION")>> ELSE << >>)
Returns(type) == IF type.type = "any" THEN << >> ELSE <<T("RIGHT_ARROW")>> \o TypeTokens(type)

\* A string's text is what Spell below writes out: its literals, and the tokens
\* of the expressions between them.
ShowValue(v) == CASE Tag(v) = "int"  -> Token("INTEGER", v[2])
                  [] Tag(v) = "str"  -> Token("STRING", <<v[2]>>)
                  [] Tag(v) = "bool" -> T(IF v[2] THEN "TRUE" ELSE "FALSE")
                  [] Tag(v) = "null" -> T("NULL")
                  [] Tag(v) = "float" -> Token("FLOAT", v[2])
ShowParam(p) == TypeTokens(p.type) \o Ident(p.name)
                \o (IF p.default = None THEN << >> ELSE <<T("ASSIGN"), ShowValue(p.default[1])>>)
RECURSIVE ShowParams(_)
ShowParams(ps) == IF Len(ps) <= 1 THEN FlattenSeq([i \in DOMAIN ps |-> ShowParam(ps[i])])
                  ELSE ShowParam(ps[1]) \o Comma \o ShowParams(Tail(ps))
Signature(ps)  == Enclosed("LPAREN", ShowParams(ps), "RPAREN")
RECURSIVE ShowEntries(_)
ShowEntries(kvs) ==
  IF kvs = << >> THEN << >>
  ELSE Show(kvs[1]) \o <<T("COLON")>> \o Show(kvs[2])
       \o (IF Len(kvs) > 2 THEN Comma ELSE << >>) \o ShowEntries(SubSeq(kvs, 3, Len(kvs)))

Show(e) ==
  CASE e.node = "Literal"      -> <<ShowValue(e.value)>>
    [] e.node = "Interpolated" -> <<Token("STRING", [i \in DOMAIN e.segments |->
                                    IF i % 2 = 1 THEN e.segments[i].value[2] ELSE Show(e.segments[i])])>>
    [] e.node = "Identifier"   -> IF e.name = "self" THEN <<T("SELF")>> ELSE Ident(e.name)
    [] e.node = "Infix"        -> LET s == Strength(e.op)
                                  IN  IF s = Power THEN ShowIn(e.left, s + 1) \o <<Symbol(e.op)>> \o ShowIn(e.right, s)
                                      ELSE ShowIn(e.left, s) \o <<Symbol(e.op)>> \o ShowIn(e.right, s + 1)
    [] e.node = "Prefix"       -> <<T(IF e.op = "NEGATE" THEN "MINUS" ELSE "BANG")>> \o ShowIn(e.right, Unary)
    [] e.node = "Postfix"      -> Ident(e.name) \o <<T(IF e.op = "ADD" THEN "INCREMENT" ELSE "DECREMENT")>>
    [] e.node = "Call"         -> (IF e.function.node = "MemberAccess" THEN Enclosed("LPAREN", Show(e.function), "RPAREN")
                                   ELSE ShowIn(e.function, Suffixed)) \o Arguments(e.arguments)
    [] e.node = "MemberAccess" -> ShowIn(e.object, Suffixed) \o <<T("DOT")>> \o Ident(e.member)
    [] e.node = "MethodCall"   -> ShowIn(e.object, Suffixed) \o <<T("DOT")>> \o Ident(e.method) \o Arguments(e.arguments)
    [] e.node = "Index"        -> ShowIn(e.name, Suffixed) \o Enclosed("LBRACKET", Show(e.index), "RBRACKET")
    [] e.node = "Slice"        -> ShowIn(e.object, Suffixed)
                                  \o Enclosed("LBRACKET", ShowOpt(e.start) \o <<T("COLON")>> \o ShowOpt(e.end), "RBRACKET")
    [] e.node = "Array"        -> Enclosed("LBRACKET", ShowAll(e.elements), "RBRACKET")
    [] e.node = "Tuple"        -> Enclosed("LPAREN", ShowAll(e.elements), "RPAREN")
    [] e.node = "HashMap"      -> Enclosed("LBRACE", ShowEntries(e.entries), "RBRACE")
    [] e.node = "Lambda"       -> <<T("FUNCTION")>> \o Signature(e.parameters) \o Returns(e.returns) \o Show(e.body)

-----------------------------------------------------------------------------
(* Statements: a program at some level of indentation is a sequence of     *)
(* lines.                                                                  *)

RECURSIVE Lines(_, _), ShowStatement(_, _), ElseLines(_, _)
At(level, toks)   == <<Line(IndentWidth * level, toks)>>
Lines(body, level) == FlattenSeq([i \in DOMAIN body |-> ShowStatement(body[i], level)])
Nested(level, header, body) == At(level, header \o <<T("COLON")>>) \o Lines(body, level + 1)

Keyword(word, toks) == <<T(word)>> \o toks
CompoundToken == [ADD |-> "PLUS_ASSIGN", SUB |-> "MINUS_ASSIGN", MUL |-> "ASTERISK_ASSIGN", DIV |-> "SLASH_ASSIGN",
                  MOD |-> "PERCENT_ASSIGN"]

Condition(s) == Keyword("IF", Show(s.condition) \o <<T("THEN")>>)
ElseLines(no, level) ==
  IF no = None THEN << >>
  ELSE IF Len(no[1]) = 1 /\ no[1][1].node = "If"
       THEN Nested(level, Keyword("ELSE", Condition(no[1][1])), no[1][1].consequence) \o ElseLines(no[1][1].otherwise, level)
       ELSE Nested(level, <<T("ELSE")>>, no[1])

ShowFunction(f, level) ==
  Nested(level, Keyword("FUNCTION", Ident(f.name) \o Signature(f.parameters) \o Returns(f.returns)), f.body)

ShowPattern(p) == CASE p.kind = "value" -> Show(p.value)
                    [] p.kind = "range" -> Show(p.start) \o <<T("TILDE")>> \o Show(p.end)
                    [] p.kind = "type"  -> <<Token("TYPE", p.type)>>
ShowCase(c, level) ==
  Nested(level, Keyword("CASE", ShowPattern(c.pattern) \o (IF c.guard = None THEN << >> ELSE Keyword("IF", Show(c.guard[1])))),
         c.body)

ShowClass(c, level) ==
  At(level, Keyword("CLASS", Ident(c.name) \o (IF c.parentName = "" THEN << >> ELSE Keyword("LESS_THAN", Ident(c.parentName)))
                             \o <<T("COLON")>>))
  \o FlattenSeq(SetToSeq({At(level + 1, TypeTokens(c.fields[x]) \o Ident(x)) : x \in DOMAIN c.fields}))
  \o (IF c.ctor = None THEN << >> ELSE Nested(level + 1, Keyword("NEW", Signature(c.ctor[1].parameters)), c.ctor[1].body))
  \o FlattenSeq([i \in DOMAIN c.methods |-> ShowFunction(c.methods[i], level + 1)])

ShowStatement(s, level) ==
  CASE s.node = "Expression"      -> At(level, Show(s.expression))
    [] s.node = "Initialization"  -> At(level, TypeTokens(s.type) \o Ident(s.name) \o Keyword("ASSIGN", Show(s.value)))
    [] s.node = "Assignment"      -> At(level, Ident(s.name) \o Keyword("ASSIGN", Show(s.value)))
    [] s.node = "SelfAssignment"  -> At(level, <<T("SELF"), T("DOT")>> \o Ident(s.member) \o Keyword("ASSIGN", Show(s.value)))
    [] s.node = "Compound"        -> At(level, Ident(s.name) \o Keyword(CompoundToken[s.op], Show(s.value)))
    [] s.node = "IndexAssignment" -> At(level, Show(s.collection) \o Enclosed("LBRACKET", Show(s.index), "RBRACKET")
                                               \o Keyword("ASSIGN", Show(s.value)))
    [] s.node = "Return"   -> At(level, Keyword("RETURN", Show(s.expression)))
    [] s.node = "Yield"    -> At(level, Keyword("YIELD", Show(s.expression)))
    [] s.node = "Break"    -> At(level, <<T("BREAK")>>)
    [] s.node = "Continue" -> At(level, <<T("CONTINUE")>>)
    [] s.node = "Import"   -> At(level, Keyword("IMPORT", <<Token("STRING", <<s.filename>>)>>))
    [] s.node = "If"       -> Nested(level, Condition(s), s.consequence) \o ElseLines(s.otherwise, level)
    [] s.node = "While"    -> Nested(level, Keyword("LOOP", Show(s.condition) \o <<T("WHILE")>>), s.body)
    [] s.node = "ForRange" -> Nested(level, Keyword("LOOP", <<Token("TYPE", "int")>> \o Ident(s.name) \o Keyword("ASSIGN", Show(s.start))
                                                           \o Keyword("FROM", Show(s.end)) \o <<T("TO")>>), s.body)
    [] s.node = "ForEach"  -> Nested(level, Keyword("EACH", TypeTokens(s.elementType) \o Ident(s.name) \o Show(s.iterable)
                                                           \o <<T("IN")>>), s.body)
    [] s.node = "TryCatch" -> Nested(level, <<T("TRY")>>, s.tryBody)
                              \o Nested(level, Keyword("FAIL", Ident(s.errorName)), s.catchBody)
    [] s.node = "Function" -> ShowFunction(s, level)
    [] s.node = "Match"    -> At(level, Keyword("MATCH", Show(s.subject) \o <<T("COLON")>>))
                              \o FlattenSeq([i \in DOMAIN s.cases |-> ShowCase(s.cases[i], level + 1)])
                              \o (IF s.default = None THEN << >> ELSE Nested(level + 1, <<T("DEFAULT")>>, s.default[1]))
    [] s.node = "Class"    -> ShowClass(s, level)

-----------------------------------------------------------------------------
(* Strings are written out, to be read by the lexer.  A quote and a        *)
(* backslash are escaped; of the two ways to write a brace each has one.   *)

Escaped(c)     == IF c \in {Quote, Backslash} THEN <<Backslash, c>> ELSE <<c>>
Character(c)   == CASE c = OpenBrace -> <<Backslash, c>> [] c = CloseBrace -> <<c, c>> [] OTHER -> Escaped(c)
Spelled(chars) == FlattenSeq([i \in DOMAIN chars |-> Character(chars[i])])
Escape(chars)  == FlattenSeq([i \in DOMAIN chars |-> Escaped(chars[i])])

\* An expression in a string.  A map's brace is kept from the one before it.
CharactersOf(token) == IF token[1] = "STRING" THEN <<Quote>> \o Escape(token[2]) \o <<Quote>> ELSE <<token>>
InBraces(toks) ==
  <<OpenBrace>> \o (IF toks[1] = OpenBrace THEN <<Space>> ELSE << >>)
  \o Escape(FlattenSeq([i \in DOMAIN toks |-> CharactersOf(toks[i])])) \o <<CloseBrace>>

RECURSIVE Spell(_)
Written(segments) ==
  FlattenSeq([i \in DOMAIN segments |-> IF i % 2 = 1 THEN Spelled(segments[i]) ELSE InBraces(Spell(segments[i]))])
Spell(toks) ==
  [i \in DOMAIN toks |->
     IF toks[i][1] = "STRING" THEN Token("STRING", readString(Append(Written(toks[i][2]), Quote), 1).text) ELSE toks[i]]

\* The text of a program.
SpellLines(lines) == [i \in DOMAIN lines |-> [lines[i] EXCEPT !.toks = Spell(@)]]
Printed(program)  == SpellLines(Lines(program, 0))

=============================================================================
