# The Hong-ik interpreter in TLA+

Hong-ik is a small programming language with Korean keywords. Its interpreter, in
C++, reads a text with a lexer and a parser, checks types without running, and then
runs it on one of two back ends: a compiler to byte code with a stack machine (the
default) or a tree-walking evaluator (`--eval`). Three programs are built around it:
a REPL, the page of a playground, and a language server. The repository requires both
back ends to do the same on every program
(`docs/superpowers/specs/2026-06-12-runtime-consistency-design.md`) and the type check
to reject only what both reject
(`docs/superpowers/specs/2026-06-11-static-type-system-phase-b-design.md`).

This directory models the path of a program from its characters to its output and the
three services, checks them with TLC on complete families of small programs, texts and
message sequences, and proves what keeps the stack machine, the integers and the
services consistent for any input.

1. [The system](#the-system)
2. [Modules](#modules)
3. [Runs](#runs)
4. [What is proved](#what-is-proved)
5. [Where the program departs from what it says](#where-the-program-departs-from-what-it-says)
6. [Not modelled](#not-modelled)
7. [Plan](#plan)

## The system

    text -> Lexer -> Parser -> AST -> TypeChecker (reports; strict mode refuses)
                                |-> Compiler -> optimizeChunk -> VM -+-> builtins, IOContext
                                `-> Evaluator (Environment) ---------+   checked_int, slice_utils
    callers: main.cpp (file), repl, web (with an ExecutionLimiter), lsp (up to TypeChecker)

The interpreter is one thread. Within a program what is hard is not interleaving but
*control*: break, continue, return, exceptions, generators, constructors and imports
all leave code in the middle, and the compiler must count, for each of them, which
slots, handlers and frames are open; the machine must find the same number at run
time. Around it what is hard is *state that outlives a call*: the lexer's indent, a
session's globals, a page's files, a server's documents stay when an input fails half
way. Only the language server has a real partner, an editor that sends without waiting.

| Component | State | Operations | Hard | What makes it correct |
|---|---|---|---|---|
| VM `vm/vm.cpp`, `vm_handlers.cpp` | operand stack, frames, exception handlers, globals, imported files, limiter | one handler per opcode, throw and unwind, return | unwinding through several calls; handlers left by a return in a try; frame limit; limiter against `catch` | handlers belong to live calls and to their own function; callers keep their frames; a statement finds its locals where the compiler put them; the limiter ends programs |
| Compiler `vm/compiler*.cpp` | per function: code, locals, upvalues, scope depth, loops, try depth, unreachable flag | one method per node kind | jumps out of scopes and trys, flag left set, upvalues through levels | the code means what the tree means |
| Peephole `vm/peephole.cpp` | none (a pass) | `optimizeChunk` | positions move under jumps | same meaning |
| Evaluator `evaluator/evaluator.cpp`, `environment/` | chain of environments, heap, yielded values, imported files, recursion depth, limiter | one branch per node kind | control signals are ordinary results and must be taken off at the right place | it is the reference |
| `util/checked_int.h` | none | add, sub, mul, neg, div, mod, pow; two builds | range tests may overflow themselves; powers overflow on the way | both builds agree with the exact result |
| ExecutionLimiter | start time, loop count | count, timeout | thrown into a program that catches | ends every loop |
| Builtins `object/builtins` | none of their own | about sixty functions | pure data; some change their argument | table of values |
| Lexer `lexer/`, `util/token_utils.h` | indent, kept from call to call | Tokenize, a line or a text at a time; closers at the end | blocks from indentation, blank lines, comments, an exception with the indent half moved | every opened block is closed once; a line at a time gives what a text gives |
| Parser `parser/` | position, expression depth | statements, expressions, interpolated strings, recovery | precedence, depth bound, an error inside a block, tokens that are not there | what is accepted is what one writes to mean its tree; an error costs its own line |
| TypeChecker `analyzer/type_checker*` | scopes of types, narrowings, classes, diagnostics | one visit per node kind | agreement with what happens at run time | what passes runs; what is diagnosed fails |
| SymbolCollector `analyzer/symbol_collector.cpp` | a list of symbols | one traversal | none | a table of names |
| REPL `repl/` | tokens so far, two counts of open blocks, globals | read a line, run when no block is open, end | input that fails half way; the two counts | an input is run once and as a file would be |
| Web `web/` | lexer, files in memory, output buffer, back end | Execute, SetBackend, WriteFile, DeleteFile, Reset | state left by a call that failed, or that ended in a block | a call is answered as in a new page that is as deep in a block; what one text leaves open reaches the next and no further |
| LSP `lsp/` | open documents, life cycle | read, dispatch, answer, publish | an editor that does not wait, damaged frames, a document that kills the analysis | one answer for each request, in order, about the right text |

**Interaction.** The compiler and the VM share no code that would keep them in step:
the compiler *assumes* a height of the operand stack and a number of open handlers
wherever a statement starts, and the VM's opcodes produce them. The back ends share
`checked_int`, the builtins and the slice and type helpers. A limiter is passed to the
back end by the web interface; the VM asks it at `OP_LOOP` and `OP_ITER_NEXT`, the
evaluator at each round of a loop; it acts by throwing. The REPL and the page keep one
lexer for all their calls: what a call leaves in its indent, the next call starts with.
The REPL keeps in addition a count of its own, from the same tokens. The VM of the REPL
works on a copy of the session's globals, the evaluator on the environment itself. The
language server hands its documents to lexer, parser and type check and keeps the result.

The properties for the hazards of this code are listed in `PROJECT.json`, each hazard
at its line. Three have no property: the clock that is asked in loops only (`vm/vm.cpp:77`),
jumps cut to sixteen bits (`vm/chunk.h:72`, code is measured in instructions here), and an
array that grows while the evaluator's for-each walks it (`evaluator/evaluator.cpp:355`,
undefined behaviour).

## Modules

| Module | Models | How it corresponds to the code |
|---|---|---|
| `CheckedInt` | `util/checked_int.h` | one operator per function; `portable*` is the branch without compiler intrinsics; `MaxInt` is the greatest `long long`; an undetected overflow shows as a number outside `Word` |
| `Bytecode` | `vm/opcode.h`, `vm/chunk.h` | an instruction is one record with an operand; addresses count instructions, not bytes |
| `Values` | `vm/vm_value.h`, `object/object.h`, `VM::binaryOp`, slices, type names | tagged tuples; containers with identity live in `heap`; `Float` is one opaque value |
| `AST` | `ast/` | a record per node kind |
| `Lexer` | `lexer/lexer.cpp`, `util/token_utils.h` | `LexLine` is a call of `Tokenize` for one line with the indent before and after; strings character by character in `readString` |
| `Parser` | `parser/parser.cpp` | one operator per method; the position is a parameter, an exception or a read past the end is a result |
| `Texts` | texts cut in two | what two calls of `Tokenize` have to make of a text, `IncrementalAgrees` |
| `Printer` | the language's grammar | external to the code on purpose: what one writes to mean a tree, against which the parser is checked |
| `TypeChecker` | `analyzer/type_checker*.cpp`, `util/type.cpp` | one operator per visit; the state is the scopes, the classes and the diagnostics' codes |
| `VM` | `vm/vm.cpp`, `vm/vm_handlers.cpp`, `sandbox/execution_limiter.h` | a state machine: each opcode handler is one action, with its checks in the code's order; `Fetch` is the dispatch, `Throw` the two catch clauses of `run()`; the variables are the members of `VM` |
| `Compiler` | `vm/compiler*.cpp` | a function from tree to code; the state `c` holds the stack of `CompilerState`s; one operator per `compileX` |
| `ConstantFold` | `vm/compiler_expr.cpp`, `tryConstantFold` | what the compiler computes of two literals; apart from `Compiler`, so that it can be proved about |
| `Generators` | `containsYield` of both back ends | one recursive operator, shared by `Compiler` and `Evaluator` |
| `Peephole` | `vm/peephole.cpp` | which pairs are fused, `posMap`, the jumps remeasured |
| `Evaluator` | `evaluator/evaluator.cpp`, `environment/` | a recursive function from the state to the state left and a completion: a value, nothing, a control signal or an exception; with `MAX_RECURSION_DEPTH` and the limiter's count |
| `Backend` | what running a program promises | abstract: print the expected lines one by one, then end the expected way |
| `Runtime` | VM on compiled programs | extends `VM`; states the refinement of `Backend`, what each statement finds when it begins (`StatementStack`, `StatementHandlers`) and each instruction when it is fetched (`OwnValues`), and what code must be like for its handlers and its operands to be right (`Balanced`, `Stacked`) |
| `Toolchain` | source to what runs | `Peephole` after `Compiler`, next to the `Evaluator`'s result |
| `Session` | `repl/repl.cpp` `Repl::Run` | one action per way a turn of the loop goes; the parser and the back ends are parameters |
| `Shell` | what a session promises | abstract: lines are collected until they end an input, which is run as a file on the session's globals |
| `Playground` | `web/wasm_interface.cpp`, `memory_filesystem.h` | one action per method that changes something |
| `Page` | what a page promises | abstract: every text is answered as in a new page with the same files and back end, as deep in a block; how deep the next one begins follows from the lines |
| `LanguageServer` | `lsp/main.cpp`, `jsonrpc.cpp`, `server.cpp`, `document_store.cpp`, and an editor | the server takes one frame and handles it to its end; the editor's actions are its environment |
| `MCBytecode`, `MCStatements`, `MCFeatures`, `MCArithmetic`, `MCSyntax`, `MCTokens`, `MCTypes`, `MCSession`, `MCPlayground`, `MCLanguageServer` | the inputs of the passing runs | families of programs, texts, lines and messages |
| `MCDivergence`, `MCClaims`, `MCServices` | the inputs of the other runs | one small input for each disagreement |
| `VMProofs`, `StackProofs`, `CheckedIntProofs`, `LexerProofs`, `SessionProofs`, `PlaygroundProofs`, `LanguageServerProofs` | theorems | see below |
| `Induction` | lemmas of the proofs | induction over naturals by sets instead of operators |

How they compose: `Toolchain` = `AST` -> `Compiler` -> `Peephole` -> `VM`, with `Evaluator`
beside it; `Session` and `Playground` extend `Lexer` and are given the `Parser` by their MC
modules; `MCTypes` runs `TypeChecker` and `Evaluator` on the same tree; `MCServices` runs a
session and a server after each other.

The wrong variant of a definition that a property notices is kept in `PROJECT.json`
(`mutants`); a few that need a helper stand beside their neighbour in the module
(`UnwoundTooFar` beside `Unwound`), used by nothing.

Abstractions worth knowing:

- **One step is one instruction** of the VM, one turn of the REPL's loop, one call of the
  page's object, one message of the server. The code between is sequential and cannot be
  seen by anyone; an exception in a handler is the outcome of its step, with what it had
  already changed (a stack half popped, a lexer's indent half moved, a document stored
  and not yet published) left as in the code.
- **Tokens** are a type and a text. Characters appear only where the code's control depends on
  them: in strings, whose braces hold expressions that are lexed and parsed again, and as
  the character no token starts with.
- **Strings** are sequences of parts, **names** are strings, error texts are kinds
  (`"declared-type"`, `TC002`); line numbers are dropped. String ordering, the bitwise operators
  and arithmetic on real doubles are left out.
- **Marks.** `Compiler` notes, besides the code, at which address each statement starts
  and how many locals and try bodies are open there. The VM does not read the marks; they exist
  so that `Runtime` can relate the compiler's count to the machine's state.
- **A death of the process** (a null token read, an endless search) is an outcome of the
  operation that meets it, and ends the service.
- **Builtins**: print, length and push stand for the library; they are external.

## Runs

Bounds are constants in the `.cfg` files. `bytecode`, `statements` and `arithmetic` check
deadlock: a finished VM stutters (`Ended`). The others are given finitely many inputs, or
follow a service that may end, and stop there.

| Run | Input | Properties | States |
|---|---|---|---|
| `bytecode` | every main program of `MainLength` 4 pieces out of eight (push, two try-begins, try-end, call, a failing instruction, loop, pop) with every callee of one piece out of six, one of which makes an object where it may not call on; most of them no compiler emits | `TypeOK`, `HandlersLive`, `CatchInOwnFunction`, `FramesBounded`, `CallersUntouched`, `LimiterEnds` | 283601 |
| `statements` | a function whose body is any statement of a grammar nested to `Depth` 2: while, for-range, for-each, try (with three kinds of handler) and if around break, continue, return, failing statements, calls and local declarations; and each ordered pair of programs for the other features (operators, variables, collections, functions, closures, classes, match, generators), followed by imports, a print, a failure or a return; 1690 programs | `CodeBalanced`, `CodeStacked`, `StatementStack`, `OwnValues`, `StatementHandlers`, `SameAsEvaluator` | 98401 |
| `arithmetic` | every operator and pair of six-bit integers | `PortableAgrees`, `PowExceptMin`, `FoldExact` | 49152 |
| `syntax` | 2969 trees: every kind of statement, nested and next to each other, and strings with escapes, with expressions, with strings in those; printed, and then edited: a blank line or a comment put in, or one line spoiled | `ParsesBack`, `IncrementalAgrees`, `ErrorsRecover` | 25913 |
| `tokens` | every sequence of up to 5 tokens out of 9, a string with an expression in it among them; depth bound 3 | `DepthBounded`, `AcceptsOnlySentences`, `LinesIndependent` | 57105 |
| `types` | programs of up to four statements about an integer, an optional, a text and two functions, or of up to five about two classes and their objects | `SafetyNet`, `OnlyRejected` | 11018 |
| `session` | up to 5 lines out of 13, indented as the grammar asks, on both back ends | `TypeOK`, `CountersAgree`, `NothingIsLeft`, `EvaluatorRemembers`, `KeepsThePromise` | 88536 |
| `playground` | 16 texts, half of which close their blocks; the others end in one, break off in one, begin in one or are blank; in any order and number, between writes, deletions, resets and changes of back end | `TypeOK`, `OnlyTheLastText`, `KeepsThePromise` | 846 |
| `language_server` | 3 messages about two documents and five texts (right, fatal to the parser, endless for the type check, one that throws while it is analysed, one whose diagnostics cannot be written), over a pipe that may damage a frame | `TypeOK`, `AnsweredInOrder`, `NothingSkipped`, `AnswersAreCurrent`, `DiagnosticsSettle`, `Answered` | 573211 |

*The back ends*

- `HandlersLive`, `CatchInOwnFunction`, `CallersUntouched` hold for *any* byte code, so
  they do not rest on the compiler. Four pieces are enough for a handler registered,
  a call that registers its own, an exception through both and a second use of what is
  left. `FRAMES_MAX` is 3, so recursion reaches the limit, catches the error and tries again.
- `FramesBounded` speaks of calls of functions; the code does not bound methods,
  constructors and imports. In the run constructors do pass the limit, and functions they call do not.
- `LimiterEnds` is the only promise of termination: with a limiter every loop ends,
  also one that catches what the limiter throws. It needs the clock or the counter to
  keep failing, and handlers to be consumed when they catch. `MaxLoopIterations` is 2.
- `StatementStack` and `StatementHandlers` relate the two components: whenever a
  statement begins, however control got there, the operands of the call are just the locals the
  compiler counts on, and the handlers of the call just the try bodies around the statement.
- `CodeBalanced` is what `StatementHandlers` takes of the compiler: on whatever path an instruction
  is reached, the same try bodies have been begun and not ended, by the code alone and without
  running it. It is looked at when a program starts. The two are different questions: code may
  be balanced and the machine still keep a handler too many.
- `CodeStacked` is the same for the operands: on whatever path a place in the code is reached,
  the same values have been pushed and popped, no instruction takes more than its
  call has put there since the innermost try body began, and a statement begins at the height of its locals.
- `OwnValues` is what this buys at run time: `pop()` and `peek()` look only at whether the *whole* stack has
  a value, and `opClosure` takes the slots it captures without a look, so nothing in the machine
  keeps an instruction from its caller's values but that code and unwinding agree.
- `SameAsEvaluator` is a refinement: `Runtime` implements `Backend` with `expected`
  given by `Evaluator`, safety and liveness: the same lines in the same order, the same
  way to end, and an end. The programs of this run are finite. `FRAMES_MAX` 8 and
  `MAX_RECURSION_DEPTH` 30 (256 and 1000 in the code, about the same ratio) leave room for every
  program but the function that calls itself without end, which both stop and the program catches.
- `MaxInt` is 31 in `arithmetic` (a word of six bits: all sign cases, the least
  integer, powers beyond the word) and 7 elsewhere, so that ordinary programs overflow.

*The front end*

- `ParsesBack`: what is printed for a tree is read as that tree, whatever blank lines
  and comments are put in. The printer follows the grammar and shares nothing with the
  parser but the tokens. There is one edit to a text, at every place and of every width.
- `IncrementalAgrees`: a text handed over in two parts, cut after any line of code, gives the tokens
  of the whole; after a blank line it does not have to, since a blank line at the end of a
  call closes the blocks, and the REPL relies on that.
- `ErrorsRecover`: with one line spoiled, all that comes before the statement with the error
  survives, and after it as well when the error is at the top level; inside a block it is a finding.
- `DepthBounded`, `AcceptsOnlySentences`, `LinesIndependent` go the other way, from tokens that
  mean nothing: the parser builds no tree deeper than its bound, accepts nothing but what
  one writes to mean what it makes of it, and an error costs its own line. Five tokens hold two operators with
  their operands, an index or a slice, or two lines with an error in one; four of them make
  a tree deeper than three.
- `SafetyNet` is the first half of the type system's principle, *what passes the check
  does not fail*, `OnlyRejected` the second, *what is diagnosed fails*. Both compare the
  checker with the evaluator; programs a documented limit of the check lets through are not
  built (`InReach`): names declared twice and types that name no class yet. Also left out of
  the families, because the check says nothing about them by design or they are findings:
  narrowing in loops, names bound in match, compound assignments, missing returns, arguments
  of constructors, negative exponents, fields never given a value, closures called in
  a branch. Four statements hold a declaration, a change of its state, a test and a use.

*The services*

- `CountersAgree`: the session's count of open blocks is the lexer's, and one more while
  a header awaits its block. `NothingIsLeft`: a session never ends with lines it has not
  answered. Both are of a careful user (`Careful`), one who indents as the grammar
  asks and does not end in the middle; the `services` run shows another one.
- `EvaluatorRemembers`: on `--eval` what an input defined before it failed is kept.
- `KeepsThePromise` (twice) is a refinement: `Session` implements `Shell`, `Playground` implements
  `Page`. In a session the lexer is back at the margin after every input of a careful
  user, also one that failed. In a page it is not: a text that ends in a block, or that
  throws in one, leaves the lexer there. So `Page` has one number beside files and
  back end, the level a text begins at, and `Leaves` says what becomes of it from the
  widths of the lines alone: the last line with code that is read, or a blank one after it that
  is less deep. `OnlyTheLastText` says how far this reaches: between two calls the lexer
  is as deep as the last text with code would leave it *in a new page*, so that what a text
  leaves open changes how the next is read, and never one after that.
  The session's thirteen lines hold every kind: headers, lines of a body, dedents, blanks of two widths,
  definitions, a use that may fail, an else, an unreadable character, comments, and a lambda at which the
  parser dies; five of them hold two inputs, or a block with one inside it. A blank line that
  closes only some of the blocks is among them, but no `else` two levels deep after it (see
  *Files and REPL* below).
- `AnsweredInOrder`, `NothingSkipped`, `Answered`: every request is answered once and in order, or
  the server stops. `AnswersAreCurrent` relates an answer to the editor's document *at the time
  of the question*, although more changes were under way; `DiagnosticsSettle` says that what is
  shown in the end belongs to the last text. Three messages hold open, change and ask, or ask, close
  and ask, with any of them damaged. A text may throw while it is analysed, and the store and the
  screen keep what they had; or while its diagnostics are written, and the store has it
  while the screen does not. Answers are about the text in the second case; in neither is
  anything kept that the next change of the document does not make good.

**Fairness.** `WF_vars(Step)` for the VM: `run()` is a loop that waits for nothing, so while
the program runs the next instruction is executed. The clock (`Clock`) has none: the
deadline may never pass. `WF_vars(Serve)` for the server: its loop always reads the next
message and handles it. The editor has none, nor has the pipe: nothing has to be sent.

## What is proved

Each theorem holds for every value of the constants its assumptions allow, and no theorem rests
on the bounds of a run. `tlapm` checks every proof to its leaves.

**`VMProofs`**: every set of programs, every `FRAMES_MAX`, with and without limiter, from
`VMAssumption` (the bounds are naturals, a program's main function exists, its classes have a constructor or none).

- `TypeCorrect`: `Spec => []TypeOK`; `HandlersStayLive`: `Spec => []HandlersLive`.
- `CatchesInOwnFunction`: `Spec => []CatchInOwnFunction`.
- `CallersStayUntouched`: `Spec => CallersUntouched`.
- `FunctionsStayBounded`: `Spec => []FramesBounded`.
- `HandlersAsCompiled`: `Spec => []StatementHandlers`, for programs whose functions are all `Balanced`.

*Argument.* The machine has some forty actions but few ways to change control. `Effect`
lists them: a step moves within its frame, ends the program, unwinds to the
innermost handler, enters a call, leaves one, registers a handler or removes one. `StepEffect`
shows that every action is one of these, action by action, and to which address it goes;
everything else is proved once per effect. The inductive invariant is `IInv == TypeOK /\ HandlersLive`:
`TypeOK` alone is not inductive, since a throw cuts the frames to the depth of the innermost handler,
and only `HandlersLive` says that this depth lies between one and the number of frames, so that a running
program keeps a current frame. In turn, a return discards the handlers deeper than the frame that
remains, and discards *all* of them only because handlers are ordered by depth; `LiveCountFacts`
finds the cut. `CatchInOwnFunction` and `CallersUntouched` follow step by step from the
invariant: a frame that stays keeps its function, and only the topmost of the
frames that stay is written. `FramesBounded` needs that the set of constructors only grows
(`ClassesAfter`): a class that takes over its parent's members when it is defined keeps its own.

`HandlersAsCompiled` joins the compiler's count of try bodies to the machine's stack of handlers.
`Reached` follows the code of one function: from an address and a number of open try bodies to
those that can come next, a try body's catch included. The invariant that is added, `FollowsCode`, says that every
call that is under way stands at an address its code reaches with just as many open
try bodies as it has handlers registered, and that each handler's catch is reached with as many as
there are handlers of the call before it. A throw lands there exactly because the handlers of
the calls it abandons, and the one it uses up, are gone; a return because `FollowsCode` speaks of all
calls and not only of the top one. Two things that could go wrong cannot: a TRY_END without a handler would
be an address reached with a negative count, and a call of a function that does not
exist is excluded by `Enter`, since in the code a value that is called holds its function.
`Balanced` then fixes the count at the start of each statement. It is no assumption on the
machine but on the code it is given; `CodeBalanced` finds it of every program of the
`statements` run, and no proof can find it of the compiler, which is recursive.

**`StackProofs`**: the operand stack, on top of `VMProofs`, for programs whose functions are all
`Stacked` (`ProgramsStacked`, what `CodeStacked` looks at).

- `StackAsCompiled`: `StatementStack`, for programs without classes (and, as it says itself, without imports).
- `ValuesStayOwn`: `OwnValues`, for the same programs.

*Argument.* `Levels` follows the code of a function as `Reached` does, with the height of the stack and, for
each try body, the height at which it began. The invariant says that every call is *placed*
(`CallPlaced`): the address it stands at is one its code leads to with just as many values as lie between its
`slotOffset` and that of the next call, or the top of the stack, and in just the try bodies that are
its handlers, each with its `stackDepth`; and that each handler's catch is a place of its code, too
(`HandlerPlaced`). It speaks of all calls, since a return and a throw each put one of them back on top.
A caller stands at the place *after* its call already: the callee's slots begin above the called value,
and a return puts its result where that value was. A throw cuts the stack to the
`stackDepth` of the handler and pushes the exception, which is what `Onward` says of a catch's address; that the cut
takes nothing from the calls below needs `Ordered`. `StepPlaced` goes through the ways a step can end, as
`StepEffect` did, but now with the height every instruction leaves, which is where the forty actions differ.

The exclusions are where the program departs from what it says. A constructor's return removes a local of
its caller (`LocalBeforeObject` below), so that with classes both statements are false of some stacked
programs. An imported file leaves its value on the stack (`LoopAfterImport`), which the code around it does not count:
heights are then no longer the ones the code leads to, `StatementStack` excepts such programs itself, and
`OwnValues`, which may well hold of them, would need an invariant with bounds in place of heights. With
classes there is one more obstacle: that a function called as a value is not a method, which
finds its object in a slot more, depends on what values there are and not on heights. The programs of the
`statements` run have classes and imports, away from the findings, and both statements are checked of them.

**`LexerProofs`**: texts of every length over every set of tokens.

- `PartsAgree`: `IncrementalAgrees`, if all lines but the last are `Readable`: no character that
  starts no token, no comment left open.

*Argument.* `Tokenize` is a recursive function of the lines. In the first part the lexer is after each line where
it is in the whole (`FirstPart`); the only look ahead is the search for code after a blank
line, and the line that is not blank at the end of the part ends that search in both. In
the second part it is where it is in the whole, but for the tokens that came before (`SecondPart`), which no line
looks at (`BehindFacts`). The hypothesis is what one call cannot pass on: after an
exception it returns no more, and an open comment ends with the call, so that a second call
reads lines that one call would have swallowed.

**`SessionProofs`**: every set of lines, every parser and every pair of back
ends, from `SessionAssumption` (a line is spaces and a sequence of tokens), for a careful user.

- `SessionTypeCorrect`, `CountersStayEqual` (`CountersAgree`), `EndLeavesNothing` (`NothingIsLeft`).
- `SessionKeepsItsPromise`: `Spec => KeepsThePromise`, the refinement of `Shell`, and
  `EvaluatorForgetsNothing` (`EvaluatorRemembers`), for blank lines entered at the margin (`BlankLinesPlain`).

*Argument.* `IInv == TypeOK /\ CountersAgree /\ Collected /\ NothingIsLeft`. The two counts are
changed by different code, so their equality rests on what a line's tokens are: `BlockTokens`
opens at most one block and closes any number, and a header is a line whose last token is
a colon. `Collected` says that tokens and lines are kept exactly while a block is open or awaited, without
which the reset after an answer would lose a line. For the promise `PInv` adds `Gathered`: the
tokens collected are what `Tokenize` makes of the lines collected, as one text, and their open blocks are the
lexer's indent. A line at a time gives what a text gives since a text is lexed from left to right
but for one thing, the search for code after a blank line: a blank line in the middle of a
file is skipped, and the same line typed in is not. With `BlankLinesPlain` a blank line always ends
the input and so is the last one. The hypothesis is needed: without it the sentence is false for some
parsers, the real one included (*Files and REPL* below). The `session` run goes further than
the theorem there, with a blank line of four spaces, and less far in the number of lines.
`Lexed` and `Remembered` are recursive functions of a sequence, which the lemmas unfold by one line or answer.

**`PlaygroundProofs`**: every set of texts, files, parser and back end, from `PlaygroundAssumption`
(texts are sequences of lines, at least one, with a width that is a natural; a back end leaves files): `PlaygroundTypeCorrect`,
`OnlyTheLastTextCounts` (`OnlyTheLastText`), and `PageIsKept`, the refinement of `Page`.

*Argument.* What the proofs need of the lexer is the lemma `LexerLeaves`: the indent after a text is what `Leaves` says,
whatever is in the lines and wherever Tokenize throws. `Tokenize` is a recursive function of the
lines, so the lemma is an induction on how many are read; a line with code or a comment puts the indent at its
own depth, a blank one can only take it down to its own (or leaves it, when code follows), and after the
last line with code only the least of the blank ones counts. `CodeCovers` follows: once a text has code, the level it
began at is not in that minimum. So `IInv == TypeOK /\ OnlyTheLastText` is inductive, and each action of the playground maps to
the page's action of the same name, with the lexer's indent for `level`.

**`LanguageServerProofs`**: any number of messages, documents and texts, from
`ServerAssumption`.

- `ServerTypeCorrect`, `AnswersInOrder` (`AnsweredInOrder`), `NoRequestSkipped` (`NothingSkipped`).
- `AnswersCurrent` (`AnswersAreCurrent`), `DiagnosticsCatchUp` (`DiagnosticsSettle`).

*Argument.* `AnsweredInOrder` speaks of what was written; what makes it inductive is what waits. The
invariant adds that the requests in the pipe are in order (`WaitingInOrder`), are older than
the next to be sent (`WaitingRecent`), and come after all that was answered (`AnsweredBefore`,
`AnsweredRecent`). A step of the server moves the first of the ones that wait to the end of the others.
For the documents, `Leaves` says what the first messages of the pipe make of a document. `DocInv` has
that all of them lead to the editor's text (`InStep`), that those before a request lead to the text the editor
had when it asked (`RequestsKnown`), and that the diagnostics last shown are of the server's text
(`InView`), but for a document whose diagnostics could not be written: a step of the server takes the first message away and makes its change, a step of the editor adds
one at the end, and damage, or an exception in the analysis, is counted out where it strikes (`lost`, `sure`).

`Induction` has the induction the other modules use: the library's theorems take an operator,
which no installed prover can instantiate; `LeastElement` and `SetInduction` take the set of numbers
for which a statement holds.

**Only model-checked.**

- `CodeBalanced` and `CodeStacked`, the hypotheses of `HandlersAsCompiled` and of `StackProofs`: they are
  about the compiler, a recursive operator. `StatementStack` and `OwnValues` of programs with classes, and
  `OwnValues` of those that import.
- `SameAsEvaluator`, `ParsesBack`, `ErrorsRecover`, `DepthBounded`,
  `AcceptsOnlySentences`, `LinesIndependent`, `SafetyNet`, `OnlyRejected`: what `Compiler`, `Evaluator`,
  `Parser` and `TypeChecker` do with a tree. They are recursive operators, which the prover does not
  take, and the statements are inductions over trees.
- `LimiterEnds` and `Answered`, and the liveness in `SameAsEvaluator`: liveness under fairness is
  out of the prover's reach.


## Where the program departs from what it says

Three runs end in a violation. Each is given a list of small inputs, one after the other,
and goes on to the next when the statement about the last one did not hold; its property says that
one of them holds, so that its violation is that none does. All were also seen in the
built interpreter, or, for page and server, read in the code.

| Run | Input | What happens |
|---|---|---|
| `divergence` | `BreakPastLocals` | break leaves the locals of the blocks it jumps out of on the VM's stack; later locals are off |
| | `LocalInForEach` | a local in a for-each body is taken for the iterator in the next round |
| | `ContinueAtLast` | the evaluator: continue in the last round of a loop also skips the rest of the block around the loop |
| | `LocalBeforeObject` | a constructor's return drops the caller's last local |
| | `LoopAfterImport` | the value of an imported file stays on the stack |
| | `ReturnInCase` | a case ending in return makes the compiler drop what follows the match |
| | `CountedTwice` | a for-each round is counted by `OP_ITER_NEXT` and by `OP_LOOP` |
| | `AsManyAsAllowed` | the evaluator counts the test that ends a loop as a round |
| | `DeepMethod` | methods nest without bound on the VM and not in the evaluator |
| | `LoopInTry` | a program's try catches the limiter's exception, against the comment at `vm/vm.cpp:79` (what still holds is `LimiterEnds`) |
| `claims` | `Commenting` | a line with only a `/* */` comment opens and closes blocks |
| | `OpenComment` | an unclosed comment takes the newline the parser counts on, which reads a null token |
| | `LambdaType` | a lambda's arrow at the end of a line, likewise |
| | `HalfRead` | text after a newline inside the braces of a string is dropped unread |
| | `LoopTypes` | a loop body is checked once, with the narrowing from outside |
| | `CaseTypes` | the names of a case stay after the match |
| | `SubclassTypes` | a method of the object's class that its declared class lacks is rejected |
| | `CircularTypes` | a class that is its own parent: the check never ends |
| | `LeastPower` | a power that is exactly the least integer counts as overflow (every other is right: `PowExceptMin`) |
| `services` | a session | on the VM, what an input defined before it failed is forgotten; after an unreadable character in a block the session may end with lines it never ran |
| | a server | wrong params are answered as an internal error; a header without a usable length ends it before its editor |

The grammar of `statements` keeps away from the first six rows and from nothing else: it
leaves out break and continue past locals, jumps and locals in for-each, continue in a last
round, objects made after a local, statements after imports and return in a case.

Further differences found while reading, which no run shows:

- *VM against evaluator.* A value pattern of another type than the subject (the VM raises an
  error, the evaluator goes to the next case); a class whose parent's constructor has no
  parameters (the evaluator does not run it); an if whose condition is no boolean
  (the evaluator skips it); assignments (only the evaluator checks the declared type);
  redeclaring a name of an outer block (the evaluator refuses it); names of nested functions
  (global on the VM); a variable captured by a closure and assigned later (copied by the VM);
  a for-range variable assigned in the body. Higher-order builtins exist on `--eval` only, as documented.
- *Files and REPL.* In a file a blank line has no effect. In the REPL one that stands further in
  than the margin closes the blocks deeper than it and gives a NEW_LINE, so that after
  a header at 0, a header at 4 and code at 8, a blank line of four spaces and an `아니면:` at 4
  are rejected (seen in the built interpreter), where a file with these lines is right; the comment
  at `lexer/lexer.cpp:138` has only the blank line in mind that ends the input. `FileMode` calls
  the lexer outside its try, so an unreadable character ends the process; a tab between two tokens is such a character; an empty file gives a parse error
  about an END_BLOCK; the evaluator's REPL prints the null of a statement; the VM's REPL
  forgets from input to input which files were imported.
- *Parser.* An error inside a block costs the rest of the block and the statement after it, since
  parsing resumes at the next line at the top level, where the END_BLOCK is an error of its own
  (`parser/parser.cpp:33`); `LinesIndependent` and the second half of `ErrorsRecover` are for the top level.
- *Page.* `Execute` closes the blocks a text leaves open in its tokens but not in the lexer, whose
  indent stays: after a text whose last line is inside a block, or that has an unreadable character
  there, the tokens of the next one begin with END_BLOCK and it is rejected although it is right
  in itself (`web/wasm_interface.cpp:60`). The one after that is read as in a new page (`OnlyTheLastText`).
- *Types of functions.* As the type of a parameter or a result, `함수` takes what the program defined in
  both back ends, and a builtin in the evaluator only; the VM compares with the type of a compiled
  function (`vm/vm_handlers.cpp:202`).
- *Language server.* A text at which the parser dies or the type check does not end takes the
  server with it.

## Not modelled

- The builtins' own work, JSON included: pure functions on data. Higher-order builtins of the
  evaluator (`evalHigherOrderCall`), and the limiter's clock there (the VM's is modelled).
- How characters make up numbers, names and keywords; UTF-8; errors' texts and positions.
- The symbol collector, and what `lsp/features` and `position.cpp` make of a document: pure traversals,
  abstracted to the document they are about.
- `main.cpp`'s command line, what the REPL prints, the JSON of a response; `FileMode`, which is the
  composition of the other parts and keeps no state.
- The bitwise operators, real doubles and the ordering of strings, which the models' values lack.
- Undefined behaviour in the evaluator (an array that grows while for-each walks it) is excluded by
  the programs of the runs. Jumps and constant indices are not cut to sixteen bits.
- Benchmarks, scripts and the editor extension.

## Plan

The order so far was the machine, the compiler, the reference and the refinement between
them; then the services with their abstract specifications; then the lexer, the parser and
the type check; last the limits of the evaluator and the strings. What is left, in this order:

1. Proofs: the stack of programs with classes, for code that makes objects before it has locals, which
   takes an invariant of what values are (that a function called by name is no method); the counts of the
   limiter; what a blank line inside a block costs the promise of `Shell`, for a parser that skips it.
2. Values: bitwise operators, the ordering of strings, the builtins that change their argument.
3. Features of the language server: positions, and the symbols they are looked up among.
4. Both back ends of the session and the page as the modelled ones, in the place of their stand-ins.
