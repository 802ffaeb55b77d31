# oklang in TLA+

oklang is a small scripting language: a lexer, a Pratt parser, a compiler to
bytecode and a stack virtual machine, behind a REPL and a file runner.  This
directory models its core in TLA+, checks the models with TLC and proves what
matters most about them with TLAPS.  Paths below are under `src/src/` of the
repository unless they say otherwise.

## The system

| Part | State it keeps | Operations | Module |
|---|---|---|---|
| Locals, scopes and upvalues (`compiler.cpp`, `vm.cpp`, `object.cpp`) | compile time: the locals of each function being compiled, with depth and "captured"; run time: value stack, call frames, upvalue objects, list of open upvalues | declare, read, assign, begin and end a scope, leave a loop, make a closure, capture, close, call, return | `Upvalues` |
| Global variables (`compiler.cpp`, `chunk.hpp`, `vm.cpp`) | compile time: one index per name, identifiers of each chunk, the stack of function contexts; run time: the table of globals | declare, mention, define, get, set, set-if | `Globals` |
| Session (`vm.cpp` interpret, `repl.cpp` start, `runner.cpp`, `main.cpp`) | call frames, stack and its storage, what of them is left from line to line; the exit code | start the REPL or run a file, interpret a line, fail to compile, run, runtime error | `Session` |
| REPL line editor (`repl.cpp` read_key, read_line) | bytes of an escape sequence, buffer, cursor, history and the index into it | a byte, and every key | `LineEditor` |
| Calls and dispatch (`vm.cpp`, `object.cpp`) | stack and frames; the tables of operations, methods and conversions of each class; instances | declare a class, inherit, define methods; call, invoke, super, properties, operators, conversions, return | `Calls` |
| Objects and built-in classes (`object.cpp`, `value.hpp`) | the operations and methods of each built-in class | the natives | `Objects` |
| Lexer (`lexer.cpp`) | position and line in the source, tokens | next token | `Lexer`, `Lexing` |
| Parser (`parser.cpp`, `parsers.hpp`) | the token array and two cursors, errors and whether they are held back | the parse functions, recover from an error | `Parser`, `FrontEnd` |
| Code generation and execution (`compiler.cpp`, `chunk.hpp`, `utility.hpp`, `vm.cpp` run) | code and constants of each function, function contexts, loop stack, errors; stack, frames, instruction pointers | statements and expressions, scopes, jumps and their patches; the instructions | `CodeGen`, `Execution` |
| Garbage collector (`gc.cpp`) | gray list, marks, thresholds | mark, trace, sweep | not modelled: `macros.hpp:45` compiles it out |
| Interned strings, disassembler, log, regression harness | | | not modelled |

How they interact: the REPL hands a line to `vm::interpret`, which makes a new
compiler, which pulls tokens through the parser, walks the tree and emits code
into a chunk per function; the vm then runs the script's chunk.  What the two
share is an agreement and no data structure: the compiler decides at which slot
a local will be, at which index a global's name will be, and where an upvalue
comes from, and the vm believes it.  The vm outlives the lines: its globals, its
open upvalues and the objects of earlier lines stay.

Everything runs on one thread.  What is hard here is not interleaving but the
order of legal steps: every path out of a scope, a loop, a function or a line
has to leave the compiler's picture and the stack in agreement; state taken
before something nested (the index of a function's name before its body, the
slot of a captured variable before its frame is gone) is used after it; a line
that fails half-way leaves its state to the next one.  `PROJECT.json` lists
these hazards at their lines, with the properties that cover them or the reason
why none does.

What makes the parts correct:

- locals and upvalues: a slot is the variable the compiler says; a closure's
  variable keeps its value after its frame is gone; closures that capture one
  variable share it; the open list is sorted and complete;
- globals: an index finds, in the chunk that runs it, the name the source has;
  a global is defined once, and only mutable ones change;
- session: what a failed line leaves behind does not harm the next one;
- code generation: every path through a statement leaves the stack at the
  height the compiler assumes; jumps land at the start of an instruction;
- calls: callee, receiver and arguments are at the slots the callee expects,
  the result replaces them, and a method is the one nearest to the receiver's
  class;
- lexer and parser: what is written is what is read, nothing is skipped, and
  every loop comes to an end;
- line editor: the line entered is the one on the screen; recall shows older
  lines on the way up and newer ones on the way down.

## The modules

### `Upvalues`, with `LexicalVariables` and `MCUpvalues`

A behaviour is one execution of some program: at each step the program does any
statement the language has.  A step is the whole instruction sequence the
compiler emits for the statement, except `op_closure`, whose loop over the
upvalues takes a step per iteration (`OpClosure`, then `CaptureLocal` and
`CopyUpvalue` in any order, then `ClosureDone`).

| Model | Code |
|---|---|
| `mem`, `top` | `stack<T>` (`vm.hpp`); popped slots keep what they held |
| `frames` | `m_call_frames`, and for each the compiler's `function_context::locals` at the statement it is at, and its scope depth |
| `upvalues`, `open` | the `upvalue_object`s and the linked list from `m_open_upvalues`; `location = Self` is a closed one |
| `closures`, `building` | the closures made so far, each a map from variable to upvalue, and the one `op_closure` is filling in |
| `EndScope` | `end_scope` and `clean_scope_garbage`: `op_close_upvalue` per captured local, always of the slot on top, then one `op_pop_n` |
| `LoopExit` | `break` and `continue`: `pop_locals`, which closes nothing |
| `OpReturn` | pop the result, close from the frame's first slot, cut the stack, push the result |
| `Interpret` | the next line of the REPL on the same vm |

The text of a program is left open: a closure may capture any variables of the
function around it, and any closure may be called at any statement.  `Exits` says by which routes the programs
considered leave blocks with captured locals, because the code treats the routes
differently: `"scope"` (only the last local is captured), `"buried"` (any is),
`"jump"` (break or continue), `"error"` (a runtime error, then the next line).

`LexicalVariables` is the abstract specification: variables are declared,
assigned and forgotten, and otherwise keep their value.  Its refinement mapping
finds a variable's value in its slot while it is in scope, and otherwise through
the upvalue any closure has of it.

### `Globals`, with `GlobalVariables` and `MCGlobals`

A behaviour is a session of lines.  Each line is compiled by a new compiler,
function by function, and then runs.

| Model | Code |
|---|---|
| `chunks` | the `identifiers` and the code of the function objects' chunks; only the instructions on globals, and `op_closure`, are there |
| `contexts` | `m_function_contexts`; a "glob fu" keeps the index taken before its body |
| `indexes` | `compiler::m_globals`; its `chunk` field is bookkeeping, used to say which programs share names and in the proofs |
| `table` | `vm::m_globals` |
| `calls`, `made` | `m_call_frames`, and the functions that have a closure and so may be called |
| `DeclareVariable`, `DeclareClass`, `Begin…Function` … `EndFunction` | `declare_global`, `declare_variable_late`, `compile(class_declaration)`, `do_compile_function` |
| `NamedVariable` | `named_variable` with `get_or_add_global` |
| `OtherIdentifier`, `BeginMethod` | names of properties and methods, which share the identifiers |
| `OpDefineGlobal` … `OpSetIfGlobal`, `AssertFails` | the instructions in `vm::run`, and the assertion in `read_identifier` |

Each instruction of the model also carries the name the source has at that
place (`Instruction`'s `name`), which no guard reads: the properties compare it
with the name the vm finds.  `done` is a record of the last instruction that
succeeded, for the refinement.  A function's code runs in order and jumps are
left out: they skip instructions, and the properties speak of each instruction.
`Call` may happen anywhere, with any closure, which covers every call the
program could make.

`GlobalVariables` is the abstract specification: a name is defined once, read
and, if it is mutable, assigned; natives are there from the start.  With
`Shared` FALSE the programs are those where a function does not mention a global
again once a nested function (or the one around it) has taken the global's index
over; with TRUE they are all programs.

### `Bytecode`, `Ast`, `CodeGen`, `SourceSemantics`, `Execution` and `MCExecution`

A behaviour is one program, from its text to its end: `Interpret` compiles it,
then each step executes an instruction.

| Model | Code |
|---|---|
| `Bytecode` | the opcodes by number (`chunk.hpp`), the three byte operands (`utility.hpp`), `emit_jump`, `patch_jump`, `patch_loop`, `emit_loop`, and where `run` goes for them |
| `Ast` | the nodes of `ast.hpp`, a constructor each |
| `CodeGen` | the compiler: each operator takes and returns what the compiler knows (chunks, `m_function_contexts`, `m_scope_depth`, `m_loop_stack`, errors) and has the name of the member function it models |
| `chunks[n].code` | the bytes themselves, operands included, so that a jump that misses lands in the middle of something |
| `stack`, `frames` | `m_stack` up to its top, `m_call_frames` with `ip`, `slots` and `saved_slot` |
| `Op…` | the cases of the switch in `vm::run` |
| `out` | what the program read from globals and printed, in order |

What a global holds is left open: each `op_get_global` finds any of `Inputs`.
A program that tests a global thus takes each of its branches, and what it does
is the sequence `out`.  `heights`, in each chunk, is bookkeeping: at which
address a statement begins and how many locals the compiler has there.

`SourceSemantics` says what a program means without code, stack or addresses: an
evaluator over the tree that carries an environment of names, with "break",
"continue" and "return" as ways a statement may end, and the language's static
rules (`IsWellFormed`).  It is the reference `ExecutesItsSource` compares with.

An assertion that fails ends the model in "asserted".  `vm.cpp:1710` decodes
`op_set_if_local_long` as the short form, and then takes the compare function
from the wrong bytes: the call of what is found there ends it in "wild_call".

### `Objects`, `Calls`, `DynamicDispatch` and `MCCalls`

A behaviour is a session of lines.  Each declares classes, from an
enumerated program, and then evaluates any expressions: a step is one
instruction with everything it calls, down to the frames natives push
(`start_subcall`) and the results they leave.

| Model | Code |
|---|---|
| `Objects` | the values told apart by kind; the built-in classes, their tables of operations and their natives' answers, with "undefined" where an object is cast to what it is not |
| `stack`, `frames` | `m_stack` up to its top; slots, top and function of `m_call_frames` |
| `classes` | of each class its `type`, `methods`, `specials.operations` and conversions; `op_inherit` copies, so a table is right only if what it was copied from was |
| `heap` | the instances with class and fields |
| `Declaration` … `EndClass` | `compile(class_declaration)` and the instructions it emits |
| `Op…` | the cases in `vm::run`; helpers have the names of the member functions |

Most operators thread a record of the machine (`Machine`), as the code passes
`this` on, and an instruction ends in `Becomes`.  An operator of each kind of
dispatch stands for its siblings, which differ in the slot they look at.
`graph` is bookkeeping: what the classes were declared as.

`DynamicDispatch` is the abstract specification.  It has no stack, no frames and
no tables: activations with their own receiver, arguments and operands; a method
is found along the parents whenever it is needed; a conversion is found by type
number, as the language has it.  Where oklang does something no specification
would choose, the module says so by name: `Hole` (a value is used as what it is
not), `BuiltinFirst` (the built-in `clone` comes before an inherited one) and
`MisplacedSuper` (`op_invoke_super` takes the last argument for the superclass).

### `Lexer`, `Lexing`, `Parser`, `Grammar`, `FrontEnd` and `MCFrontEnd`

A behaviour is one text.  Lexing takes a step per token, parsing a step per
declaration at the top of the text.

| Model | Code |
|---|---|
| `Lexer` | the position, which becomes null behind an unexpected character at the end, the line, and one operator per `emplace_…`; a character is a value, a letter or a whole word |
| `Lexing` | `lexer::lex`, a turn of its loop at a time: `RejectInput`, `RefuseEmpty`, `LexOne`; whatever the rest of `compile` does is `AfterLexing` |
| `Parser` | a parser is a record of the tokens, `current`, `lookahead`, `paranoia`, errors and the last node; each parse function takes one and returns one and has the function's name |
| `Then` | the sequence of two of them |
| a node | a tuple that begins with its kind; a map's entries are a bag, because `map_expression` keeps them in an `unordered_map` with the key nodes' addresses for keys (`ast.hpp:881`) |
| `dropped` | bookkeeping: what a constructor was given and did not keep. `subscript_expression`'s takes two operands and keeps neither (`ast.hpp:913`), so that both children of the node are null |
| `fault` | "null" when the code dereferences a null node, "hangs" when a loop is where it was |
| `FrontEnd` | `compiler::compile` up to the tree, with `parse_program`'s loop; its first three actions are those of `Lexing` together with the start of the parser |

`Grammar` is the reference: a printer that writes the text of a tree with only
the parentheses the levels of precedence ask for.  `ReadsWhatIsWritten` says
that the parser is its inverse, but for what the tree does not keep (`Kept`): the
operands of a subscript and the order of a map's entries.  `LosesNoName` counts
names and literals: what is in the text is in the tree or in `dropped`, as often,
and in order where there is neither a subscript nor a map of several entries.
`HolesOnlyWhereKnown` has the two places where an accepted tree has null nodes.

The models are of the release build (`okc_release`, which the target `okc` is made
of).  The debug build prints the tree before it compiles it (`compiler.cpp:73`), and
`to_string` of a subscript dereferences the two null operands (`ast.hpp:918-923`),
that of `return;` the null expression.

### `LineEditor`, `TextCursor`, `Session` and `MCSession`

A behaviour is one run of the program: the REPL with everything typed into it,
or one file.  A step is a byte read by `read_key`, with what the key does when the
byte completes one; a step of `interpret`; or an effect of an instruction on
stack and frames.

| Model | Code |
|---|---|
| `pending` | the bytes of an escape sequence so far |
| `buff`, `cursor`, `hist_idx`, `history` | the same in `read_line` and `start`; `hist_idx` wraps at `SizeMax` |
| `file` | what the command line asks for, told apart as the runner's three checks do (`runner.cpp:18-34`). Only `owner_read` is looked at and the stream is never asked whether it is open: `"unopened"` is a file that passes the checks and is then read as the empty text. `"unsearchable"` is a path `exists` throws for; nothing catches that, and `vm` is `"terminated"` |
| `frames` | `m_call_frames`, with whether the closure is null |
| `top`, `storage` | `stack<T>`; `PushOn` grows a full storage and does not count the value, as `vm.hpp:38` does |
| `Returned` | the REPL reads the next line, the runner's result becomes the exit code |
| `heights`, `wide`, `left`, `failed`, `shown` | bookkeeping for the properties; no guard of the code's reads `left`, `failed` or `shown`, and `heights` stands for the compiler, which never pops more than it has pushed |

That last is an assumption, and the code has one exception to it: for `and` and `or`
of booleans the vm pops the value they test on both paths (`vm.cpp:1749`, the finding
of `codegen_logical`), which is below the compiler's count.  `CrashesOnlyWithFramesFull`
and `StorageSuffices`, and the theorems about them, are therefore about programs
without those two operators.

`ExitCodeIsTheOutcome` says what the exit code means and no more: `FILE_ERROR` is
the answer to a file that a check refused, and not to every file that could not be
read.  One that cannot be opened is answered with `compile_error`.

`TextCursor` is the abstract editor: the text before and after a place.  The
session implements it through escape sequences, unknown keys, lines that fail
and recall.

## The runs

| Run | Question | Result |
|---|---|---|
| `upvalues_values` | Do stack, frames and upvalues implement variables that keep their value, in programs whose blocks capture at most their last local; do open upvalues point at their own variable and closures share exactly what they should? | yes: `TypeOK`, `NoClosureReadsNull`, `OpenPointsToItsVariable`, `SharedExactlyByVariable`, `ImplementsLexicalVariables` |
| `upvalues_any` | What survives every program, jumps, buried captures and runtime errors included? | `StackMatchesLocals`, `OpenListSorted`, `ClosedForGood` |
| `upvalues_buried` | And a block that captures a local below its last? | violated: `NoClosureReadsNull`; the closure reads a reused slot |
| `globals_source` | Does each instruction run on the global the source names, when functions share no names? | yes: `MentionsNameTheirGlobal`, `ImplementsGlobalVariables` |
| `globals_any` | Do definitions, in every program? | yes: `TypeOK`, `DefinitionsNameTheirGlobal` |
| `globals_assert` | Does the assertion in `read_identifier` hold in every program? | violated: `IndexInRange` |
| `codegen_control` | Does the compiled code do what the text says, at the heights the compiler counts, for some 1,600 programs; are exactly the ill-formed ones refused; do all end? | yes: `TypeOK`, `ExecutesItsSource`, `HeightsAgree`, `RefusesIllFormed`, `Ends` |
| `codegen_logical` | Do the jumps of `and` and `or` leave the value they tested? | violated: `LeavesTheValue` |
| `calls_programs` | Do frames stay apart and callers untouched, whatever is called; is an inherited method the nearest; does the machine do what dynamic dispatch promises? | yes: `TypeOK`, `Framing`, `MethodsAreNearest`, `CallersUntouched`, `ImplementsDynamicDispatch` |
| `frontend_texts` | Are programs read as written, but for subscripts and the order of maps; is a name of an accepted text lost anywhere else; where are null nodes, crashes and endless loops; are lines counted; does every text come to an end? | `TypeOK`, `ReadsWhatIsWritten`, `LosesNoName`, `HolesOnlyWhereKnown`, `FailsOnlyWhereKnown`, `LinesAreCounted`, `EveryTextIsRead` |
| `frontend_null` | Is the compiler never handed a null node, as its assertion says? | violated: `CompilerGetsNoNull`; `fu f() ->` at the end of the text |
| `session_lines` | What do failing lines leave to the next one; is the storage large enough; is the exit code the outcome; is the editor a text with a cursor, and recall in order? | `TypeOK`, `ReadsOutsideOnlyWhenEmpty`, `FramesAreAccountedFor`, `CrashesOnlyWithFramesFull`, `RunsInItsOwnFrames`, `StorageSuffices`, `ExitCodeIsTheOutcome`, `OlderThenNewer`, `ImplementsTextCursor` |

The four violations are findings in `PROJECT.json`, with the lines of the code
and of the comment, test or assertion they disagree with.

**Bounds, and why they are enough.** For `Upvalues`: two frames (three for the
values) give a caller, a callee and a closure that outlives one; two or three
variables give a captured local with another below or above it, and a third to
take over a popped slot; as many upvalues as variables; a scope inside a
function body, which is a block with its end, a loop with its exit, or both; five
or six slots hold all of that with one temporary.  The properties about
which upvalue points where need no values, so those runs have one value and a
`VIEW` without the memory, which no guard reads.  For `Globals`: two names, so
that an index can find a wrong one; three functions (nested in each other, side
by side, or in two lines); three identifiers and three instructions in a
session; two nested calls.  The smallest counterexample to `IndexInRange` needs
two functions and three instructions.  For `Execution`: the programs
of `Control` are built from all pairs of statements that touch control flow or
locals (jumps, jumps under a condition, jumps out of two blocks with locals,
declarations that hide) as bodies of four kinds of loops, the loops in another
loop and in functions, all pairs of operands of the operators, and the
programs that break a rule or nearly do.  `UINT8_MAX = 3` (255 in the
code) makes four locals enough for the long operands and for a second
`op_pop_n`.  Four reads of globals take a program through two rounds of a loop
in a loop; a program with its reads used up stops.  A run of the reference
evaluator is cut after eight rounds of loops (`MaxRounds`) as "spinning";
`Settles` leaves such programs out, since they would count for ever.

For `Calls`: seven programs of one to three classes over one to three lines, each
the smallest in which two classes disagree on something (an override below an
inherited method, a constructor or operators with arguments, a class whose line
failed half-way, conversions with numbers of two lines, built-in classes as
parents, no class, a parent that is none); three frames give a caller, a callee
and a native's subcall; four values above which no step starts; two instances.
For `FrontEnd`: one operator of each level in all pairs and positions, every
statement in every position, and all texts of up to five tokens of an
expression's alphabet, of one with subscripts and arrays, and behind the first entry
of a map (so that there are maps of two entries that look alike), of four tokens
behind the head of a function or a class,
and of four characters of the lexer's.  Among them are texts that end in the
middle of a construct.  For `Session`: two letters, which also occur in escape
sequences; lines of two letters, three lines, so that two fill the
frames (`FrameLimit` 2, 64 in the code) and the third finds them full; two values
per frame (256 in the code) and five on the stack, one more than the storage
holds; `SizeMax` 7 for the largest size_t, above every index that is in use.  `Apart`
is a constraint: it keeps lines with letters in them apart from sessions with
failures and full stacks, which do not look at the letters.

Each property has a mutant of the code which its own run catches, under the same
bounds.

`Control` leaves out four things that would hide everything behind them: `and` and
`or` of booleans (shown by `codegen_logical`), `++` after a number, which ends the
program although it succeeded (`vm.cpp:1063`), a function in a loop with a `break`
of its own, whose jump is patched into the wrong chunk (`compiler.cpp:909`), and
`++` or `-=` on a local above slot `UINT8_MAX` (`vm.cpp:1710`).  The last three are
hazards that no property covers, since the programs in which they show are not there,
and the first is covered by `codegen_logical` alone.  In the same way `globals_source` takes
programs whose functions share no names, and `IndexInRange` alone is about the
others; `upvalues_values` takes blocks that capture at most their last local and no jumps out
of them, and `upvalues_buried` is about other blocks (with `Exits = {"jump"}` in its
cfg TLC violates `NoClosureReadsNull` as soon: `pop_locals` closes no upvalue,
`compiler.cpp:923`); and what
`DynamicDispatch` has by name (`Hole`, `MisplacedSuper`) is described by
`ImplementsDynamicDispatch` and not judged.

**Symmetry and views.** Values are symmetric in `upvalues_values`; names and
values in `globals_source`, where no native is defined.  `ControlView` drops the
memory and what closed upvalues hold.  `ProgramView` drops the record of the
last instruction and how the last line ended, and the indexes of a compiler that
is through; the refinement's steps only write that record, so checking it on one
of the states that differ there is checking it on all.

`View` of `MCCalls` drops the top of the running frame, which is set again before
anything reads it.

**Deadlock.** `Upvalues` is checked for deadlock: a program can always do
something.  In `Globals` it is off: a session ends at the end of the input, and
the bounds on functions and instructions are such an end.  In `Execution` and
`FrontEnd` it is off because programs and texts end, in `Calls` and `Session`
because lines do and the bounds are an end of the input.

**Fairness.** Weak fairness of `Run`, in `Execution`'s `FairSpec`: `vm::run` is a
loop that only the end of a program leaves, on the one thread there is.  `Ends`
needs it; the programs it speaks of end by their text, so that what is
checked is that no patched address makes a loop of what is none.  `FrontEnd`
assumes that lexing and parsing go on (`Progress`, weak fairness of `Next` with its
guard written out), since they wait for nothing; `EveryTextIsRead` then says
that the loops over tokens and declarations end.  `turn` changes with every step,
so that a round that gets nowhere is a step and not stuttering.  The loops inside
a declaration are functions: one that does not advance ends in "hung", and
`FailsOnlyWhereKnown` says where that may be.  `Upvalues`, `Globals`, `Calls` and
`Session` assume no fairness: what they promise is about what steps may not do.

## The proofs

All theorems hold for every value of the constants that satisfies the named
assumptions of the modules that declare them, of which TLC checks one instance
per run: `ConstantsAssumption` of `Upvalues` and of `Globals`, `CallsAssumption`
and `ProgramsAssumption` of `Calls`, `SessionAssumption` and `EditorAssumption`.  The
two refinements to variables also use that the marks a variable has before it is
declared and after it is gone are no values (`MarksAssumption`,
`UndefinedAssumption`).

`UpvaluesProofs` (with `SequenceLemmas`, facts on insertion, prefixes, parts of
parts and replaced elements of sequences):

- `TypeCorrect`: `Spec => []TypeOK`.  Not inductive alone: that `top` stays
  within the stack after `EndScope` and `OpReturn` needs to know that the frames
  tile it, and that a capture points at an existing slot needs
  `StackMatchesLocals`.
- `CompilerAndStackAgree`: `Spec => []StackMatchesLocals`.  Each exit from a
  scope cuts the same suffix from the locals and from the stack; a return drops
  exactly the last frame.
- `OpenListStaysSorted`: `Spec => []OpenListSorted`, in every program, also
  where open upvalues outlive their variable.  `capture_value` stops at the
  right place because the list is sorted, and keeps it sorted because it stops
  there; `close_upvalue` removes a prefix.
- `ClosedUpvaluesStayClosed`: the action property `ClosedForGood`, from the same
  invariant.

`ClosuresProofs`, on top of that, for `Exits \subseteq {"scope"}`: the programs of
`upvalues_values`, which leave captured locals behind by returning or as the last
local of a block.  With any other exit the statements are false, of the code as
of the model (`upvalues_buried` shows it of one).  The stack and the closures are
looked at as relations: `InScope(v, s)`, variable `v` is in slot `s`; `Marked`, its
local is flagged as captured; `Caught(v, u)`, some closure, finished or not, has
`v` in upvalue `u`.

- `ClosuresOwnTheirVariables`: `Spec => [](IInv /\ ClosureInv)`.  In `ClosureInv`,
  `UpvaluesPlaced` is the heart: an open upvalue of `v` points at `v`'s slot, and
  while `v` is in scope its upvalue is open and its local marked.  That last part
  is what makes `op_close_upvalue` close the upvalue before the slot is reused; it
  needs `OneSlotEach` and `OneUpvalueEach`, so that the slot that is closed is
  nobody else's, and those need `FramesClimb` (no two frames share a slot) and
  `Declared` (a new variable is in no slot and no closure yet).
  `FramesRunClosures` makes the upvalues of a running function those of a closure.
- `OpenUpvaluesPoint`, `ClosuresShareByVariable`, `ClosuresReadNoNull`: the
  invariants `OpenPointsToItsVariable`, `SharedExactlyByVariable` and
  `NoClosureReadsNull` of that run.
- `VariablesAreImplemented`: `Spec => ImplementsLexicalVariables`.  The refinement
  mapping chooses the slot, or the upvalue of any closure, and `HasIsValueOf` says
  that all choices agree.  Each action is then one of four steps of the mapped
  variable (`SameView`, `ForgetView`, `DeclareView`, `AssignView`), of which the last
  is the interesting one: a store through one closure changes what every
  holder of the variable reads, and nothing else.

`GlobalsProofs`:

- `Inductive`: `Spec => []IInv`, with `IInv` the types and three facts.
  `IndexesInv`: the index `m_globals` has for a name is right in the chunk the
  name was last added to.  `PendingInv`: the index a "glob fu" holds while its
  body is compiled is right in the chunk of the function around it.  `CodeInv`:
  each instruction is right in its own chunk, and each `op_closure` is of a
  function that exists.  They are inductive because chunks only grow
  (`ChunksGrow`, `IndexStays`): nothing nested can move an identifier.
- `TypeCorrect`, `DefinitionsAreRight`, `MentionsAreRight`: the two modules'
  invariants `TypeOK`, `DefinitionsNameTheirGlobal` and
  `MentionsNameTheirGlobal` follow from it.
- `IndexesInRange` and `GlobalsAreImplemented`, for programs whose functions share no
  names (`~Shared`): the assertion in `read_identifier` holds, and the table
  implements `GlobalVariables`.  `globals_assert` shows that the first is false of
  other programs.

`CallsProofs`, for every program and every limit:

- `Inductive`: `Spec => []IInv`, where `IInv` has five parts.  `ValuesInv`: of what type
  everything is, with the classes that are declared and the instances that are
  made as parameters, so that what an instruction makes is all that changes.
  It says that no method is a value by itself, but only in a table or bound
  to an instance; so a function that mentions "super" always has an instance as
  its receiver, which `FramesInv` keeps and `op_get_super` needs.  `FramesInv` also
  keeps `Framing` and that all frames climb, which follows from `Framing` only by
  induction along the frames.  `DeclarationInv`: what is on the stack between
  the instructions of a class declaration.  `GraphInv`: a class that is being
  declared is nobody's superclass yet, so that methods added to it are missing
  in no copy; with it `MethodsAreNearest` is inductive.
- An instruction is followed through the machine it passes on: `InFrame` (it is
  still in its frame and has kept what is below its operands), `Entered` (it has
  called a function), `Outcome` (what it may end in), with a lemma for each
  operator that takes one to the other, natives and their subcalls included.
- `TypeCorrect`, `FramesStayApart`, `InheritedIsNearest`, `CallersAreUntouched`: the
  properties `TypeOK`, `Framing`, `MethodsAreNearest` and `CallersUntouched` of
  `calls_programs`.
- `DispatchInductive`: `Spec => []FullInv`, which is `IInv` with `DispatchInv`.  The
  latter says that a table of operations has the class's own and else those of its
  superclass (`OperationsAreNearest`), that type number and conversions are what
  the class was declared with, and that superclasses end (`SuperclassesEnd`): in
  every set of classes there is one whose superclass is not in the set.  This is
  well-foundedness without a rank, and a declaration keeps it since the class it
  gives a superclass is nobody's superclass yet.
- `TablesAreEnough`: the lookup along the superclasses, which `DynamicDispatch`
  writes as a recursive function, finds what the copied table has.  Two functions
  that agree on a class whenever they agree on its superclass agree everywhere
  (`AlongSuperclasses`): the classes on which they differ would be a set that
  `SuperclassesEnd` refutes.  That takes the place of induction over the order of
  declarations.
- `DispatchIsDynamic`: `Spec => ImplementsDynamicDispatch`.  The refinement mapping
  cuts the stack at the frames.  While a line declares its classes it shows the
  script alone, and each declaration is a step of `graph` or, where only the
  stack changes, a stutter.  In an expression, `InFrame` machines are shown as
  `With` other operands, an entered function as one more activation
  (`EnteredShown`), a return as the caller with one more operand (`CallerShown`),
  and a stop as no activation (`StopsShown`).  One lemma per operator of the
  machine takes its result to the operator of `DynamicDispatch` (`CallsResult`,
  `AppliesResult`, `OverloadedResult`, …), and one per instruction follows from
  these (`InvokeDispatch` … `ReturnDispatch`).

`CallsAssumption` keeps the names of the built-in classes and of their meta
classes, and the empty name, out of the names of a program's classes: a program
has no token for the latter two, and one that declares a class named like a
built-in one is not considered.  A conversion has no parameters, since
`compile_method` refuses any (`compiler.cpp:715`, `Members`).

`BytecodeProofs`, for code of any length and every distance up to `uint24_max`,
where the runs only have short jumps:

- `OperandsKeepTheirValue`: `decode_int` inverts `encode_int`.  The rest of
  division by 256 and by 65536 are the three bytes.
- `PatchWritesThreeBytes`: a patch changes its three bytes, and nothing else.
- `PatchedJumpsLand`, `PatchedLoopsLand`, `EmittedLoopsLand`: the vm goes where
  the compiler meant, for all three ways the compiler writes an address.

`SessionProofs`, for every limit on frames, every width of a frame, every length
and number of lines:

- `Inductive`: `Spec => []IInv`, with `IInv` the types and five facts.
  `EditorInv`: the history index is in the history, or there is no history.
  `FramesInv`: the frames between lines are those left and those of failed lines,
  and those without a closure come from failed lines; a crash has its reason.
  `RunInv`: a running line has one frame per count and a closure in each.
  `StorageInv`: in a program that is not too wide, frame `i` begins below
  `(i - 1) * FrameSize`, so that a push always finds room; without it the
  property's own statement is not inductive, since `PushOn` loses a value
  exactly where the storage is full.  `ExitInv`: a file is the only line of its run,
  and one that could not be opened never runs.
- `TypeCorrect`, `HistoryIsSafe`, `FramesAccounted`, `CrashesExplained`, `OwnFrames`,
  `StorageIsEnough`, `ExitCodeIsRight`: the seven invariants of `session_lines`.

- `EditorRefines`: `Spec => Cursor!Spec`.  Each key is the step of `TextCursor` it
  should be (`InsertWrites` … `EnterEnters`), everything else leaves the text
  alone.  `AwaitsResult` is needed: a line is interpreted only once it has been
  entered, so that the next `read_line` begins with the empty text.
- `UpIsOlderDownIsNewer`: `OlderThenNewer`, from `ShownInv`: what was shown last is
  at the history index or one behind it, except at the history's end.

`LexerProofs`, for every text, of `LexingSpec`, which has the lexer's part of every
behaviour of `FrontEnd` and none of the parser:

- `Inductive`: `LexingSpec => []IInv`.  `IInv` has the range of the position and of the
  lines, that the position is not null while there is a next turn, and the
  two invariants below, which hold each other up: that a token's lines are counted
  needs the token to end in the text, and only an unexpected character leaves it.
- `EveryLineIsCounted`: `LinesAreCounted`.  A turn is white space, then one of the
  `emplace_…`; each counts the newlines of exactly the characters it passes (`Counts`,
  one lemma per kind of token), and counts over adjoining stretches add up
  (`NewlinesAddUp`).  Where a loop of the lexer stops is the least position of a
  set (`PastStops`, `UntilStops`, from `MinIsLeast`).
- `LexerTypeCorrect`, `NullIsBehindUnexpected`: the lexer's parts of `TypeOK` and
  of `FailsOnlyWhereKnown` in `frontend_texts`.
- `LexerMovesOn`: each turn that is followed by another moves the position forward.
  With `LexerTypeCorrect` this is the safety half of `EveryTextIsRead`: a text of
  `n` characters is read in at most `n + 1` turns.

`CodeGen`, `SourceSemantics`, `Parser`, `Grammar` and `FrontEnd` recurse over syntax
trees and tokens with RECURSIVE operators, which the prover has no backend for:
what they say stays with TLC.

Only model-checked: the properties of `codegen_control`, and those of
`frontend_texts` but for `LinesAreCounted` and the lexer's parts of two others.  Out
of the prover's reach in principle: liveness, and induction over programs as data.

## The plan

Done: every component that computes something, and the proofs above.  The order
was the order of importance: locals and upvalues, globals, code generation with
execution, the session and its editor, calls and dispatch, lexer and parser.

What could follow, the most important first:

1. Captured locals in `CodeGen`, joined with the sequences of `Upvalues`, and the
   mutability of locals.
2. The limits: 256 constants, identifiers, upvalues and arguments.

## Not modelled, and why

- The limits on constants, identifiers, upvalues and arguments: the indexes in
  `Upvalues` and `Globals` are numbers.  The widths of the operands of locals and
  constants are in `CodeGen`; the long forms of identifiers that `vm.cpp:1667` and
  its siblings decode wrongly need 256 of them.
- Of the operators of two values `CodeGen` has `-` and `<`; in `Upvalues` and
  `Globals` values are opaque.  (The case of `^` at `compiler.cpp:323` writes
  `op_modulo`; division by zero returns before its message, `vm.cpp:419`; `!=` of two
  values of one kind that are no objects is false, `vm.cpp:443`.)
- Arrays, maps, subscripts and the conditional operator behind the parser: the
  compiler refuses them (`NotCompiled`), without a look at their children.
- The debug build, and with it the tree's `to_string` (above).
- `Calls` leaves out globals and upvalues.  What happens to a bound method that is
  called or operated on is "undefined" there: its class is (`object.cpp:1038`).
  That classes of two lines share a number (`compiler.hpp:349`) is modelled and
  not judged.
- The flags of locals and upvalues ("mutable"): only those of globals are there.
- What errors say and where they point: only whether there are any, and the line
  numbers of tokens.  What the parser reports after its first error is therefore not
  judged (`sync_state` stops on a keyword that `parse_program` then skips,
  `parser.cpp:1133`).
- Characters of more than one byte: the editor erases bytes (`repl.cpp:188`).
- What an instruction does to the stack below the compiler's count, in `Session`:
  the `and` and `or` of booleans.
- The end of the input, at which `read_line` asks for ever (`repl.cpp:61`).
- The garbage collector, which no build runs, and memory: `op_closure` and
  `new_tobject` always succeed, nothing is freed.
- Interned strings: the models take a name for the one object it stands for.
- Output, logging, the disassembler, terminal control and the test harness.
