------------------------------ MODULE CodeGen ------------------------------
(***************************************************************************)
(* The compiler's walk over a program (compiler.cpp): scopes, locals,       *)
(* loops, functions and the code of every statement and expression of Ast.  *)
(*                                                                         *)
(* Each operator takes what the compiler knows, c, and returns what it      *)
(* knows after the call of that name:                                       *)
(*   chunks       the code and constants of each function, the script first *)
(*   contexts     m_function_contexts: which chunk, and the locals          *)
(*   scope_depth  m_scope_depth                                             *)
(*   loops        m_loop_stack                                              *)
(*   errors       the codes of the errors reported                          *)
(*   asserted     an assertion has failed                                   *)
(* A chunk also notes, for each address at which a statement begins, how    *)
(* many locals the compiler has in scope there.                             *)
(***************************************************************************)
EXTENDS Bytecode, Ast, FiniteSets, SequencesExt

CONSTANT UINT8_MAX  \* 255 in the code: where the long operands begin, the
                    \* most values one op_pop_n pops

ASSUME UINT8_MAXAssumption == UINT8_MAX \in 1 .. 255

Bool(b) == [type |-> "bool", data |-> IF b THEN 1 ELSE 0]
Number(n) == [type |-> "number", data |-> n]
Null == [type |-> "null", data |-> 0]
Closure(chunk) == [type |-> "closure", data |-> chunk]

(* The address of the compare function is_primitive, as op_set_if encodes   *)
(* it.                                                                      *)
is_primitive == <<1, 0, 0, 0, 0, 0, 0, 0>>

NewChunk(arity) ==
  [code |-> << >>, constants |-> << >>, heights |-> {}, arity |-> arity]

NotFound == 0

-----------------------------------------------------------------------------
Context(c) == Last(c.contexts)

Current(c) == c.chunks[Context(c).chunk]

Here(c) == Len(Current(c).code)

Locals(c) == Context(c).locals

Loop(c) == Last(c.loops)

SetCode(c, code) == [c EXCEPT !.chunks[Context(c).chunk].code = code]

SetLoop(c, loop) == [c EXCEPT !.loops[Len(c.loops)] = loop]

Write(c, bytes) == SetCode(c, Current(c).code \o bytes)

Error(c, code) == [c EXCEPT !.errors = @ \cup {code}]

(* Notes the height the stack should have, above the frame's slots.         *)
Mark(c) ==
  [c EXCEPT !.chunks[Context(c).chunk].heights =
     @ \cup {<<Here(c), Len(Locals(c))>>}]

write_constant(c, value) ==
  LET added == [c EXCEPT !.chunks[Context(c).chunk].constants = Append(@, value)]
      index == Len(Current(c).constants)
  IN
  Write(added, IF index <= UINT8_MAX
               THEN <<opcode.op_constant, index>>
               ELSE <<opcode.op_constant_long>> \o encode_int(index))

-----------------------------------------------------------------------------
(* Scopes. *)

RECURSIVE emit_pops(_, _)
emit_pops(c, count) ==
  IF count = 0 THEN c
  ELSE IF count < UINT8_MAX THEN Write(c, <<opcode.op_pop_n, count>>)
  ELSE emit_pops(Write(c, <<opcode.op_pop_n, UINT8_MAX>>), count - UINT8_MAX)

LocalsWithin(c, depth) ==
  Cardinality({i \in DOMAIN Locals(c) : Locals(c)[i].depth <= depth})

begin_scope(c) == [c EXCEPT !.scope_depth = @ + 1]

(* end_scope, with clean_scope_garbage.  No local is captured here.         *)
end_scope(c) ==
  LET depth == c.scope_depth - 1
      keep == LocalsWithin(c, depth)
  IN
  emit_pops([c EXCEPT !.scope_depth = depth,
                      !.contexts[Len(c.contexts)].locals = SubSeq(@, 1, keep)],
            Len(Locals(c)) - keep)

(* The pops on the way out of a loop: the locals stay in scope for the      *)
(* statements after the jump.                                               *)
pop_locals(c, depth) == emit_pops(c, Len(Locals(c)) - LocalsWithin(c, depth))

(* A mutant: names of outer scopes are taken, too.                          *)
declare_anywhere(c, name, mutable) ==
  IF \E i \in DOMAIN Locals(c) : Locals(c)[i].name = name
  THEN Error(c, "local_redefinition")
  ELSE [c EXCEPT !.contexts[Len(c.contexts)].locals =
          Append(@, [name |-> name, depth |-> c.scope_depth, mutable |-> mutable])]

(* declare_variable and declare_variable_late of a local.                   *)
declare_variable(c, name, mutable) ==
  IF \E i \in DOMAIN Locals(c) :
       Locals(c)[i].depth >= c.scope_depth /\ Locals(c)[i].name = name
  THEN Error(c, "local_redefinition")
  ELSE [c EXCEPT !.contexts[Len(c.contexts)].locals =
          Append(@, [name |-> name, depth |-> c.scope_depth, mutable |-> mutable])]

(* The parameters of the programs considered are "mut".                     *)
RECURSIVE DeclareParameters(_, _)
DeclareParameters(c, names) ==
  IF names = << >> THEN c
  ELSE DeclareParameters(declare_variable(c, Head(names), TRUE), Tail(names))

(* A mutant: the first local of the name wins, not the innermost.           *)
resolve_outermost(c, name) ==
  LET found == {i \in DOMAIN Locals(c) : Locals(c)[i].name = name} IN
  IF found = {} THEN NotFound ELSE CHOOSE i \in found : \A j \in found : i <= j

resolve_local(c, name) ==
  LET found == {i \in DOMAIN Locals(c) : Locals(c)[i].name = name} IN
  IF found = {} THEN NotFound ELSE CHOOSE i \in found : \A j \in found : i >= j

-----------------------------------------------------------------------------
(* Variables.  A name no local has is a global.                             *)

write_variable(c, short, long, index) ==
  Write(c, IF index > UINT8_MAX THEN <<long>> \o encode_int(index)
                                ELSE <<short, index>>)

get_variable(c, name) ==
  LET i == resolve_local(c, name) IN
  IF i = NotFound
  THEN Write(c, <<opcode.op_get_global, 0>>)
  ELSE write_variable(c, opcode.op_get_local, opcode.op_get_local_long, i - 1)

CheckMutable(c, i) ==
  IF Locals(c)[i].mutable THEN c ELSE Error(c, "immutable_mutation")

(* Globals are assigned to in the module Globals; here names of locals are.  *)
set_variable(c, name) ==
  LET i == resolve_local(c, name) IN
  write_variable(CheckMutable(c, i),
                 opcode.op_set_local, opcode.op_set_local_long, i - 1)

set_if_variable(c, name) ==
  LET i == resolve_local(c, name) IN
  Write(write_variable(CheckMutable(c, i),
                       opcode.op_set_if_local, opcode.op_set_if_local_long, i - 1),
        is_primitive)

-----------------------------------------------------------------------------
(* Jumps. *)

emit_jump(c, instruction) == SetCode(c, EmitJump(Current(c).code, instruction))

Jump(c) == JumpStart(Current(c).code)

(* The distance is unsigned: a negative one is wide.                        *)
CheckWidth(c, operand) ==
  IF operand \notin 0 .. uint24_max THEN Error(c, "jump_width_exceeds_limit") ELSE c

(* chunk::patch asserts that it patches code.                               *)
PatchesCode(c, start) == start < Here(c)

patch_jump(c, start, target) ==
  IF PatchesCode(c, start)
  THEN SetCode(CheckWidth(c, target - start - OPERANDS_WIDTH),
               PatchJump(Current(c).code, start, target))
  ELSE [c EXCEPT !.asserted = TRUE]

patch_loop(c, start, target) ==
  IF PatchesCode(c, start)
  THEN SetCode(CheckWidth(c, start - target + OPERANDS_WIDTH),
               PatchLoop(Current(c).code, start, target))
  ELSE [c EXCEPT !.asserted = TRUE]

emit_loop(c, loop_start) ==
  SetCode(CheckWidth(c, Here(c) + 1 - loop_start + OPERANDS_WIDTH),
          EmitLoop(Current(c).code, loop_start))

PushLoop(c, continue_forward) ==
  [c EXCEPT !.loops = Append(@,
     [scope_depth |-> c.scope_depth, continue_forward |-> continue_forward,
      breaks |-> << >>, continues |-> << >>])]

(* patch_loop_context, and the loop is done.                                *)
patch_loop_context(c, break_target, continue_target) ==
  LET breaks == FoldLeft(LAMBDA d, b : patch_jump(d, b, break_target),
                         c, Loop(c).breaks)
      continues == FoldLeft(LAMBDA d, b :
                              IF Loop(c).continue_forward
                              THEN patch_jump(d, b, continue_target)
                              ELSE patch_loop(d, b, continue_target),
                            breaks, Loop(c).continues)
  IN [continues EXCEPT !.loops = Front(@)]

-----------------------------------------------------------------------------
(* The walk. *)

RECURSIVE compile(_, _)

CompileAll(c, nodes) == FoldLeft(compile, c, nodes)

CompileStatement(c, statement) == compile(Mark(c), statement)

CompileStatements(c, statements) == FoldLeft(CompileStatement, c, statements)

(* op_save_slot and op_push_saved_slot keep the value of the expression     *)
(* over the assignment, which pops.                                         *)
CompilePrefixUnary(c, e) ==
  set_if_variable(
    Write(get_variable(c, e.name),
          <<opcode.op_preincrement, opcode.op_save_slot, opcode.op_push_saved_slot>>),
    e.name)

CompilePostfixUnary(c, e) ==
  Write(set_if_variable(
          Write(get_variable(c, e.name),
                <<opcode.op_save_slot, opcode.op_postincrement>>),
          e.name),
        <<opcode.op_push_saved_slot>>)

CompileCompoundAssign(c, e) ==
  set_if_variable(
    Write(compile(get_variable(c, e.name), e.right),
          <<opcode.op_subtract_assign, opcode.op_save_slot, opcode.op_push_saved_slot>>),
    e.name)

CompileAssign(c, e) == set_variable(compile(c, e.right), e.name)

CompileInfixBinary(c, e) ==
  Write(compile(compile(c, e.left), e.right),
        <<IF e.op = "-" THEN opcode.op_subtract ELSE opcode.op_less>>)

compile_logical_operator(c, e) ==
  LET tested == emit_jump(compile(c, e.left),
                          IF e.op = "and" THEN opcode.op_conditional_jump_leave
                          ELSE opcode.op_conditional_truthy_jump_leave)
      right == compile(tested, e.right)
  IN patch_jump(right, Jump(tested), Here(right))

CompileCall(c, e) ==
  Write(CompileAll(compile(c, e.callable), e.arguments),
        <<opcode.op_call, Len(e.arguments)>>)

CompileLet(c, s) ==
  IF s.value = IdentifierExpression(s.name)
  THEN Error(c, "variable_in_own_initializer")
  ELSE declare_variable(compile(c, s.value), s.name, s.mutable)

CompileBlock(c, s) == end_scope(CompileStatements(begin_scope(c), s.statements))

CompileIf(c, s) ==
  LET tested == emit_jump(compile(c, s.expression), opcode.op_conditional_jump)
      consequence == emit_jump(CompileStatement(tested, s.consequence), opcode.op_jump)
      alternative == CompileStatements(
                       patch_jump(consequence, Jump(tested), Here(consequence)),
                       s.alternative)
  IN patch_jump(alternative, Jump(consequence), Here(alternative))

CompileWhile(c, s) ==
  LET loop_start == Here(c)
      tested == emit_jump(compile(PushLoop(c, FALSE), s.expression),
                          opcode.op_conditional_jump)
      body == emit_loop(CompileStatement(tested, s.body), loop_start)
  IN patch_loop_context(patch_jump(body, Jump(tested), Here(body)),
                        Here(body), loop_start)

(* A mutant: continue starts the next round without the increment.          *)
CompileForWithoutIncrement(c, s) ==
  LET initialized == CompileStatements(begin_scope(c), s.initializer)
      loop_start == Here(initialized)
      entered == PushLoop(initialized, FALSE)
      tested == IF s.condition = << >> THEN entered
                ELSE emit_jump(CompileAll(entered, s.condition),
                               opcode.op_conditional_jump)
      body == CompileStatement(begin_scope(tested), s.body)
      stepped == IF s.increment = << >> THEN body
                 ELSE Write(CompileAll(body, s.increment), <<opcode.op_pop>>)
      looped == emit_loop(stepped, loop_start)
      ended == end_scope(looped)
      left == IF s.condition = << >> THEN ended
              ELSE patch_jump(ended, Jump(tested), Here(ended))
  IN end_scope(patch_loop_context(left, Here(looped), loop_start))

CompileFor(c, s) ==
  LET initialized == CompileStatements(begin_scope(c), s.initializer)
      loop_start == Here(initialized)
      entered == PushLoop(initialized, s.increment # << >>)
      tested == IF s.condition = << >> THEN entered
                ELSE emit_jump(CompileAll(entered, s.condition),
                               opcode.op_conditional_jump)
      body == CompileStatement(begin_scope(tested), s.body)
      continue_target == IF s.increment = << >> THEN loop_start ELSE Here(body)
      stepped == IF s.increment = << >> THEN body
                 ELSE Write(CompileAll(body, s.increment), <<opcode.op_pop>>)
      looped == emit_loop(stepped, loop_start)
      ended == end_scope(looped)
      left == IF s.condition = << >> THEN ended
              ELSE patch_jump(ended, Jump(tested), Here(ended))
  IN end_scope(patch_loop_context(left, Here(looped), continue_target))

(* A mutant: the values of the block's locals stay on the stack.            *)
CompileControlFlowWithoutPops(c, s) ==
  IF c.loops = << >> THEN Error(c, "control_flow_outside_loop")
  ELSE LET jumped == emit_jump(c, IF s.type = "continue" /\ ~Loop(c).continue_forward
                                  THEN opcode.op_loop ELSE opcode.op_jump)
       IN IF s.type = "break"
          THEN SetLoop(jumped, [Loop(c) EXCEPT !.breaks = Append(@, Jump(jumped))])
          ELSE SetLoop(jumped, [Loop(c) EXCEPT !.continues = Append(@, Jump(jumped))])

(* m_loop_stack belongs to the compiler and not to the function.            *)
CompileControlFlow(c, s) ==
  IF c.loops = << >> THEN Error(c, "control_flow_outside_loop")
  ELSE LET popped == IF c.scope_depth > Loop(c).scope_depth
                     THEN pop_locals(c, Loop(c).scope_depth) ELSE c
           jumped == emit_jump(popped,
                       IF s.type = "continue" /\ ~Loop(c).continue_forward
                       THEN opcode.op_loop ELSE opcode.op_jump)
       IN IF s.type = "break"
          THEN SetLoop(jumped, [Loop(c) EXCEPT !.breaks = Append(@, Jump(jumped))])
          ELSE SetLoop(jumped, [Loop(c) EXCEPT !.continues = Append(@, Jump(jumped))])

emit_return(c) == Write(c, <<opcode.op_null, opcode.op_return>>)

CompileReturn(c, s) ==
  IF s.result = << >> THEN emit_return(c)
  ELSE Write(CompileAll(c, s.result), <<opcode.op_return>>)

push_function_context(c, arity) ==
  [c EXCEPT
     !.chunks = Append(@, NewChunk(arity)),
     !.contexts = Append(@, [chunk |-> Len(c.chunks) + 1,
       locals |-> <<[name |-> "", depth |-> 0, mutable |-> FALSE]>>])]

(* The name is declared before the body is compiled.  The scope the guard   *)
(* begins ends when the context is gone: nothing is popped.                 *)
CompileFunction(c, s) ==
  LET declared == declare_variable(c, s.name, FALSE)
      pushed == push_function_context(declared, Len(s.parameters))
      parameters == DeclareParameters(begin_scope(pushed), s.parameters)
      body == emit_return(compile(parameters, s.body))
      closed == Write([body EXCEPT !.contexts = Front(@)], <<opcode.op_closure>>)
  IN end_scope(write_constant(closed, Closure(Context(pushed).chunk)))

(* A failed assertion ends the program.                                     *)
compile(c, node) ==
  IF c.asserted THEN c ELSE
  CASE node.type = "number"         -> write_constant(c, Number(node.number))
    [] node.type = "boolean"        -> Write(c, <<IF node.boolean THEN opcode.op_true
                                                  ELSE opcode.op_false>>)
    [] node.type = "null"           -> Write(c, <<opcode.op_null>>)
    [] node.type = "identifier"     -> get_variable(c, node.name)
    [] node.type = "assign"         -> CompileAssign(c, node)
    [] node.type = "prefix_unary"   -> CompilePrefixUnary(c, node)
    [] node.type = "postfix_unary"  -> CompilePostfixUnary(c, node)
    [] node.type = "infix_binary"   -> CompileInfixBinary(c, node)
    [] node.type = "compound_assign" -> CompileCompoundAssign(c, node)
    [] node.type = "logical"        -> compile_logical_operator(c, node)
    [] node.type = "call"           -> CompileCall(c, node)
    [] node.type = "expression_statement" ->
         Write(compile(c, node.expression), <<opcode.op_pop>>)
    [] node.type = "print"          -> Write(compile(c, node.expression),
                                             <<opcode.op_print>>)
    [] node.type = "let"            -> CompileLet(c, node)
    [] node.type = "block"          -> CompileBlock(c, node)
    [] node.type = "if"             -> CompileIf(c, node)
    [] node.type = "while"          -> CompileWhile(c, node)
    [] node.type = "for"            -> CompileFor(c, node)
    [] node.type \in {"break", "continue"} -> CompileControlFlow(c, node)
    [] node.type = "function"       -> CompileFunction(c, node)
    [] node.type = "return"         -> CompileReturn(c, node)
    [] node.type = "empty"          -> c

(* compiler::compile of a source: a new compiler, the script's function.    *)
CompileProgram(statements) ==
  LET compiler == [chunks |-> << >>, contexts |-> << >>, scope_depth |-> 0,
                   loops |-> << >>, errors |-> {}, asserted |-> FALSE]
      script == begin_scope(push_function_context(compiler, 0))
  IN end_scope(emit_return(CompileStatements(script, statements)))
=============================================================================
