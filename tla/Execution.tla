----------------------------- MODULE Execution -----------------------------
(***************************************************************************)
(* A program from its text to its end: vm::interpret compiles it (CodeGen)  *)
(* and vm::run executes the code (vm.cpp), an instruction a step.  Globals  *)
(* are other lines' and natives' business (Globals): what the read of one   *)
(* finds is left open.  The program's own locals capture nothing (Upvalues).*)
(***************************************************************************)
EXTENDS SourceSemantics

CONSTANTS
  Programs,  \* the programs considered: sequences of statements
  Inputs,    \* what a global may hold
  MaxReads   \* bound: reads of globals in a run

ASSUME ExecutionAssumption == MaxReads \in Nat

VARIABLES
  program,  \* the source
  chunks,   \* the code and constants of the functions it was compiled to
  stack,    \* m_stack, up to its top
  frames,   \* m_call_frames
  result,   \* where the interpretation is, and how it ended
  out       \* what was read from globals and printed

vars == <<program, chunks, stack, frames, result, out>>

Running == result = "running"

Frame == Last(frames)

Code == chunks[Frame.chunk].code

Reads == SelectSeq(out, LAMBDA e : e.event = "read")

ReadValues == [i \in DOMAIN Reads |-> Reads[i].value]

CallFrame(chunk, slots) ==
  [chunk |-> chunk, ip |-> 0, slots |-> slots, saved_slot |-> Null]

-----------------------------------------------------------------------------
(* What an instruction does to the stack and to ip. *)

TopOf(s) == Last(s)

Popped(s, n) == SubSeq(s, 1, Len(s) - n)

Pushed(s, value) == Append(s, value)

ByteAt(ip) == Code[ip + 1]

At(instruction) == Running /\ ByteAt(Frame.ip) = instruction

(* ip after an instruction with so many bytes of operands.                  *)
Beyond(width) == Frame.ip + 1 + width

Goto(ip) == frames' = [frames EXCEPT ![Len(frames)].ip = ip]

Continue == UNCHANGED <<program, chunks, result>>

(* run returns; the frames stay, and the stack s.                           *)
RuntimeError(s) ==
  /\ result' = "runtime_error"
  /\ stack' = s
  /\ UNCHANGED <<program, chunks, frames, out>>

(* The slot of a local, and the width of its operand.                       *)
Local(wide) ==
  Frame.slots + (IF wide THEN Operand(Code, Frame.ip + 1) ELSE ByteAt(Frame.ip + 1))

Width(wide) == IF wide THEN OPERANDS_WIDTH ELSE 1

(* An instruction without operands that leaves the stack s.                 *)
Simple(instruction, s) ==
  /\ At(instruction)
  /\ stack' = s
  /\ Goto(Beyond(0))
  /\ Continue /\ UNCHANGED out

-----------------------------------------------------------------------------
Init ==
  /\ program \in Programs
  /\ chunks = << >>
  /\ stack = << >>
  /\ frames = << >>
  /\ result = "source"
  /\ out = << >>

Interpret ==
  /\ result = "source"
  /\ LET compiled == CompileProgram(program) IN
     IF compiled.asserted
     THEN result' = "asserted" /\ UNCHANGED <<chunks, stack, frames>>
     ELSE IF compiled.errors # {}
     THEN result' = "compile_error" /\ UNCHANGED <<chunks, stack, frames>>
     ELSE /\ result' = "running"
          /\ chunks' = compiled.chunks
          /\ stack' = <<Closure(1)>>
          /\ frames' = <<CallFrame(1, 0)>>
  /\ UNCHANGED <<program, out>>

OpPop == Simple(opcode.op_pop, Popped(stack, 1))

OpPopN ==
  /\ At(opcode.op_pop_n)
  /\ stack' = Popped(stack, ByteAt(Frame.ip + 1))
  /\ Goto(Beyond(1))
  /\ Continue /\ UNCHANGED out

OpLiteral ==
  \/ Simple(opcode.op_true, Pushed(stack, Bool(TRUE)))
  \/ Simple(opcode.op_false, Pushed(stack, Bool(FALSE)))
  \/ Simple(opcode.op_null, Pushed(stack, Null))

OpConstant(wide) ==
  /\ At(IF wide THEN opcode.op_constant_long ELSE opcode.op_constant)
  /\ LET index == IF wide THEN Operand(Code, Frame.ip + 1) ELSE ByteAt(Frame.ip + 1)
     IN stack' = Pushed(stack, chunks[Frame.chunk].constants[index + 1])
  /\ Goto(Beyond(Width(wide)))
  /\ Continue /\ UNCHANGED out

(* The function is a constant, with an opcode of its own; it has no          *)
(* upvalues.                                                                *)
OpClosure ==
  /\ At(opcode.op_closure)
  /\ LET wide == ByteAt(Frame.ip + 1) = opcode.op_constant_long
         index == IF wide THEN Operand(Code, Frame.ip + 2) ELSE ByteAt(Frame.ip + 2)
     IN /\ stack' = Pushed(stack, chunks[Frame.chunk].constants[index + 1])
        /\ Goto(Beyond(1 + Width(wide)))
  /\ Continue /\ UNCHANGED out

OpGetGlobal(value) ==
  /\ At(opcode.op_get_global)
  /\ Len(Reads) < MaxReads
  /\ stack' = Pushed(stack, value)
  /\ out' = Append(out, Read(value))
  /\ Goto(Beyond(1))
  /\ Continue

OpGetLocal(wide) ==
  /\ At(IF wide THEN opcode.op_get_local_long ELSE opcode.op_get_local)
  /\ stack' = Pushed(stack, stack[Local(wide) + 1])
  /\ Goto(Beyond(Width(wide)))
  /\ Continue /\ UNCHANGED out

OpSetLocal(wide) ==
  /\ At(IF wide THEN opcode.op_set_local_long ELSE opcode.op_set_local)
  /\ stack' = [stack EXCEPT ![Local(wide) + 1] = TopOf(stack)]
  /\ Goto(Beyond(Width(wide)))
  /\ Continue /\ UNCHANGED out

(* The compare function follows the index.  run() looks for                 *)
(* op_set_local_long here, and so reads a long index as one byte, and the   *)
(* function from the wrong place.                                           *)
OpSetIfLocal(wide) ==
  /\ At(IF wide THEN opcode.op_set_if_local_long ELSE opcode.op_set_if_local)
  /\ IF SubSeq(Code, Frame.ip + 3, Frame.ip + 10) = is_primitive
     THEN /\ stack' = Popped(IF TopOf(stack).type = "closure" THEN stack
                             ELSE [stack EXCEPT ![Local(FALSE) + 1] = TopOf(stack)], 1)
          /\ Goto(Beyond(9))
          /\ Continue /\ UNCHANGED out
     ELSE /\ result' = "wild_call"
          /\ UNCHANGED <<program, chunks, stack, frames, out>>

OpSaveSlot ==
  /\ At(opcode.op_save_slot)
  /\ frames' = [frames EXCEPT ![Len(frames)].saved_slot = TopOf(stack),
                              ![Len(frames)].ip = Beyond(0)]
  /\ Continue /\ UNCHANGED <<stack, out>>

OpPushSavedSlot ==
  /\ At(opcode.op_push_saved_slot)
  /\ stack' = Pushed(stack, Frame.saved_slot)
  /\ frames' = [frames EXCEPT ![Len(frames)].saved_slot = Null,
                              ![Len(frames)].ip = Beyond(0)]
  /\ Continue /\ UNCHANGED out

(* A value of another type, or a closure, has no such operator.             *)
OpPreincrement ==
  /\ At(opcode.op_preincrement)
  /\ IF IsNumber(TopOf(stack))
     THEN /\ stack' = Pushed(Popped(stack, 1), Number(TopOf(stack).data + 1))
          /\ Goto(Beyond(0))
          /\ Continue /\ UNCHANGED out
     ELSE RuntimeError(Popped(stack, 1))

(* perform_unary_postfix increments a number and then returns {}: false.    *)
OpPostincrement ==
  /\ At(opcode.op_postincrement)
  /\ RuntimeError(IF IsNumber(TopOf(stack))
                  THEN Pushed(Popped(stack, 1), Number(TopOf(stack).data + 1))
                  ELSE Popped(stack, 1))

OpInfix ==
  /\ \/ At(opcode.op_subtract)
     \/ At(opcode.op_subtract_assign)
     \/ At(opcode.op_less)
  /\ LET left == stack[Len(stack) - 1]
         right == TopOf(stack)
     IN
     IF IsNumber(left) /\ IsNumber(right)
     THEN /\ stack' = Pushed(Popped(stack, 2),
                        IF At(opcode.op_less) THEN Bool(left.data < right.data)
                        ELSE Number(left.data - right.data))
          /\ Goto(Beyond(0))
          /\ Continue /\ UNCHANGED out
     ELSE RuntimeError(Popped(stack, 2))

OpPrint ==
  /\ At(opcode.op_print)
  /\ out' = Append(out, Printed(TopOf(stack)))
  /\ stack' = Popped(stack, 1)
  /\ Goto(Beyond(0))
  /\ Continue

OpConditionalJump ==
  /\ At(opcode.op_conditional_jump)
  /\ IF IsBool(TopOf(stack))
     THEN /\ stack' = Popped(stack, 1)
          /\ Goto(IF TopOf(stack) = Bool(FALSE) THEN JumpTarget(Code, Frame.ip + 1)
                  ELSE Beyond(OPERANDS_WIDTH))
          /\ Continue /\ UNCHANGED out
     ELSE RuntimeError(Popped(stack, 1))

(* Both look for op_conditional_jump, which is neither of them.             *)
OpConditionalJumpLeave ==
  /\ \/ At(opcode.op_conditional_jump_leave)
     \/ At(opcode.op_conditional_truthy_jump_leave)
  /\ IF ~IsBool(TopOf(stack)) THEN RuntimeError(Popped(stack, 1))
     ELSE /\ IF TopOf(stack) = Bool(TRUE)
             THEN /\ stack' = Popped(stack, 1)
                  /\ Goto(JumpTarget(Code, Frame.ip + 1))
             ELSE /\ stack' = Popped(stack, 2)
                  /\ Goto(Beyond(OPERANDS_WIDTH))
          /\ Continue /\ UNCHANGED out

OpJump ==
  /\ At(opcode.op_jump)
  /\ Goto(JumpTarget(Code, Frame.ip + 1))
  /\ Continue /\ UNCHANGED <<stack, out>>

OpLoop ==
  /\ At(opcode.op_loop)
  /\ Goto(LoopTarget(Code, Frame.ip + 1))
  /\ Continue /\ UNCHANGED <<stack, out>>

(* call_value, and the call of a closure: its frame begins at the callee.   *)
OpCall ==
  /\ At(opcode.op_call)
  /\ LET argc == ByteAt(Frame.ip + 1)
         callee == stack[Len(stack) - argc]
     IN IF callee.type # "closure" THEN RuntimeError(stack)
        ELSE IF chunks[callee.data].arity # argc THEN RuntimeError(stack)
        ELSE /\ frames' = Append([frames EXCEPT ![Len(frames)].ip = Beyond(1)],
                                 CallFrame(callee.data, Len(stack) - argc - 1))
             /\ Continue /\ UNCHANGED <<stack, out>>

OpReturn ==
  /\ At(opcode.op_return)
  /\ frames' = Front(frames)
  /\ IF Len(frames) = 1
     THEN stack' = << >> /\ result' = "ok"
     ELSE /\ stack' = Pushed(SubSeq(stack, 1, Frame.slots), TopOf(stack))
          /\ UNCHANGED result
  /\ UNCHANGED <<program, chunks, out>>

Run ==
  \/ OpPop
  \/ OpPopN
  \/ OpLiteral
  \/ \E wide \in BOOLEAN : OpConstant(wide)
  \/ OpClosure
  \/ \E value \in Inputs : OpGetGlobal(value)
  \/ \E wide \in BOOLEAN : OpGetLocal(wide)
  \/ \E wide \in BOOLEAN : OpSetLocal(wide)
  \/ \E wide \in BOOLEAN : OpSetIfLocal(wide)
  \/ OpSaveSlot
  \/ OpPushSavedSlot
  \/ OpPreincrement
  \/ OpPostincrement
  \/ OpInfix
  \/ OpPrint
  \/ OpConditionalJump
  \/ OpConditionalJumpLeave
  \/ OpJump
  \/ OpLoop
  \/ OpCall
  \/ OpReturn

Next == Interpret \/ Run

Spec == Init /\ [][Next]_vars

(* run() is a loop that only an end of the program leaves.                  *)
FairSpec == Spec /\ WF_vars(Run)

-----------------------------------------------------------------------------
(***************************************************************************)
(* Properties                                                              *)
(***************************************************************************)
ValueRecord ==
  [type : {"bool", "number", "null", "closure"}, data : Int]

(* Every variable has its type.                                             *)
TypeOK ==
  /\ \A n \in DOMAIN chunks : chunks[n].code \in Seq(Byte)
  /\ stack \in Seq(ValueRecord)
  /\ frames \in Seq([chunk : DOMAIN chunks, ip : Nat, slots : Nat,
                     saved_slot : ValueRecord])
  /\ result \in {"source", "running", "ok", "runtime_error", "compile_error",
                 "asserted", "wild_call"}
  /\ out \in Seq([event : {"read", "print"}, value : ValueRecord])

(* What a program reads and prints is what its text says, in that order, as *)
(* far as it has come; it has come all the way when it reads the next       *)
(* global or ends, and it ends in the way its text says.                    *)
ExecutesItsSource ==
  result \in {"running", "ok", "runtime_error", "wild_call"} =>
    LET meant == RunProgram(program, ReadValues) IN
    /\ IsPrefix(out, meant.out)
    /\ result = "ok" => meant.status \in {"normal", "return"} /\ out = meant.out
    /\ result = "runtime_error" => meant.status = "error" /\ out = meant.out
    /\ At(opcode.op_get_global) => meant.status = "blocked" /\ out = meant.out
    /\ result # "wild_call"

(* Wherever a statement begins, the stack is as high as the compiler has it *)
(* there, on every path that leads to it: the frame's callee, arguments and *)
(* locals in scope, and nothing else.                                       *)
HeightsAgree ==
  Running =>
    \A h \in chunks[Frame.chunk].heights :
      h[1] = Frame.ip => Len(stack) = Frame.slots + h[2]

(* The compiler refuses exactly the programs that break the language's      *)
(* rules: a break or continue without a loop in its function, a name        *)
(* declared twice in a scope or in its own initializer, an assignment to    *)
(* what is not mutable.                                                     *)
RefusesIllFormed ==
  result # "source" => (result = "compile_error" <=> ~IsWellFormed(program))

(* An op_conditional_jump_leave or op_conditional_truthy_jump_leave whose   *)
(* condition is not met leaves the value it tested on the stack.            *)
LeavesTheValue ==
  [][(/\ \/ At(opcode.op_conditional_jump_leave)
         \/ At(opcode.op_conditional_truthy_jump_leave)
      /\ TopOf(stack) = Bool(FALSE)
      /\ result' = "running") => stack' = stack]_vars

(* A program ends that does not loop for ever by its text, and all programs *)
(* considered are such: no jump makes a loop of what is none, and none      *)
(* leads back to before the step that ends the loop.  Here a program may    *)
(* also have used up its reads.                                             *)
Ends == Running ~> (~Running \/ Len(Reads) = MaxReads)
=============================================================================
