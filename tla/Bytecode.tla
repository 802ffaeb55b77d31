------------------------------ MODULE Bytecode ------------------------------
(***************************************************************************)
(* The bytes of a chunk's code: the opcodes (chunk.hpp), the three byte    *)
(* operands (utility.hpp), and the jumps as the compiler writes and patches *)
(* them (compiler.cpp) and as the virtual machine takes them (vm.cpp).      *)
(* Addresses count from 0: the byte at address a is code[a + 1].           *)
(***************************************************************************)
EXTENDS Integers, Sequences

Byte == 0 .. 255

uint24_max == 16777215

OPERANDS_WIDTH == 3

opcode ==
  [op_pop |-> 1, op_pop_n |-> 2, op_constant |-> 3, op_constant_long |-> 4,
   op_conditional_jump |-> 5, op_conditional_jump_leave |-> 7,
   op_conditional_truthy_jump_leave |-> 8, op_jump |-> 9, op_loop |-> 10,
   op_call |-> 11, op_closure |-> 12, op_save_slot |-> 26,
   op_push_saved_slot |-> 27, op_preincrement |-> 33, op_postincrement |-> 35,
   op_subtract |-> 37, op_less |-> 49, op_subtract_assign |-> 53, op_null |-> 63,
   op_true |-> 64, op_false |-> 65, op_print |-> 66, op_return |-> 67,
   op_get_global |-> 70, op_get_local |-> 76, op_get_local_long |-> 77,
   op_set_local |-> 78, op_set_local_long |-> 79, op_set_if_local |-> 80,
   op_set_if_local_long |-> 81]

-----------------------------------------------------------------------------
(* Little endian. *)
encode_int(n) == <<n % 256, (n \div 256) % 256, (n \div 65536) % 256>>

decode_int(bytes) == bytes[1] + 256 * bytes[2] + 65536 * bytes[3]

(* chunk::patch writes over the three bytes at the address.                *)
Patch(code, bytes, start) ==
  [code EXCEPT ![start + 1] = bytes[1], ![start + 2] = bytes[2],
               ![start + 3] = bytes[3]]

(* emit_jump leaves its operand to patch_jump; the start of a jump is the   *)
(* address of its operand.                                                  *)
EmitJump(code, instruction) == code \o <<instruction>> \o encode_int(0)

JumpStart(code) == Len(code) - OPERANDS_WIDTH

PatchJump(code, start, target) ==
  Patch(code, encode_int(target - start - OPERANDS_WIDTH), start)

PatchLoop(code, start, target) ==
  Patch(code, encode_int(start - target + OPERANDS_WIDTH), start)

EmitLoop(code, loop_start) ==
  code \o <<opcode.op_loop>>
       \o encode_int(Len(code) + 1 - loop_start + OPERANDS_WIDTH)

-----------------------------------------------------------------------------
(* The virtual machine: an operand starts at ip, and is read before the     *)
(* jump is taken from the address after it.                                 *)
Operand(code, ip) == decode_int(<<code[ip + 1], code[ip + 2], code[ip + 3]>>)

(* A mutant: a jump goes back as a loop does.                               *)
JumpBack(code, ip) == ip + OPERANDS_WIDTH - Operand(code, ip)

JumpTarget(code, ip) == ip + OPERANDS_WIDTH + Operand(code, ip)

LoopTarget(code, ip) == ip + OPERANDS_WIDTH - Operand(code, ip)
=============================================================================
