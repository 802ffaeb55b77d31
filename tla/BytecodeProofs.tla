--------------------------- MODULE BytecodeProofs ---------------------------
(***************************************************************************)
(* What the compiler writes as the operand of a jump is where the virtual   *)
(* machine goes, for every code, address and distance the three bytes hold. *)
(* The runs of Execution only have short jumps.                             *)
(***************************************************************************)
EXTENDS Bytecode, SequenceTheorems, TLAPS

Distance == 0 .. uint24_max

(* The three bytes at an address lie in the code.                           *)
Holds(code, start) == start + OPERANDS_WIDTH <= Len(code)

-----------------------------------------------------------------------------
(* uint24_max is what three bytes hold at most.                              *)
LEMMA Uint24 == uint24_max \in Nat /\ uint24_max < 256 * 65536
  BY SMT DEF uint24_max

(* encode_int writes bytes.                                                 *)
LEMMA EncodesBytes ==
  ASSUME NEW n \in Distance
  PROVE  /\ encode_int(n) \in Seq(Byte)
         /\ Len(encode_int(n)) = OPERANDS_WIDTH
         /\ encode_int(n)[1] = n % 256
         /\ encode_int(n)[2] = (n \div 256) % 256
         /\ encode_int(n)[3] = (n \div 65536) % 256
<1>1. n \in Nat /\ n % 256 \in Byte /\ (n \div 256) % 256 \in Byte
      /\ (n \div 65536) % 256 \in Byte
  BY Uint24, SMT DEF Distance, Byte
<1> QED  BY <1>1, SMT DEF encode_int, OPERANDS_WIDTH

(* Three bytes hold every distance: what decode_int reads is what           *)
(* encode_int wrote.                                                        *)
THEOREM OperandsKeepTheirValue ==
  ASSUME NEW n \in Distance
  PROVE  decode_int(encode_int(n)) = n
<1> DEFINE a == n % 256
           b == (n \div 256) % 256
           c == (n \div 65536) % 256
<1>1. n \in Nat /\ n < 256 * 65536
  BY Uint24, SMT DEF Distance
<1>2. c = n \div 65536
  BY <1>1, SMT
<1>3. n = 256 * (n \div 256) + a
  BY <1>1, SMT
<1>4. n \div 256 = 256 * (n \div 65536) + b
  BY <1>1, SMT
<1>5. a + 256 * b + 65536 * c = n
  BY <1>1, <1>2, <1>3, <1>4, SMT
<1> QED  BY <1>5, EncodesBytes, SMT DEF decode_int

-----------------------------------------------------------------------------
(* chunk::patch writes its three bytes and nothing else, and the code stays *)
(* as long as it was.                                                       *)
THEOREM PatchWritesThreeBytes ==
  ASSUME NEW code \in Seq(Byte), NEW start \in Nat, Holds(code, start),
         NEW n \in Distance
  PROVE  LET patched == Patch(code, encode_int(n), start) IN
         /\ patched \in Seq(Byte)
         /\ Len(patched) = Len(code)
         /\ Operand(patched, start) = n
         /\ \A i \in 1 .. Len(code) :
              i \notin start + 1 .. start + OPERANDS_WIDTH => patched[i] = code[i]
<1> DEFINE e == encode_int(n)
           patched == Patch(code, e, start)
<1>1. e[1] \in Byte /\ e[2] \in Byte /\ e[3] \in Byte
  BY EncodesBytes, SMT DEF OPERANDS_WIDTH
<1>2. Len(code) \in Nat /\ {start + 1, start + 2, start + 3} \subseteq 1 .. Len(code)
  BY SMT DEF Holds, OPERANDS_WIDTH
<1> HIDE DEF e
<1>3. patched = [i \in 1 .. Len(code) |->
                   IF i = start + 3 THEN e[3]
                   ELSE IF i = start + 2 THEN e[2]
                   ELSE IF i = start + 1 THEN e[1]
                   ELSE code[i]]
  BY <1>2, SMT DEF Patch
<1> HIDE DEF patched
<1>4. patched \in Seq(Byte) /\ Len(patched) = Len(code)
  BY <1>1, <1>2, <1>3, SMT
<1>5. patched[start + 1] = e[1] /\ patched[start + 2] = e[2] /\ patched[start + 3] = e[3]
  BY <1>2, <1>3, SMT
<1>6. \A i \in 1 .. Len(code) :
        i \notin start + 1 .. start + OPERANDS_WIDTH => patched[i] = code[i]
  BY <1>2, <1>3, SMT DEF OPERANDS_WIDTH
<1>7. decode_int(<<e[1], e[2], e[3]>>) = decode_int(e)
  BY SMT DEF decode_int
<1>8. Operand(patched, start) = n
  BY <1>5, <1>7, OperandsKeepTheirValue, SMT DEF Operand, e
<1> QED  BY <1>4, <1>6, <1>8, SMT DEF patched, e

(* A jump patched by patch_jump goes to its target, as run() takes it.      *)
THEOREM PatchedJumpsLand ==
  ASSUME NEW code \in Seq(Byte), NEW start \in Nat, NEW target \in Nat,
         Holds(code, start), target - start - OPERANDS_WIDTH \in Distance
  PROVE  JumpTarget(PatchJump(code, start, target), start) = target
<1> DEFINE n == target - start - OPERANDS_WIDTH
<1>1. Operand(PatchJump(code, start, target), start) = n
  BY PatchWritesThreeBytes, SMT DEF PatchJump
<1> QED  BY <1>1, SMT DEF JumpTarget, OPERANDS_WIDTH

(* A continue patched by patch_loop goes back to its target.                *)
THEOREM PatchedLoopsLand ==
  ASSUME NEW code \in Seq(Byte), NEW start \in Nat, NEW target \in Nat,
         Holds(code, start), start - target + OPERANDS_WIDTH \in Distance
  PROVE  LoopTarget(PatchLoop(code, start, target), start) = target
<1> DEFINE n == start - target + OPERANDS_WIDTH
<1>1. Operand(PatchLoop(code, start, target), start) = n
  BY PatchWritesThreeBytes, SMT DEF PatchLoop
<1> QED  BY <1>1, SMT DEF LoopTarget, OPERANDS_WIDTH

(* The loop emit_loop writes goes back to the start of the loop; its operand *)
(* follows its opcode at the end of the code.                               *)
THEOREM EmittedLoopsLand ==
  ASSUME NEW code \in Seq(Byte), NEW loop_start \in 0 .. Len(code),
         Len(code) + 1 - loop_start + OPERANDS_WIDTH \in Distance
  PROVE  LET emitted == EmitLoop(code, loop_start) IN
         /\ emitted[Len(code) + 1] = opcode.op_loop
         /\ LoopTarget(emitted, Len(code) + 1) = loop_start
<1> DEFINE n == Len(code) + 1 - loop_start + OPERANDS_WIDTH
           e == encode_int(n)
           op == <<opcode.op_loop>>
           emitted == EmitLoop(code, loop_start)
<1>1. /\ e \in Seq(Byte) /\ Len(e) = 3
      /\ e[1] \in Byte /\ e[2] \in Byte /\ e[3] \in Byte
  BY EncodesBytes, SMT DEF OPERANDS_WIDTH
<1>2. decode_int(e) = n
  BY OperandsKeepTheirValue, SMT
<1>3. opcode.op_loop \in Byte
  BY SMT DEF opcode, Byte
<1>4. emitted = (code \o op) \o e
  BY SMT DEF EmitLoop
<1>5. n \in Nat /\ Len(code) \in Nat
  BY Uint24, SMT DEF Distance
<1> HIDE DEF e, emitted
<1>6. op \in Seq(Byte) /\ Len(op) = 1 /\ op[1] = opcode.op_loop
  BY <1>3, SMT
<1> HIDE DEF op
<1>7. code \o op \in Seq(Byte) /\ Len(code \o op) = Len(code) + 1
      /\ (code \o op)[Len(code) + 1] = opcode.op_loop
  <2>1. /\ code \o op \in Seq(Byte)
        /\ Len(code \o op) = Len(code) + Len(op)
        /\ \A i \in 1 .. Len(code) + Len(op) :
             (code \o op)[i] = IF i <= Len(code) THEN code[i] ELSE op[i - Len(code)]
    BY <1>6, ConcatProperties, Zenon
  <2>2. (code \o op)[Len(code) + 1] = op[Len(code) + 1 - Len(code)]
    BY <1>5, <1>6, <2>1, SMT
  <2>3. Len(code) + 1 - Len(code) = 1
    BY <1>5, SMT
  <2> QED  BY <1>6, <2>1, <2>2, <2>3, Zenon
<1>8. /\ emitted[Len(code) + 1] = opcode.op_loop
      /\ emitted[Len(code) + 2] = e[1]
      /\ emitted[Len(code) + 3] = e[2]
      /\ emitted[Len(code) + 4] = e[3]
  BY <1>1, <1>4, <1>5, <1>7, ConcatProperties, SMT
<1>9. decode_int(<<e[1], e[2], e[3]>>) = decode_int(e)
  BY SMT DEF decode_int
<1>10. Operand(emitted, Len(code) + 1) = n
  BY <1>2, <1>5, <1>8, <1>9, SMT DEF Operand
<1>11. LoopTarget(emitted, Len(code) + 1) = loop_start
  BY <1>5, <1>10, SMT DEF LoopTarget, OPERANDS_WIDTH
<1> QED  BY <1>8, <1>11, SMT DEF emitted
=============================================================================
