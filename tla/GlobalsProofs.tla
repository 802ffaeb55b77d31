---------------------------- MODULE GlobalsProofs ----------------------------
(***************************************************************************)
(* Proofs about Globals: that the state keeps its types, that every        *)
(* definition names its global in every program, and that every mention    *)
(* does where nested functions share no names, for any number of names,    *)
(* functions and instructions.                                             *)
(***************************************************************************)
EXTENDS Globals, TLAPS

(* What makes the properties inductive: the compiler's index of a global   *)
(* is right in the chunk it belongs to, and so is the one a "glob fu" has  *)
(* waiting for the end of its body, in the function around it.             *)
IndexesInv ==
  \A n \in DOMAIN indexes : IsIndexOf(indexes[n].chunk, indexes[n].index, n)

PendingInv ==
  \A k \in DOMAIN contexts :
    contexts[k].kind = "global" =>
      /\ k > 1
      /\ contexts[k].name \in Names
      /\ IsIndexOf(contexts[k - 1].chunk, contexts[k].index, contexts[k].name)

RightIn(c, i) ==
  /\ (i.op = "define" \/ (~Shared /\ i.op \in GlobalOps)) => IsIndexOf(c, i.index, i.name)
  /\ i.op = "closure" => i.index \in DOMAIN chunks

CodeInv ==
  \A c \in DOMAIN chunks : \A k \in DOMAIN chunks[c].code :
    RightIn(c, chunks[c].code[k])

IInv == TypeOK /\ IndexesInv /\ PendingInv /\ CodeInv

ChunksType == chunks \in Seq(ChunkRecord)

(* Chunks only grow: what an index was the index of, it stays.             *)
ChunksGrow ==
  \A c \in DOMAIN chunks :
    /\ c \in DOMAIN chunks'
    /\ Len(chunks[c].identifiers) <= Len(chunks'[c].identifiers)
    /\ \A j \in 1 .. Len(chunks[c].identifiers) :
         chunks'[c].identifiers[j] = chunks[c].identifiers[j]

CodeStaysTheSame ==
  \A d \in DOMAIN chunks' : \A k \in DOMAIN chunks'[d].code :
    /\ d \in DOMAIN chunks /\ k \in DOMAIN chunks[d].code
    /\ chunks'[d].code[k] = chunks[d].code[k]

CodeGrows(c, code) ==
  \A d \in DOMAIN chunks' : \A k \in DOMAIN chunks'[d].code :
    \/ d \in DOMAIN chunks /\ k \in DOMAIN chunks[d].code
         /\ chunks'[d].code[k] = chunks[d].code[k]
    \/ d = c /\ \E j \in DOMAIN code : chunks'[d].code[k] = code[j]

IdentifiersAdded(c, identifiers) ==
  /\ Len(chunks'[c].identifiers) =
       Len(chunks[c].identifiers) + Len(identifiers)
  /\ \A j \in 1 .. Len(identifiers) :
       chunks'[c].identifiers[Len(chunks[c].identifiers) + j] = identifiers[j]

-----------------------------------------------------------------------------
LEMMA EmitProperties ==
  ASSUME NEW c \in ChunkRecord, NEW ids \in Seq(Names),
         NEW code \in Seq(InstructionRecord)
  PROVE  /\ Emit(c, ids, code) \in ChunkRecord
         /\ Emit(c, ids, code).identifiers = c.identifiers \o ids
         /\ Emit(c, ids, code).code = c.code \o code
<1>1. c.identifiers \in Seq(Names) /\ c.code \in Seq(InstructionRecord)
  BY DEF ChunkRecord
<1>2. c.identifiers \o ids \in Seq(Names) /\ c.code \o code \in Seq(InstructionRecord)
  BY <1>1
<1> QED
  BY <1>1, <1>2 DEF Emit, ChunkRecord

LEMMA ConcatProperties ==
  ASSUME NEW S, NEW s \in Seq(S), NEW t \in Seq(S)
  PROVE  /\ Len(s \o t) = Len(s) + Len(t)
         /\ \A j \in 1 .. Len(s) : (s \o t)[j] = s[j]
         /\ \A j \in 1 .. Len(t) : (s \o t)[Len(s) + j] = t[j]
         /\ \A k \in DOMAIN (s \o t) :
              \/ k \in DOMAIN s /\ (s \o t)[k] = s[k]
              \/ \E j \in DOMAIN t : (s \o t)[k] = t[j]
<1>1. Len(s) \in Nat /\ Len(t) \in Nat
  OBVIOUS
<1>2. /\ Len(s \o t) = Len(s) + Len(t)
      /\ \A j \in 1 .. Len(s) : (s \o t)[j] = s[j]
      /\ \A j \in 1 .. Len(t) : (s \o t)[Len(s) + j] = t[j]
  OBVIOUS
<1>3. ASSUME NEW k \in DOMAIN (s \o t), k \notin DOMAIN s
      PROVE  \E j \in DOMAIN t : (s \o t)[k] = t[j]
  <2>1. k \in 1 .. Len(s) + Len(t) /\ k \notin 1 .. Len(s)
    BY <1>2, <1>3
  <2>2. k - Len(s) \in 1 .. Len(t) /\ Len(s) + (k - Len(s)) = k
    BY <1>1, <2>1
  <2>3. k - Len(s) \in DOMAIN t /\ (s \o t)[k] = t[k - Len(s)]
    BY <1>2, <2>2
  <2> QED
    BY <2>3
<1> QED
  BY <1>2, <1>3

(* What Write does to the chunks.                                          *)
LEMMA WriteProperties ==
  ASSUME ChunksType, NEW c \in DOMAIN chunks, NEW ids \in Seq(Names),
         NEW code \in Seq(InstructionRecord), Write(c, ids, code)
  PROVE  /\ ChunksType'
         /\ DOMAIN chunks' = DOMAIN chunks
         /\ ChunksGrow
         /\ IdentifiersAdded(c, ids)
         /\ CodeGrows(c, code)
<1>0. chunks[c] \in ChunkRecord
  BY DEF ChunksType
<1>1. /\ chunks' = [chunks EXCEPT ![c] = Emit(chunks[c], ids, code)]
      /\ Emit(chunks[c], ids, code) \in ChunkRecord
  BY <1>0, EmitProperties DEF Write
<1>2. chunks' \in Seq(ChunkRecord) /\ DOMAIN chunks' = DOMAIN chunks
  BY <1>1 DEF ChunksType
<1>3. /\ chunks'[c].identifiers = chunks[c].identifiers \o ids
      /\ chunks'[c].code = chunks[c].code \o code
  BY <1>0, <1>1, EmitProperties DEF ChunksType
<1>4. \A d \in DOMAIN chunks : d # c => chunks'[d] = chunks[d]
  BY <1>1 DEF ChunksType
<1>5. \A d \in DOMAIN chunks :
        /\ chunks[d].identifiers \in Seq(Names)
        /\ chunks[d].code \in Seq(InstructionRecord)
  <2>1. ASSUME NEW d \in DOMAIN chunks
        PROVE  chunks[d] \in ChunkRecord
    BY DEF ChunksType
  <2> QED
    BY <2>1 DEF ChunkRecord
<1>6. ChunksGrow
  <2> SUFFICES ASSUME NEW d \in DOMAIN chunks
               PROVE  /\ Len(chunks[d].identifiers) <= Len(chunks'[d].identifiers)
                      /\ \A j \in 1 .. Len(chunks[d].identifiers) :
                           chunks'[d].identifiers[j] = chunks[d].identifiers[j]
    BY <1>2 DEF ChunksGrow
  <2>0. Len(chunks[d].identifiers) \in Nat /\ Len(ids) \in Nat
    BY <1>5
  <2>1. CASE d = c
    <3>1. /\ Len(chunks'[d].identifiers) = Len(chunks[d].identifiers) + Len(ids)
          /\ \A j \in 1 .. Len(chunks[d].identifiers) :
               chunks'[d].identifiers[j] = chunks[d].identifiers[j]
      BY <2>1, <1>3, <1>5, ConcatProperties
    <3> QED
      BY <2>0, <3>1
  <2>2. CASE d # c
    BY <2>0, <2>2, <1>4
  <2> QED
    BY <2>1, <2>2
<1>7. IdentifiersAdded(c, ids)
  BY <1>3, <1>5, ConcatProperties DEF IdentifiersAdded
<1>8. CodeGrows(c, code)
  <2> SUFFICES ASSUME NEW d \in DOMAIN chunks', NEW k \in DOMAIN chunks'[d].code
               PROVE  \/ d \in DOMAIN chunks /\ k \in DOMAIN chunks[d].code
                           /\ chunks'[d].code[k] = chunks[d].code[k]
                      \/ d = c /\ \E j \in DOMAIN code : chunks'[d].code[k] = code[j]
    BY DEF CodeGrows
  <2>1. CASE d = c
    BY <2>1, <1>2, <1>3, <1>5, ConcatProperties
  <2>2. CASE d # c
    BY <2>2, <1>2, <1>4
  <2> QED
    BY <2>1, <2>2
<1> QED
  BY <1>2, <1>6, <1>7, <1>8 DEF ChunksType

-----------------------------------------------------------------------------
(* The identifier at index i of chunk c will be n.                         *)
IndexNext(c, i, n) ==
  /\ i < Len(chunks'[c].identifiers)
  /\ chunks'[c].identifiers[i + 1] = n

RightNext(c, i) ==
  /\ (i.op = "define" \/ (~Shared /\ i.op \in GlobalOps)) => IndexNext(c, i.index, i.name)
  /\ i.op = "closure" => i.index \in DOMAIN chunks'

(* An index stays an index of its name.                                    *)
LEMMA IndexStays ==
  ASSUME ChunksType, ChunksGrow, NEW c \in DOMAIN chunks, NEW i \in Nat,
         NEW n, IsIndexOf(c, i, n)
  PROVE  IndexNext(c, i, n)
<1>1. i < Len(chunks[c].identifiers) /\ chunks[c].identifiers[i + 1] = n
  BY DEF IsIndexOf
<1>2. chunks[c].identifiers \in Seq(Names)
  <2>1. chunks[c] \in ChunkRecord
    BY DEF ChunksType
  <2> QED
    BY <2>1 DEF ChunkRecord
<1>3. /\ i + 1 \in 1 .. Len(chunks[c].identifiers)
      /\ Len(chunks[c].identifiers) \in Nat
  BY <1>1, <1>2
<1>4. /\ Len(chunks[c].identifiers) <= Len(chunks'[c].identifiers)
      /\ chunks'[c].identifiers[i + 1] = chunks[c].identifiers[i + 1]
  BY <1>3 DEF ChunksGrow
<1>5. chunks'[c].identifiers[i + 1] = n
  BY <1>1, <1>4
<1>6. i < Len(chunks'[c].identifiers)
  BY <1>1, <1>3, <1>4
<1> QED
  BY <1>5, <1>6 DEF IndexNext

(* The code stays right if what is added to it is.                         *)
LEMMA CodeStays ==
  ASSUME ChunksType, ChunksType', ChunksGrow, CodeInv, NEW c, NEW code,
         CodeGrows(c, code), \A j \in DOMAIN code : RightNext(c, code[j])
  PROVE  CodeInv'
<1> SUFFICES ASSUME NEW d \in DOMAIN chunks', NEW k \in DOMAIN chunks'[d].code
             PROVE  RightNext(d, chunks'[d].code[k])
  BY DEF CodeInv, RightIn, RightNext, IsIndexOf, IndexNext
<1>1. CASE d \in DOMAIN chunks /\ k \in DOMAIN chunks[d].code
             /\ chunks'[d].code[k] = chunks[d].code[k]
  <2>1. RightIn(d, chunks[d].code[k])
    BY <1>1 DEF CodeInv
  <2>2. chunks[d].code[k] \in InstructionRecord
    <3>1. chunks[d] \in ChunkRecord
      BY <1>1 DEF ChunksType
    <3>2. chunks[d].code \in Seq(InstructionRecord)
      BY <3>1 DEF ChunkRecord
    <3> QED
      BY <3>2, <1>1
  <2>3. chunks[d].code[k].index \in Nat
    BY <2>2 DEF InstructionRecord
  <2>4. RightNext(d, chunks[d].code[k])
    BY <1>1, <2>1, <2>3, IndexStays DEF RightIn, RightNext, ChunksGrow
  <2> QED
    BY <1>1, <2>4
<1>2. CASE d = c /\ \E j \in DOMAIN code : chunks'[d].code[k] = code[j]
  BY <1>2
<1> QED
  BY <1>1, <1>2 DEF CodeGrows

(* So do the compiler's indexes, the last of which may be new.             *)
LEMMA IndexesStay ==
  ASSUME TypeOK, ChunksGrow, IndexesInv, indexes' = indexes
  PROVE  IndexesInv'
<1> SUFFICES ASSUME NEW n \in DOMAIN indexes
             PROVE  IndexNext(indexes[n].chunk, indexes[n].index, n)
  BY DEF IndexesInv, IsIndexOf, IndexNext
<1>1. /\ IsIndexOf(indexes[n].chunk, indexes[n].index, n)
      /\ indexes[n].chunk \in DOMAIN chunks /\ indexes[n].index \in Nat
      /\ ChunksType
  BY DEF IndexesInv, TypeOK, ChunksType
<1> QED
  BY <1>1, IndexStays

LEMMA IndexesExtend ==
  ASSUME TypeOK, ChunksGrow, IndexesInv, NEW m \in Names, NEW c, NEW i,
         indexes' = Extend(indexes, m, [index |-> i, chunk |-> c]),
         IndexNext(c, i, m)
  PROVE  IndexesInv'
<1> SUFFICES ASSUME NEW n \in DOMAIN indexes'
             PROVE  IndexNext(indexes'[n].chunk, indexes'[n].index, n)
  BY DEF IndexesInv, IsIndexOf, IndexNext
<1>1. CASE n = m
  BY <1>1 DEF Extend
<1>2. CASE n # m
  <2>1. n \in DOMAIN indexes /\ indexes'[n] = indexes[n]
    BY <1>2 DEF Extend
  <2>2. /\ IsIndexOf(indexes[n].chunk, indexes[n].index, n)
        /\ indexes[n].chunk \in DOMAIN chunks /\ indexes[n].index \in Nat
        /\ ChunksType
    BY <2>1 DEF IndexesInv, TypeOK, ChunksType
  <2> QED
    BY <2>1, <2>2, IndexStays
<1> QED
  BY <1>1, <1>2

(* And the indexes that wait for the end of a body.                        *)
LEMMA PendingStays ==
  ASSUME TypeOK, ChunksGrow, PendingInv, NEW k \in DOMAIN contexts,
         contexts[k].kind = "global"
  PROVE  IndexNext(contexts[k - 1].chunk, contexts[k].index, contexts[k].name)
<1>1. /\ k > 1
      /\ IsIndexOf(contexts[k - 1].chunk, contexts[k].index, contexts[k].name)
  BY DEF PendingInv
<1>2. k - 1 \in DOMAIN contexts /\ ChunksType
  BY <1>1 DEF TypeOK, ChunksType
<1>3. contexts[k - 1] \in ContextRecord /\ contexts[k] \in ContextRecord
  BY <1>2 DEF TypeOK
<1>4. contexts[k - 1].chunk \in DOMAIN chunks /\ contexts[k].index \in Nat
  BY <1>3 DEF ContextRecord
<1> QED
  BY <1>1, <1>2, <1>4, IndexStays

-----------------------------------------------------------------------------
(* A chunk for a new function, after some identifiers for chunk c.         *)
LEMMA AddProperties ==
  ASSUME ChunksType, NEW c \in DOMAIN chunks, NEW ids \in Seq(Names),
         WriteAndAdd(c, ids)
  PROVE  /\ ChunksType'
         /\ DOMAIN chunks \subseteq DOMAIN chunks'
         /\ Len(chunks) + 1 \in DOMAIN chunks'
         /\ ChunksGrow
         /\ IdentifiersAdded(c, ids)
         /\ CodeStaysTheSame
<1>1. /\ chunks \in Seq(ChunkRecord)
      /\ << >> \in Seq(InstructionRecord)
      /\ \A d \in DOMAIN chunks : chunks[d] \in ChunkRecord
  BY DEF ChunksType
<1>2. /\ Emit(chunks[c], ids, << >>) \in ChunkRecord
      /\ Emit(chunks[c], ids, << >>).identifiers = chunks[c].identifiers \o ids
      /\ Emit(chunks[c], ids, << >>).code = chunks[c].code \o << >>
  BY <1>1, EmitProperties
<1>3. EmptyChunk \in ChunkRecord
  BY DEF EmptyChunk, ChunkRecord
<1>4. chunks' = Append([chunks EXCEPT ![c] = Emit(chunks[c], ids, << >>)], EmptyChunk)
  BY DEF WriteAndAdd
<1>5. /\ chunks' \in Seq(ChunkRecord)
      /\ DOMAIN chunks' = 1 .. Len(chunks) + 1
      /\ DOMAIN chunks = 1 .. Len(chunks)
      /\ Len(chunks) \in Nat
      /\ chunks'[Len(chunks) + 1] = EmptyChunk
      /\ chunks'[c] = Emit(chunks[c], ids, << >>)
      /\ \A d \in DOMAIN chunks : d # c => chunks'[d] = chunks[d]
  BY <1>1, <1>2, <1>3, <1>4
<1>6. \A d \in DOMAIN chunks :
        /\ chunks[d].identifiers \in Seq(Names)
        /\ chunks[d].code \in Seq(InstructionRecord)
  BY <1>1 DEF ChunkRecord
<1>7. /\ chunks'[c].identifiers = chunks[c].identifiers \o ids
       /\ chunks'[c].code = chunks[c].code
  BY <1>2, <1>5, <1>6
<1>8. \A d \in DOMAIN chunks : d # c => chunks'[d] = chunks[d]
  BY <1>5
<1>9. ChunksGrow
  <2> SUFFICES ASSUME NEW d \in DOMAIN chunks
               PROVE  /\ Len(chunks[d].identifiers) <= Len(chunks'[d].identifiers)
                      /\ \A j \in 1 .. Len(chunks[d].identifiers) :
                           chunks'[d].identifiers[j] = chunks[d].identifiers[j]
    BY <1>5 DEF ChunksGrow
  <2>0. Len(chunks[d].identifiers) \in Nat /\ Len(ids) \in Nat
    BY <1>6
  <2>1. CASE d = c
    <3>1. /\ Len(chunks'[d].identifiers) = Len(chunks[d].identifiers) + Len(ids)
          /\ \A j \in 1 .. Len(chunks[d].identifiers) :
               chunks'[d].identifiers[j] = chunks[d].identifiers[j]
      BY <2>1, <1>7, <1>6, ConcatProperties
    <3> QED
      BY <2>0, <3>1
  <2>2. CASE d # c
    BY <2>0, <2>2, <1>8
  <2> QED
    BY <2>1, <2>2
<1>10. IdentifiersAdded(c, ids)
  BY <1>7, <1>6, ConcatProperties DEF IdentifiersAdded
<1>11. CodeStaysTheSame
  <2> SUFFICES ASSUME NEW d \in DOMAIN chunks', NEW k \in DOMAIN chunks'[d].code
               PROVE  d \in DOMAIN chunks /\ k \in DOMAIN chunks[d].code
                        /\ chunks'[d].code[k] = chunks[d].code[k]
    BY DEF CodeStaysTheSame
  <2>1. CASE d = c
    BY <2>1, <1>7
  <2>2. CASE d # c /\ d \in DOMAIN chunks
    BY <2>2, <1>8
  <2>3. CASE d = Len(chunks) + 1
    BY <2>3, <1>5 DEF EmptyChunk
  <2> QED
    BY <2>1, <2>2, <2>3, <1>5
<1>12. DOMAIN chunks \subseteq DOMAIN chunks' /\ Len(chunks) + 1 \in DOMAIN chunks'
  BY <1>5
<1>13. ChunksType'
  BY <1>5 DEF ChunksType
<1> QED
  BY <1>9, <1>10, <1>11, <1>12, <1>13

(* With more chunks there are more to refer to.                            *)
LEMMA ScopesGrow ==
  ASSUME TypeOK, DOMAIN chunks \subseteq DOMAIN chunks'
  PROVE  /\ contexts \in Seq(ContextRecord')
         /\ indexes \in [DOMAIN indexes -> [index : Nat, chunk : DOMAIN chunks']]
         /\ calls \in Seq(CallRecord')
         /\ made \subseteq DOMAIN chunks'
<1>1. ContextRecord \subseteq ContextRecord'
  BY DEF ContextRecord
<1>2. [index : Nat, chunk : DOMAIN chunks] \subseteq [index : Nat, chunk : DOMAIN chunks']
  OBVIOUS
<1>3. CallRecord \subseteq CallRecord'
  BY DEF CallRecord
<1>4. contexts \in Seq(ContextRecord')
  <2>1. contexts \in Seq(ContextRecord)
    BY DEF TypeOK
  <2> HIDE DEF ContextRecord
  <2> QED
    BY <1>1, <2>1
<1>5. calls \in Seq(CallRecord')
  <2>1. calls \in Seq(CallRecord)
    BY DEF TypeOK
  <2> QED
    BY <1>3, <2>1
<1>6. indexes \in [DOMAIN indexes -> [index : Nat, chunk : DOMAIN chunks']]
  BY <1>2 DEF TypeOK
<1> QED
  BY <1>4, <1>5, <1>6 DEF TypeOK

LEMMA ContextFacts ==
  ASSUME TypeOK, Compiling
  PROVE  /\ Len(contexts) \in DOMAIN contexts
         /\ Context \in ContextRecord
         /\ Context.chunk \in DOMAIN chunks
         /\ Context.index \in Nat
         /\ Identifiers \in Seq(Names)
         /\ NextIndex \in Nat
         /\ ChunksType
<1>1. contexts \in Seq(ContextRecord) /\ contexts # << >> /\ ChunksType
  BY DEF TypeOK, Compiling, ChunksType
<1>2. Len(contexts) \in DOMAIN contexts
  BY <1>1
<1>3. Context \in ContextRecord
  BY <1>1, <1>2 DEF Context
<1>4. Context.chunk \in DOMAIN chunks /\ Context.index \in Nat
  BY <1>3 DEF ContextRecord
<1>5. chunks[Context.chunk] \in ChunkRecord
  BY <1>1, <1>4 DEF ChunksType
<1>6. Identifiers \in Seq(Names)
  BY <1>5 DEF Identifiers, ChunkRecord
<1>7. NextIndex \in Nat
  BY <1>6 DEF NextIndex
<1> QED
  BY <1>1, <1>2, <1>3, <1>4, <1>6, <1>7

LEMMA ShortSequences ==
  ASSUME NEW S, NEW x \in S, NEW y \in S
  PROVE  /\ << >> \in Seq(S)
         /\ <<x>> \in Seq(S) /\ DOMAIN <<x>> = {1} /\ <<x>>[1] = x
         /\ <<x, y>> \in Seq(S) /\ DOMAIN <<x, y>> = {1, 2}
         /\ <<x, y>>[1] = x /\ <<x, y>>[2] = y
OBVIOUS

LEMMA PositionIsNat ==
  ASSUME NEW S, NEW s \in Seq(S), NEW i \in DOMAIN s
  PROVE  i \in Nat
OBVIOUS

LEMMA InstructionType ==
  ASSUME NEW op \in GlobalOps \cup {"closure"}, NEW index \in Nat,
         NEW n \in Names \cup {""}, NEW mutable \in BOOLEAN
  PROVE  Instruction(op, index, n, mutable) \in InstructionRecord
BY DEF Instruction, InstructionRecord

LEMMA RightInstruction ==
  ASSUME NEW c, NEW op \in GlobalOps, NEW index, NEW n, NEW mutable,
         IndexNext(c, index, n)
  PROVE  RightNext(c, Instruction(op, index, n, mutable))
BY DEF RightNext, Instruction, GlobalOps

LEMMA RightClosure ==
  ASSUME NEW c, NEW d \in DOMAIN chunks'
  PROVE  RightNext(c, Closure(d))
BY DEF RightNext, Closure, Instruction, GlobalOps

LEMMA AllRight ==
  ASSUME NEW c, NEW x, NEW y, RightNext(c, x), RightNext(c, y)
  PROVE  /\ \A j \in DOMAIN <<x>> : RightNext(c, <<x>>[j])
         /\ \A j \in DOMAIN <<x, y>> : RightNext(c, <<x, y>>[j])
<1>1. ASSUME NEW j \in DOMAIN <<x>> PROVE RightNext(c, <<x>>[j])
  <2>1. <<x>>[j] = x
    OBVIOUS
  <2> QED
    BY <2>1
<1>2. ASSUME NEW j \in DOMAIN <<x, y>> PROVE RightNext(c, <<x, y>>[j])
  <2>1. <<x, y>>[j] = x \/ <<x, y>>[j] = y
    OBVIOUS
  <2> QED
    BY <2>1
<1> QED
  BY <1>1, <1>2

LEMMA NothingRight ==
  ASSUME NEW c
  PROVE  \A j \in DOMAIN << >> : RightNext(c, << >>[j])
OBVIOUS

(* add_identifier returns the index of what it adds.                       *)
LEMMA AddedOne ==
  ASSUME TypeOK, Compiling, NEW n \in Names,
         IdentifiersAdded(Context.chunk, <<n>>)
  PROVE  IndexNext(Context.chunk, NextIndex, n)
<1>1. /\ NextIndex \in Nat /\ NextIndex = Len(chunks[Context.chunk].identifiers)
  BY ContextFacts DEF NextIndex, Identifiers
<1>2. Len(<<n>>) = 1 /\ <<n>>[1] = n
  OBVIOUS
<1>3. /\ Len(chunks'[Context.chunk].identifiers) = NextIndex + 1
      /\ chunks'[Context.chunk].identifiers[NextIndex + 1] = n
  BY <1>1, <1>2 DEF IdentifiersAdded
<1> QED
  BY <1>1, <1>3 DEF IndexNext

LEMMA AddedTwo ==
  ASSUME TypeOK, Compiling, NEW n \in Names,
         IdentifiersAdded(Context.chunk, <<n, n>>)
  PROVE  IndexNext(Context.chunk, NextIndex + 1, n)
<1>1. /\ NextIndex \in Nat /\ NextIndex = Len(chunks[Context.chunk].identifiers)
  BY ContextFacts DEF NextIndex, Identifiers
<1>2. Len(<<n, n>>) = 2 /\ <<n, n>>[2] = n
  OBVIOUS
<1>3. /\ Len(chunks'[Context.chunk].identifiers) = NextIndex + 2
      /\ chunks'[Context.chunk].identifiers[NextIndex + 2] = n
  BY <1>1, <1>2 DEF IdentifiersAdded
<1> QED
  BY <1>1, <1>3 DEF IndexNext

Rest == UNCHANGED <<table, calls, made, line>>

(* What the vm holds does not change while a line is compiled.             *)
LEMMA CompileTypes ==
  ASSUME TypeOK, Rest, ChunksType', DOMAIN chunks \subseteq DOMAIN chunks',
         contexts' \in Seq(ContextRecord'), DOMAIN indexes' \subseteq Names,
         indexes' \in [DOMAIN indexes' -> [index : Nat, chunk : DOMAIN chunks']]
  PROVE  TypeOK'
<1>1. chunks' \in Seq(ChunkRecord')
  BY DEF ChunksType
<1>2. calls' \in Seq(CallRecord') /\ made' \subseteq DOMAIN chunks'
  BY ScopesGrow DEF Rest
<1>3. /\ DOMAIN table' \subseteq Names
      /\ table' \in [DOMAIN table' -> [value : Values, mutable : BOOLEAN]]
      /\ line' \in {"ok", "error", "assert"}
  BY DEF Rest, TypeOK
<1> QED
  BY <1>1, <1>2, <1>3 DEF TypeOK

LEMMA ExtendType ==
  ASSUME TypeOK, DOMAIN chunks \subseteq DOMAIN chunks', NEW n \in Names,
         NEW i \in Nat, NEW c \in DOMAIN chunks
  PROVE  LET f == Extend(indexes, n, [index |-> i, chunk |-> c]) IN
           /\ DOMAIN f \subseteq Names
           /\ f \in [DOMAIN f -> [index : Nat, chunk : DOMAIN chunks']]
BY ScopesGrow DEF Extend, TypeOK

(* The contexts, when no function begins or ends.                          *)
LEMMA ContextsStay ==
  ASSUME TypeOK, ChunksGrow, DOMAIN chunks \subseteq DOMAIN chunks', PendingInv,
         UNCHANGED contexts
  PROVE  contexts' \in Seq(ContextRecord') /\ PendingInv'
<1>1. contexts' \in Seq(ContextRecord')
  BY ScopesGrow
<1>2. ASSUME NEW k \in DOMAIN contexts, contexts[k].kind = "global"
      PROVE  /\ k > 1 /\ contexts[k].name \in Names
             /\ IndexNext(contexts[k - 1].chunk, contexts[k].index, contexts[k].name)
  BY <1>2, PendingStays DEF PendingInv
<1>3. PendingInv'
  BY <1>2 DEF PendingInv, IndexNext, IsIndexOf
<1> QED
  BY <1>1, <1>3

-----------------------------------------------------------------------------
(* Each action of the compiler keeps the invariant.                        *)
LEMMA DeclareVariableStep ==
  ASSUME IInv, NEW n \in Names, NEW mutable \in BOOLEAN,
         DeclareVariable(n, mutable)
  PROVE  IInv'
<1> DEFINE c == Context.chunk
           code == <<Instruction("define", NextIndex, n, mutable)>>
<1>1. /\ TypeOK /\ IndexesInv /\ PendingInv /\ CodeInv /\ Compiling
      /\ Write(c, <<n>>, code)
      /\ indexes' = Extend(indexes, n, IndexHere(NextIndex))
      /\ UNCHANGED contexts /\ Rest
  BY DEF IInv, DeclareVariable, Rest
<1>2. /\ c \in DOMAIN chunks /\ NextIndex \in Nat /\ ChunksType
  BY <1>1, ContextFacts
<1>3. code \in Seq(InstructionRecord) /\ <<n>> \in Seq(Names)
  BY <1>2, InstructionType, ShortSequences DEF GlobalOps
<1>4. /\ ChunksType' /\ DOMAIN chunks' = DOMAIN chunks /\ ChunksGrow
      /\ IdentifiersAdded(c, <<n>>) /\ CodeGrows(c, code)
  <2> HIDE DEF code
  <2> QED
    BY <1>1, <1>2, <1>3, WriteProperties
<1>5. IndexNext(c, NextIndex, n)
  BY <1>1, <1>4, AddedOne
<1>6. CodeInv'
  <2>1. \A j \in DOMAIN code : RightNext(c, code[j])
    BY <1>5, RightInstruction DEF GlobalOps
  <2> HIDE DEF code
  <2> QED
    BY <1>1, <1>2, <1>4, <2>1, CodeStays
<1>7. IndexesInv'
  BY <1>1, <1>4, <1>5, IndexesExtend DEF IndexHere, c
<1>8. contexts' \in Seq(ContextRecord') /\ PendingInv'
  BY <1>1, <1>4, ContextsStay
<1>9. /\ DOMAIN indexes' \subseteq Names
      /\ indexes' \in [DOMAIN indexes' -> [index : Nat, chunk : DOMAIN chunks']]
  BY <1>1, <1>2, <1>4, ExtendType DEF IndexHere, c
<1> QED
  BY <1>1, <1>4, <1>6, <1>7, <1>8, <1>9, CompileTypes DEF IInv

LEMMA NamedVariableStep ==
  ASSUME IInv, NEW n \in Names, NEW op \in {"get", "set", "set_if"},
         NamedVariable(n, op)
  PROVE  IInv'
<1> DEFINE c == Context.chunk
           ids == IF MentionAdds(n) THEN <<n>> ELSE << >>
           code == <<Instruction(op, MentionIndex(n), n, FALSE)>>
<1>1. /\ TypeOK /\ IndexesInv /\ PendingInv /\ CodeInv /\ Compiling
      /\ MayMention(n)
      /\ Write(c, ids, code)
      /\ indexes' = IF MentionAdds(n)
                    THEN Extend(indexes, n, IndexHere(NextIndex)) ELSE indexes
      /\ UNCHANGED contexts /\ Rest
  BY DEF IInv, NamedVariable, Rest
<1>2. /\ c \in DOMAIN chunks /\ NextIndex \in Nat /\ ChunksType
  BY <1>1, ContextFacts
<1>3. MentionIndex(n) \in Nat
  BY <1>1, <1>2 DEF MentionIndex, TypeOK
<1>4. code \in Seq(InstructionRecord) /\ ids \in Seq(Names)
  <2>1. Instruction(op, MentionIndex(n), n, FALSE) \in InstructionRecord
    BY <1>3, InstructionType DEF GlobalOps
  <2> QED
    BY <2>1, ShortSequences
<1>5. /\ ChunksType' /\ DOMAIN chunks' = DOMAIN chunks /\ ChunksGrow
      /\ IdentifiersAdded(c, ids) /\ CodeGrows(c, code)
  <2> HIDE DEF code, ids
  <2> QED
    BY <1>1, <1>2, <1>4, WriteProperties
<1>6. MentionAdds(n) => IndexNext(c, NextIndex, n)
  <2>1. CASE MentionAdds(n)
    <3>1. IdentifiersAdded(c, <<n>>)
      BY <2>1, <1>5
    <3> QED
      BY <1>1, <3>1, AddedOne
  <2> QED
    BY <2>1
<1>7. ~Shared => IndexNext(c, MentionIndex(n), n)
  <2>1. CASE MentionAdds(n)
    BY <2>1, <1>6 DEF MentionAdds, MentionIndex
  <2>2. CASE ~MentionAdds(n) /\ ~Shared
    <3>1. n \in DOMAIN indexes /\ indexes[n].chunk = c /\ MentionIndex(n) = indexes[n].index
      BY <2>2, <1>1 DEF MentionAdds, MentionIndex, MayMention
    <3>2. IsIndexOf(c, MentionIndex(n), n)
      BY <3>1, <1>1 DEF IndexesInv
    <3> QED
      BY <3>2, <1>2, <1>3, <1>5, IndexStays
  <2> QED
    BY <2>1, <2>2
<1>8. CodeInv'
  <2>1. RightNext(c, Instruction(op, MentionIndex(n), n, FALSE))
    <3>1. CASE Shared
      BY <3>1 DEF RightNext, Instruction
    <3>2. CASE ~Shared
      BY <3>2, <1>7, RightInstruction DEF GlobalOps
    <3> QED
      BY <3>1, <3>2
  <2>2. \A j \in DOMAIN code : RightNext(c, code[j])
    BY <2>1, AllRight
  <2> HIDE DEF code
  <2> QED
    BY <1>1, <1>2, <1>5, <2>2, CodeStays
<1>9. /\ IndexesInv'
      /\ DOMAIN indexes' \subseteq Names
      /\ indexes' \in [DOMAIN indexes' -> [index : Nat, chunk : DOMAIN chunks']]
  <2>1. CASE MentionAdds(n)
    <3>1. indexes' = Extend(indexes, n, [index |-> NextIndex, chunk |-> c])
      BY <2>1, <1>1 DEF IndexHere
    <3>2. IndexesInv'
      BY <2>1, <3>1, <1>1, <1>5, <1>6, IndexesExtend
    <3>3. /\ DOMAIN indexes' \subseteq Names
          /\ indexes' \in [DOMAIN indexes' -> [index : Nat, chunk : DOMAIN chunks']]
      BY <3>1, <1>1, <1>2, <1>5, ExtendType
    <3> QED
      BY <3>2, <3>3
  <2>2. CASE ~MentionAdds(n)
    <3>1. indexes' = indexes
      BY <2>2, <1>1
    <3>2. IndexesInv'
      BY <3>1, <1>1, <1>5, IndexesStay
    <3>3. /\ DOMAIN indexes' \subseteq Names
          /\ indexes' \in [DOMAIN indexes' -> [index : Nat, chunk : DOMAIN chunks']]
      BY <3>1, <1>1, <1>5, ScopesGrow DEF TypeOK
    <3> QED
      BY <3>2, <3>3
  <2> QED
    BY <2>1, <2>2
<1>10. contexts' \in Seq(ContextRecord') /\ PendingInv'
  BY <1>1, <1>5, ContextsStay
<1> QED
  BY <1>1, <1>5, <1>8, <1>9, <1>10, CompileTypes DEF IInv

LEMMA OtherIdentifierStep ==
  ASSUME IInv, NEW n \in Names, OtherIdentifier(n)
  PROVE  IInv'
<1> DEFINE c == Context.chunk
<1>1. /\ TypeOK /\ IndexesInv /\ PendingInv /\ CodeInv /\ Compiling
      /\ Write(c, <<n>>, << >>)
      /\ indexes' = indexes
      /\ UNCHANGED contexts /\ Rest
  BY DEF IInv, OtherIdentifier, Rest
<1>2. /\ c \in DOMAIN chunks /\ ChunksType
  BY <1>1, ContextFacts
<1>3. << >> \in Seq(InstructionRecord) /\ <<n>> \in Seq(Names)
  BY ShortSequences
<1>4. /\ ChunksType' /\ DOMAIN chunks' = DOMAIN chunks /\ ChunksGrow
      /\ CodeGrows(c, << >>)
  BY <1>1, <1>2, <1>3, WriteProperties
<1>5. CodeInv'
  <2>1. \A j \in DOMAIN << >> : RightNext(c, << >>[j])
    OBVIOUS
  <2> QED
    BY <1>1, <1>2, <1>4, <2>1, CodeStays
<1>6. IndexesInv'
  BY <1>1, <1>4, IndexesStay
<1>7. contexts' \in Seq(ContextRecord') /\ PendingInv'
  BY <1>1, <1>4, ContextsStay
<1>8. /\ DOMAIN indexes' \subseteq Names
      /\ indexes' \in [DOMAIN indexes' -> [index : Nat, chunk : DOMAIN chunks']]
  BY <1>1, <1>4, ScopesGrow DEF TypeOK
<1> QED
  BY <1>1, <1>4, <1>5, <1>6, <1>7, <1>8, CompileTypes DEF IInv

LEMMA DeclareClassStep ==
  ASSUME IInv, NEW n \in Names, NEW mutable \in BOOLEAN,
         DeclareClass(n, mutable)
  PROVE  IInv'
<1> DEFINE c == Context.chunk
           code == <<Instruction("define", NextIndex + 1, n, mutable),
                     Instruction("get", NextIndex + 1, n, FALSE)>>
<1>1. /\ TypeOK /\ IndexesInv /\ PendingInv /\ CodeInv /\ Compiling
      /\ Write(c, <<n, n>>, code)
      /\ indexes' = Extend(indexes, n, IndexHere(NextIndex + 1))
      /\ UNCHANGED contexts /\ Rest
  BY DEF IInv, DeclareClass, Rest
<1>2. /\ c \in DOMAIN chunks /\ NextIndex + 1 \in Nat /\ ChunksType
  BY <1>1, ContextFacts
<1>3. code \in Seq(InstructionRecord) /\ <<n, n>> \in Seq(Names)
  BY <1>2, InstructionType, ShortSequences DEF GlobalOps
<1>4. /\ ChunksType' /\ DOMAIN chunks' = DOMAIN chunks /\ ChunksGrow
      /\ IdentifiersAdded(c, <<n, n>>) /\ CodeGrows(c, code)
  <2> HIDE DEF code
  <2> QED
    BY <1>1, <1>2, <1>3, WriteProperties
<1>5. IndexNext(c, NextIndex + 1, n)
  BY <1>1, <1>4, AddedTwo
<1>6. CodeInv'
  <2>1. \A j \in DOMAIN code : RightNext(c, code[j])
    BY <1>5, RightInstruction, AllRight DEF GlobalOps
  <2> HIDE DEF code
  <2> QED
    BY <1>1, <1>2, <1>4, <2>1, CodeStays
<1>7. IndexesInv'
  BY <1>1, <1>4, <1>5, IndexesExtend DEF IndexHere, c
<1>8. contexts' \in Seq(ContextRecord') /\ PendingInv'
  BY <1>1, <1>4, ContextsStay
<1>9. /\ DOMAIN indexes' \subseteq Names
      /\ indexes' \in [DOMAIN indexes' -> [index : Nat, chunk : DOMAIN chunks']]
  BY <1>1, <1>2, <1>4, ExtendType DEF IndexHere, c
<1> QED
  BY <1>1, <1>4, <1>6, <1>7, <1>8, <1>9, CompileTypes DEF IInv

(* A function begins: its context is the innermost one.                    *)
LEMMA ContextsAppend ==
  ASSUME TypeOK, Compiling, ChunksGrow, DOMAIN chunks \subseteq DOMAIN chunks',
         PendingInv, NEW f, f \in ContextRecord',
         f.kind = "global" =>
           f.name \in Names /\ IndexNext(Context.chunk, f.index, f.name),
         contexts' = Append(contexts, f)
  PROVE  contexts' \in Seq(ContextRecord') /\ PendingInv'
<1>1. contexts \in Seq(ContextRecord') /\ contexts # << >>
  BY ScopesGrow DEF Compiling
<1>2. contexts' \in Seq(ContextRecord')
  <2> HIDE DEF ContextRecord
  <2> QED
    BY <1>1
<1>3. /\ DOMAIN contexts = 1 .. Len(contexts) /\ Len(contexts) \in Nat
      /\ Len(contexts) > 0
      /\ DOMAIN contexts' = 1 .. Len(contexts) + 1
      /\ contexts'[Len(contexts) + 1] = f
      /\ \A k \in 1 .. Len(contexts) : contexts'[k] = contexts[k]
  <2> HIDE DEF ContextRecord
  <2> QED
    BY <1>1
<1>4. ASSUME NEW k \in DOMAIN contexts', contexts'[k].kind = "global"
      PROVE  /\ k > 1 /\ contexts'[k].name \in Names
             /\ IndexNext(contexts'[k - 1].chunk, contexts'[k].index, contexts'[k].name)
  <2>1. CASE k \in DOMAIN contexts
    <3>1. contexts'[k] = contexts[k] /\ contexts[k].kind = "global"
      BY <2>1, <1>3, <1>4
    <3>2. k > 1 /\ contexts[k].name \in Names
      BY <2>1, <3>1 DEF PendingInv
    <3>3. IndexNext(contexts[k - 1].chunk, contexts[k].index, contexts[k].name)
      BY <2>1, <3>1, PendingStays
    <3>4. contexts'[k - 1] = contexts[k - 1]
      BY <2>1, <3>2, <1>3
    <3> QED
      BY <3>1, <3>2, <3>3, <3>4
  <2>2. CASE k \notin DOMAIN contexts
    <3>1. k = Len(contexts) + 1
      BY <2>2, <1>3
    <3>2. contexts'[k] = f /\ k > 1
      BY <3>1, <1>3
    <3>3. contexts'[k - 1] = Context
      <4>1. k - 1 = Len(contexts) /\ k - 1 \in 1 .. Len(contexts)
        BY <3>1, <1>3
      <4> QED
        BY <4>1, <1>3 DEF Context
    <3> QED
      BY <3>2, <3>3, <1>4
  <2> QED
    BY <2>1, <2>2
<1>5. PendingInv'
  BY <1>4 DEF PendingInv, IndexNext, IsIndexOf
<1> QED
  BY <1>2, <1>5

LEMMA BeginFunctionStep ==
  ASSUME IInv, NEW ids \in Seq(Names), NEW kind \in {"local", "global", "method"},
         NEW n \in Names \cup {""}, NEW mutable \in BOOLEAN,
         kind = "global" => n \in Names /\ ids = <<n>>,
         BeginFunction(ids, kind, n, mutable)
  PROVE  /\ Rest /\ ChunksType' /\ DOMAIN chunks \subseteq DOMAIN chunks'
         /\ ChunksGrow /\ IdentifiersAdded(Context.chunk, ids)
         /\ CodeInv' /\ contexts' \in Seq(ContextRecord') /\ PendingInv'
<1> DEFINE c == Context.chunk
           f == FunctionContext(Len(chunks) + 1, kind, NextIndex, n, mutable)
<1>1. /\ TypeOK /\ IndexesInv /\ PendingInv /\ CodeInv /\ Compiling
      /\ WriteAndAdd(c, ids)
      /\ contexts' = Append(contexts, f)
      /\ Rest
  BY DEF IInv, BeginFunction, Rest
<1>2. /\ c \in DOMAIN chunks /\ NextIndex \in Nat /\ ChunksType
  BY <1>1, ContextFacts
<1>3. /\ ChunksType' /\ DOMAIN chunks \subseteq DOMAIN chunks'
      /\ Len(chunks) + 1 \in DOMAIN chunks' /\ ChunksGrow
      /\ IdentifiersAdded(c, ids) /\ CodeStaysTheSame
  BY <1>1, <1>2, AddProperties
<1>4. CodeInv'
  <2>1. CodeGrows(c, << >>)
    BY <1>3 DEF CodeGrows, CodeStaysTheSame
  <2>2. \A j \in DOMAIN << >> : RightNext(c, << >>[j])
    BY NothingRight
  <2> QED
    BY <1>1, <1>2, <1>3, <2>1, <2>2, CodeStays
<1>5. f \in ContextRecord'
  BY <1>2, <1>3 DEF FunctionContext, ContextRecord
<1>6. f.kind = "global" => f.name \in Names /\ IndexNext(Context.chunk, f.index, f.name)
  <2>1. f.kind = kind /\ f.name = n /\ f.index = NextIndex
    BY DEF FunctionContext
  <2>2. CASE kind = "global"
    <3>1. IndexNext(c, NextIndex, n)
      BY <2>2, <1>1, <1>3, AddedOne
    <3> QED
      BY <2>1, <2>2, <3>1
  <2> QED
    BY <2>1, <2>2
<1> HIDE DEF f
<1>7. contexts' \in Seq(ContextRecord') /\ PendingInv'
  BY <1>1, <1>3, <1>5, <1>6, ContextsAppend
<1> QED
  BY <1>1, <1>3, <1>4, <1>7

LEMMA BeginLocalFunctionStep ==
  ASSUME IInv, BeginLocalFunction
  PROVE  IInv'
<1>1. TypeOK /\ IndexesInv /\ indexes' = indexes
  BY DEF IInv, BeginLocalFunction
<1>2. BeginFunction(<< >>, "local", "", FALSE)
  BY DEF BeginLocalFunction
<1>3. << >> \in Seq(Names)
  OBVIOUS
<1>4. /\ Rest /\ ChunksType' /\ DOMAIN chunks \subseteq DOMAIN chunks'
      /\ ChunksGrow /\ CodeInv' /\ contexts' \in Seq(ContextRecord') /\ PendingInv'
  BY <1>2, <1>3, BeginFunctionStep
<1>5. IndexesInv'
  BY <1>1, <1>4, IndexesStay
<1>6. /\ DOMAIN indexes' \subseteq Names
      /\ indexes' \in [DOMAIN indexes' -> [index : Nat, chunk : DOMAIN chunks']]
  BY <1>1, <1>4, ScopesGrow DEF TypeOK
<1> QED
  BY <1>1, <1>4, <1>5, <1>6, CompileTypes DEF IInv

LEMMA BeginMethodStep ==
  ASSUME IInv, NEW n \in Names, BeginMethod(n)
  PROVE  IInv'
<1>1. TypeOK /\ IndexesInv /\ indexes' = indexes
  BY DEF IInv, BeginMethod
<1>2. BeginFunction(<<n>>, "method", "", FALSE) /\ <<n>> \in Seq(Names)
  BY ShortSequences DEF BeginMethod
<1>3. /\ Rest /\ ChunksType' /\ DOMAIN chunks \subseteq DOMAIN chunks'
      /\ ChunksGrow /\ CodeInv' /\ contexts' \in Seq(ContextRecord') /\ PendingInv'
  BY <1>2, BeginFunctionStep
<1>4. IndexesInv'
  BY <1>1, <1>3, IndexesStay
<1>5. /\ DOMAIN indexes' \subseteq Names
      /\ indexes' \in [DOMAIN indexes' -> [index : Nat, chunk : DOMAIN chunks']]
  BY <1>1, <1>3, ScopesGrow DEF TypeOK
<1> QED
  BY <1>1, <1>3, <1>4, <1>5, CompileTypes DEF IInv

LEMMA BeginGlobalFunctionStep ==
  ASSUME IInv, NEW n \in Names, NEW mutable \in BOOLEAN,
         BeginGlobalFunction(n, mutable)
  PROVE  IInv'
<1>1. /\ TypeOK /\ IndexesInv /\ Compiling
      /\ indexes' = Extend(indexes, n, [index |-> NextIndex, chunk |-> Context.chunk])
  BY DEF IInv, BeginGlobalFunction, BeginFunction, IndexHere
<1>2. BeginFunction(<<n>>, "global", n, mutable) /\ <<n>> \in Seq(Names)
  BY ShortSequences DEF BeginGlobalFunction
<1>3. /\ Rest /\ ChunksType' /\ DOMAIN chunks \subseteq DOMAIN chunks'
      /\ ChunksGrow /\ IdentifiersAdded(Context.chunk, <<n>>)
      /\ CodeInv' /\ contexts' \in Seq(ContextRecord') /\ PendingInv'
  BY <1>2, BeginFunctionStep
<1>4. IndexesInv'
  <2>1. IndexNext(Context.chunk, NextIndex, n)
    BY <1>1, <1>3, AddedOne
  <2> QED
    BY <1>1, <1>3, <2>1, IndexesExtend
<1>5. /\ DOMAIN indexes' \subseteq Names
      /\ indexes' \in [DOMAIN indexes' -> [index : Nat, chunk : DOMAIN chunks']]
  <2>1. NextIndex \in Nat /\ Context.chunk \in DOMAIN chunks
    BY <1>1, ContextFacts
  <2> QED
    BY <1>1, <1>3, <2>1, ExtendType
<1> QED
  BY <1>1, <1>3, <1>4, <1>5, CompileTypes DEF IInv
(* A function ends: the contexts around it stay.                           *)
LEMMA ContextsRemove ==
  ASSUME TypeOK, ChunksGrow, DOMAIN chunks \subseteq DOMAIN chunks', PendingInv,
         Len(contexts) > 1, contexts' = SubSeq(contexts, 1, Len(contexts) - 1)
  PROVE  contexts' \in Seq(ContextRecord') /\ PendingInv'
<1>1. contexts \in Seq(ContextRecord') /\ Len(contexts) \in Nat
  BY ScopesGrow
<1>2. /\ contexts' \in Seq(ContextRecord')
      /\ DOMAIN contexts = 1 .. Len(contexts)
      /\ DOMAIN contexts' = 1 .. Len(contexts) - 1
      /\ \A k \in DOMAIN contexts' : contexts'[k] = contexts[k]
  <2> HIDE DEF ContextRecord
  <2> QED
    BY <1>1
<1>3. ASSUME NEW k \in DOMAIN contexts', contexts'[k].kind = "global"
      PROVE  /\ k > 1 /\ contexts'[k].name \in Names
             /\ IndexNext(contexts'[k - 1].chunk, contexts'[k].index, contexts'[k].name)
  <2>1. /\ k \in DOMAIN contexts /\ contexts'[k] = contexts[k]
        /\ contexts[k].kind = "global"
    BY <1>2, <1>3, <1>1
  <2>2. k > 1 /\ contexts[k].name \in Names
    BY <2>1 DEF PendingInv
  <2>3. IndexNext(contexts[k - 1].chunk, contexts[k].index, contexts[k].name)
    BY <2>1, PendingStays
  <2>4. contexts'[k - 1] = contexts[k - 1]
    <3>1. k - 1 \in DOMAIN contexts'
      BY <1>1, <1>2, <2>2
    <3> QED
      BY <3>1, <1>2
  <2> QED
    BY <2>1, <2>2, <2>3, <2>4
<1>4. PendingInv'
  BY <1>3 DEF PendingInv, IndexNext, IsIndexOf
<1> QED
  BY <1>2, <1>4

(* A function ends: the index that waited for it is used.                  *)
LEMMA EndFunctionStep ==
  ASSUME IInv, EndFunction
  PROVE  IInv'
<1> DEFINE k == Len(contexts)
           outer == contexts[k - 1].chunk
           definition == Instruction("define", Context.index, Context.name, Context.mutable)
           closure == Closure(Context.chunk)
           more == IF Context.kind = "global" THEN <<definition>> ELSE << >>
           code == <<closure>> \o more
<1>1. /\ TypeOK /\ IndexesInv /\ PendingInv /\ CodeInv
      /\ k > 1
      /\ Write(outer, << >>, code)
      /\ contexts' = SubSeq(contexts, 1, k - 1)
      /\ UNCHANGED indexes /\ Rest
  BY DEF IInv, EndFunction, Rest
<1>2. /\ contexts \in Seq(ContextRecord) /\ k \in Nat
      /\ DOMAIN contexts = 1 .. k
      /\ k \in DOMAIN contexts /\ k - 1 \in DOMAIN contexts
  <2>1. contexts \in Seq(ContextRecord)
    BY <1>1 DEF TypeOK
  <2> QED
    BY <1>1, <2>1
<1>3. /\ contexts[k] = Context /\ Context \in ContextRecord
      /\ contexts[k - 1] \in ContextRecord /\ ChunksType
  BY <1>1, <1>2 DEF Context, TypeOK, ChunksType
<1>4. /\ outer \in DOMAIN chunks /\ Context.chunk \in DOMAIN chunks
      /\ Context.index \in Nat /\ Context.name \in Names \cup {""}
      /\ Context.mutable \in BOOLEAN
  BY <1>3 DEF ContextRecord
<1>5. Context.chunk \in Nat
  <2>1. chunks \in Seq(ChunkRecord)
    BY <1>3 DEF ChunksType
  <2> QED
    BY <1>4, <2>1, PositionIsNat
<1>6. closure \in InstructionRecord /\ definition \in InstructionRecord
  BY <1>4, <1>5, InstructionType DEF Closure, GlobalOps
<1>7. <<closure>> \in Seq(InstructionRecord) /\ more \in Seq(InstructionRecord)
  <2> HIDE DEF closure, definition
  <2> QED
    BY <1>6
<1>8. code \in Seq(InstructionRecord) /\ << >> \in Seq(Names)
  <2> HIDE DEF closure, more
  <2> QED
    BY <1>7
<1>9. /\ ChunksType' /\ DOMAIN chunks' = DOMAIN chunks /\ ChunksGrow
      /\ CodeGrows(outer, code)
  <2> HIDE DEF code, outer
  <2> QED
    BY <1>1, <1>3, <1>4, <1>8, WriteProperties
<1>10. Context.kind = "global" => RightNext(outer, definition)
  <2>1. ASSUME Context.kind = "global"
        PROVE  IndexNext(outer, Context.index, Context.name)
    <3>1. contexts[k].kind = "global"
      BY <2>1, <1>3
    <3>2. IndexNext(contexts[k - 1].chunk, contexts[k].index, contexts[k].name)
      BY <3>1, <1>1, <1>2, <1>9, PendingStays
    <3> QED
      BY <3>2, <1>3
  <2> QED
    BY <2>1, RightInstruction DEF GlobalOps
<1>11. CodeInv'
  <2>1. RightNext(outer, closure)
    BY <1>4, <1>9, RightClosure
  <2>2. \A j \in DOMAIN code : RightNext(outer, code[j])
    <3>1. ASSUME NEW j \in DOMAIN more
          PROVE  RightNext(outer, more[j])
      <4> HIDE DEF definition, outer
      <4>1. Context.kind = "global" /\ more[j] = definition
        BY <3>1
      <4> QED
        BY <4>1, <1>10
    <3> HIDE DEF closure, more, outer
    <3>2. \A j \in DOMAIN code :
            \/ j \in DOMAIN <<closure>> /\ code[j] = <<closure>>[j]
            \/ \E i \in DOMAIN more : code[j] = more[i]
      BY <1>7, ConcatProperties
    <3>3. \A j \in DOMAIN <<closure>> : <<closure>>[j] = closure
      OBVIOUS
    <3> QED
      BY <2>1, <3>1, <3>2, <3>3
  <2> HIDE DEF code, outer
  <2> QED
    BY <1>1, <1>3, <1>9, <2>2, CodeStays
<1>12. IndexesInv'
  BY <1>1, <1>9, IndexesStay
<1>13. contexts' \in Seq(ContextRecord') /\ PendingInv'
  BY <1>1, <1>9, ContextsRemove
<1>14. /\ DOMAIN indexes' \subseteq Names
       /\ indexes' \in [DOMAIN indexes' -> [index : Nat, chunk : DOMAIN chunks']]
  BY <1>1, <1>9, ScopesGrow DEF TypeOK
<1> QED
  BY <1>1, <1>9, <1>11, <1>12, <1>13, <1>14, CompileTypes DEF IInv

LEMMA StartLineStep ==
  ASSUME IInv, StartLine
  PROVE  IInv'
<1>1. /\ TypeOK /\ IndexesInv /\ PendingInv /\ CodeInv /\ ChunksType
      /\ chunks \in Seq(ChunkRecord)
      /\ chunks' = Append(chunks, EmptyChunk)
      /\ contexts' = <<Script(Len(chunks) + 1)>>
      /\ indexes' = [n \in {} |-> 0]
      /\ line' = "ok"
      /\ UNCHANGED <<table, calls, made>>
  BY DEF IInv, TypeOK, ChunksType, StartLine
<1>2. EmptyChunk \in ChunkRecord
  BY DEF EmptyChunk, ChunkRecord
<1>3. /\ chunks' \in Seq(ChunkRecord)
      /\ DOMAIN chunks' = 1 .. Len(chunks) + 1
      /\ DOMAIN chunks = 1 .. Len(chunks)
      /\ Len(chunks) \in Nat
      /\ chunks'[Len(chunks) + 1] = EmptyChunk
      /\ \A d \in DOMAIN chunks : chunks'[d] = chunks[d]
  BY <1>1, <1>2
<1>4. DOMAIN chunks \subseteq DOMAIN chunks' /\ Len(chunks) + 1 \in DOMAIN chunks'
  BY <1>3
<1>5. ChunksType'
  BY <1>3 DEF ChunksType
<1>6. ChunksGrow
  <2> SUFFICES ASSUME NEW d \in DOMAIN chunks
               PROVE  /\ Len(chunks[d].identifiers) <= Len(chunks'[d].identifiers)
                      /\ \A j \in 1 .. Len(chunks[d].identifiers) :
                           chunks'[d].identifiers[j] = chunks[d].identifiers[j]
    BY <1>4 DEF ChunksGrow
  <2>1. chunks[d] \in ChunkRecord
    BY <1>1
  <2>2. Len(chunks[d].identifiers) \in Nat
    BY <2>1 DEF ChunkRecord
  <2> QED
    BY <1>3, <2>2
<1>7. CodeGrows(Len(chunks), << >>)
  <2> SUFFICES ASSUME NEW d \in DOMAIN chunks', NEW k \in DOMAIN chunks'[d].code
               PROVE  d \in DOMAIN chunks /\ k \in DOMAIN chunks[d].code
                        /\ chunks'[d].code[k] = chunks[d].code[k]
    BY DEF CodeGrows
  <2>1. CASE d \in DOMAIN chunks
    BY <2>1, <1>3
  <2>2. CASE d = Len(chunks) + 1
    BY <2>2, <1>3 DEF EmptyChunk
  <2> QED
    BY <2>1, <2>2, <1>3
<1>8. CodeInv'
  BY <1>1, <1>5, <1>6, <1>7, NothingRight, CodeStays
<1>9. Script(Len(chunks) + 1) \in ContextRecord'
  BY <1>3, <1>4 DEF Script, FunctionContext, ContextRecord
<1>10. /\ contexts' \in Seq(ContextRecord')
       /\ DOMAIN contexts' = {1} /\ contexts'[1].kind = "script"
  <2>1. Script(Len(chunks) + 1).kind = "script"
    BY DEF Script, FunctionContext
  <2> HIDE DEF Script, ContextRecord
  <2> QED
    BY <1>1, <1>9, <2>1, ShortSequences
<1>11. PendingInv' /\ IndexesInv'
  BY <1>1, <1>10 DEF PendingInv, IndexesInv
<1>12. /\ DOMAIN indexes' \subseteq Names
       /\ indexes' \in [DOMAIN indexes' -> [index : Nat, chunk : DOMAIN chunks']]
  BY <1>1
<1>13. calls' \in Seq(CallRecord') /\ made' \subseteq DOMAIN chunks'
  BY <1>1, <1>4, ScopesGrow
<1>14. /\ DOMAIN table' \subseteq Names
       /\ table' \in [DOMAIN table' -> [value : Values, mutable : BOOLEAN]]
       /\ line' \in {"ok", "error", "assert"}
  BY <1>1 DEF TypeOK
<1>15. TypeOK'
  BY <1>3, <1>10, <1>12, <1>13, <1>14 DEF TypeOK
<1> QED
  BY <1>8, <1>11, <1>15 DEF IInv

(* Once a line is compiled, only what the vm holds changes.                *)
LEMMA RunTypes ==
  ASSUME IInv, Compiled, calls' \in Seq(CallRecord), made' \subseteq DOMAIN chunks,
         DOMAIN table' \subseteq Names,
         table' \in [DOMAIN table' -> [value : Values, mutable : BOOLEAN]],
         line' \in {"ok", "error", "assert"}
  PROVE  IInv'
<1>1. chunks' = chunks /\ contexts' = contexts /\ indexes' = indexes
  BY DEF Compiled
<1>2. CallRecord' = CallRecord /\ ContextRecord' = ContextRecord
  BY <1>1 DEF CallRecord, ContextRecord
<1>3. TypeOK'
  BY <1>1, <1>2 DEF TypeOK, IInv
<1>4. IndexesInv'
  BY <1>1 DEF IInv, IndexesInv, IsIndexOf
<1>5. PendingInv'
  BY <1>1 DEF IInv, PendingInv, IsIndexOf
<1>6. CodeInv'
  BY <1>1 DEF IInv, CodeInv, RightIn, IsIndexOf
<1> QED
  BY <1>3, <1>4, <1>5, <1>6 DEF IInv

LEMMA EndLineStep ==
  ASSUME IInv, EndLine
  PROVE  IInv'
<1>1. /\ TypeOK /\ IndexesInv /\ CodeInv /\ Compiling
      /\ contexts' = << >>
      /\ calls' = <<[chunk |-> Context.chunk, ip |-> 1]>> \/ calls' = calls
      /\ UNCHANGED <<chunks, indexes, table, made, line>>
  BY DEF IInv, EndLine, Compiling
<1>2. CallRecord' = CallRecord
  BY <1>1 DEF CallRecord
<1>3. calls' \in Seq(CallRecord)
  <2>1. [chunk |-> Context.chunk, ip |-> 1] \in CallRecord
    BY <1>1, ContextFacts DEF CallRecord
  <2>2. calls \in Seq(CallRecord)
    BY <1>1 DEF TypeOK
  <2>3. <<[chunk |-> Context.chunk, ip |-> 1]>> \in Seq(CallRecord)
    <3> HIDE DEF CallRecord
    <3> QED
      BY <2>1, ShortSequences
  <2> QED
    BY <1>1, <2>2, <2>3
<1>4. TypeOK'
  <2>1. contexts' \in Seq(ContextRecord')
    BY <1>1
  <2> QED
    BY <1>1, <1>2, <1>3, <2>1 DEF TypeOK
<1>5. IndexesInv'
  BY <1>1 DEF IndexesInv, IsIndexOf
<1>6. PendingInv'
  BY <1>1 DEF PendingInv
<1>7. CodeInv'
  BY <1>1 DEF CodeInv, RightIn, IsIndexOf
<1> QED
  BY <1>4, <1>5, <1>6, <1>7 DEF IInv

-----------------------------------------------------------------------------
(* What the virtual machine's steps change.                                *)
LEMMA FrameFacts ==
  ASSUME IInv, AtInstruction
  PROVE  /\ calls \in Seq(CallRecord)
         /\ Frame \in CallRecord
         /\ Frame.chunk \in DOMAIN chunks
         /\ Frame.ip \in DOMAIN Code
         /\ Current \in InstructionRecord
         /\ chunks[Frame.chunk] \in ChunkRecord
<1>1. /\ calls \in Seq(CallRecord) /\ calls # << >>
      /\ chunks \in Seq(ChunkRecord)
      /\ Frame.ip <= Len(Code)
  BY DEF IInv, TypeOK, AtInstruction, Running
<1>2. Frame \in CallRecord
  BY <1>1 DEF Frame
<1>3. Frame.chunk \in DOMAIN chunks /\ Frame.ip \in Nat \ {0}
  BY <1>2 DEF CallRecord
<1>4. chunks[Frame.chunk] \in ChunkRecord
  BY <1>1, <1>3
<1>5. Code \in Seq(InstructionRecord)
  BY <1>4 DEF Code, ChunkRecord
<1>6. Frame.ip \in DOMAIN Code
  BY <1>1, <1>3, <1>5
<1>7. Current \in InstructionRecord
  <2> HIDE DEF InstructionRecord
  <2> QED
    BY <1>5, <1>6 DEF Current
<1> QED
  BY <1>1, <1>2, <1>3, <1>4, <1>6, <1>7

LEMMA ReplaceOne ==
  ASSUME NEW S, NEW s \in Seq(S), NEW i \in DOMAIN s, NEW x \in S
  PROVE  [s EXCEPT ![i] = x] \in Seq(S)
OBVIOUS

LEMMA AdvanceType ==
  ASSUME IInv, AtInstruction, Advance
  PROVE  calls' \in Seq(CallRecord)
<1>1. /\ calls \in Seq(CallRecord) /\ Frame \in CallRecord
      /\ calls # << >>
      /\ calls' = [calls EXCEPT ![Len(calls)].ip = @ + 1]
  BY FrameFacts DEF AtInstruction, Running, Advance
<1>2. Len(calls) \in DOMAIN calls
  BY <1>1
<1>3. [Frame EXCEPT !.ip = @ + 1] \in CallRecord
  BY <1>1 DEF CallRecord
<1>4. calls' = [calls EXCEPT ![Len(calls)] = [Frame EXCEPT !.ip = @ + 1]]
  BY <1>1 DEF Frame
<1>5. [calls EXCEPT ![Len(calls)] = [Frame EXCEPT !.ip = @ + 1]] \in Seq(CallRecord)
  BY <1>1, <1>2, <1>3, ReplaceOne
<1> QED
  BY <1>4, <1>5

(* The name that is looked up in the table is a name.                      *)
LEMMA NameType ==
  ASSUME IInv, AtInstruction, InRange
  PROVE  Name \in Names
<1>1. /\ chunks[Frame.chunk].identifiers \in Seq(Names)
      /\ Current.index \in Nat
  BY FrameFacts DEF ChunkRecord, InstructionRecord
<1>2. Current.index < Len(chunks[Frame.chunk].identifiers)
  BY DEF InRange
<1>3. Current.index + 1 \in DOMAIN chunks[Frame.chunk].identifiers
  BY <1>1, <1>2
<1> QED
  BY <1>1, <1>3 DEF Name

LEMMA RuntimeErrorStep ==
  ASSUME IInv, RuntimeError, made' \subseteq DOMAIN chunks, Compiled
  PROVE  IInv'
<1>1. /\ calls' = << >> /\ line' = "error" /\ table' = table
      /\ DOMAIN table \subseteq Names
      /\ table \in [DOMAIN table -> [value : Values, mutable : BOOLEAN]]
  BY DEF RuntimeError, IInv, TypeOK
<1>2. calls' \in Seq(CallRecord)
  BY <1>1
<1> QED
  BY <1>1, <1>2, RunTypes

LEMMA QuietStep ==
  ASSUME IInv, calls' \in Seq(CallRecord), made' \subseteq DOMAIN chunks,
         table' = table, line' \in {"ok", "error", "assert"}, Compiled
  PROVE  IInv'
<1>1. /\ DOMAIN table \subseteq Names
      /\ table \in [DOMAIN table -> [value : Values, mutable : BOOLEAN]]
  BY DEF IInv, TypeOK
<1> QED
  BY <1>1, RunTypes

LEMMA OpClosureStep ==
  ASSUME IInv, OpClosure
  PROVE  IInv'
<1>1. /\ AtInstruction /\ Current.op = "closure" /\ Advance /\ Compiled
      /\ made' = made \cup {Current.index}
      /\ table' = table /\ line' = line
      /\ made \subseteq DOMAIN chunks /\ line \in {"ok", "error", "assert"}
  BY DEF OpClosure, IInv, TypeOK
<1>2. Current.index \in DOMAIN chunks
  <2>1. /\ Frame.chunk \in DOMAIN chunks
        /\ Frame.ip \in DOMAIN chunks[Frame.chunk].code
    BY <1>1, FrameFacts DEF Code
  <2>2. RightIn(Frame.chunk, Current)
    BY <2>1 DEF IInv, CodeInv, Current, Code
  <2> QED
    BY <1>1, <2>2 DEF RightIn
<1> QED
  BY <1>1, <1>2, AdvanceType, QuietStep

LEMMA OpDefineGlobalStep ==
  ASSUME IInv, NEW x \in Values, OpDefineGlobal(x)
  PROVE  IInv'
<1>1. /\ AtInstruction /\ InRange /\ Compiled /\ made' = made
      /\ made \subseteq DOMAIN chunks /\ line \in {"ok", "error", "assert"}
  BY DEF OpDefineGlobal, Reads, IInv, TypeOK
<1>2. CASE RuntimeError
  BY <1>1, <1>2, RuntimeErrorStep
<1>3. CASE ~RuntimeError
  <2>1. /\ table' = Extend(table, Name, [value |-> x, mutable |-> Current.mutable])
        /\ Advance /\ line' = line
    BY <1>3 DEF OpDefineGlobal
  <2>2. Name \in Names /\ Current.mutable \in BOOLEAN
    BY <1>1, FrameFacts, NameType DEF InstructionRecord
  <2>3. /\ DOMAIN table \subseteq Names
        /\ table \in [DOMAIN table -> [value : Values, mutable : BOOLEAN]]
    BY DEF IInv, TypeOK
  <2>4. /\ DOMAIN table' \subseteq Names
        /\ table' \in [DOMAIN table' -> [value : Values, mutable : BOOLEAN]]
    BY <2>1, <2>2, <2>3 DEF Extend
  <2> QED
    BY <1>1, <2>1, <2>4, AdvanceType, RunTypes
<1> QED
  BY <1>2, <1>3

LEMMA OpGetGlobalStep ==
  ASSUME IInv, OpGetGlobal
  PROVE  IInv'
<1>1. /\ AtInstruction /\ Compiled /\ made' = made
      /\ made \subseteq DOMAIN chunks /\ line \in {"ok", "error", "assert"}
  BY DEF OpGetGlobal, Reads, IInv, TypeOK
<1>2. CASE RuntimeError
  BY <1>1, <1>2, RuntimeErrorStep
<1>3. CASE ~RuntimeError
  <2>1. table' = table /\ Advance /\ line' = line
    BY <1>3 DEF OpGetGlobal
  <2> QED
    BY <1>1, <2>1, AdvanceType, QuietStep
<1> QED
  BY <1>2, <1>3

LEMMA AssignGlobalStep ==
  ASSUME IInv, AtInstruction, Compiled, made' = made, NEW x \in Values,
         AssignGlobal(x)
  PROVE  IInv'
<1>1. made \subseteq DOMAIN chunks /\ line \in {"ok", "error", "assert"}
  BY DEF IInv, TypeOK
<1>2. CASE RuntimeError
  BY <1>1, <1>2, RuntimeErrorStep
<1>3. CASE ~RuntimeError
  <2>1. /\ MayAssign(Name)
        /\ table' = [table EXCEPT ![Name].value = x]
        /\ Advance /\ line' = line
    BY <1>3 DEF AssignGlobal
  <2>2. /\ DOMAIN table \subseteq Names
        /\ table \in [DOMAIN table -> [value : Values, mutable : BOOLEAN]]
        /\ Name \in DOMAIN table
    BY <2>1 DEF IInv, TypeOK, MayAssign
  <2>3. /\ DOMAIN table' \subseteq Names
        /\ table' \in [DOMAIN table' -> [value : Values, mutable : BOOLEAN]]
    BY <2>1, <2>2
  <2> QED
    BY <1>1, <2>1, <2>3, AdvanceType, RunTypes
<1> QED
  BY <1>2, <1>3

LEMMA OpSetGlobalStep ==
  ASSUME IInv, NEW x \in Values, OpSetGlobal(x)
  PROVE  IInv'
BY AssignGlobalStep DEF OpSetGlobal, Reads

LEMMA OpSetIfGlobalStep ==
  ASSUME IInv, NEW x \in Values, OpSetIfGlobal(x)
  PROVE  IInv'
<1>1. /\ AtInstruction /\ Compiled /\ made' = made
      /\ made \subseteq DOMAIN chunks /\ line \in {"ok", "error", "assert"}
  BY DEF OpSetIfGlobal, Reads, IInv, TypeOK
<1>2. CASE AssignGlobal(x)
  BY <1>1, <1>2, AssignGlobalStep
<1>3. CASE Advance /\ table' = table /\ line' = line
  BY <1>1, <1>3, AdvanceType, QuietStep
<1> QED
  BY <1>2, <1>3 DEF OpSetIfGlobal

LEMMA AssertFailsStep ==
  ASSUME IInv, AssertFails
  PROVE  IInv'
<1>1. /\ calls' = << >> /\ line' = "assert" /\ table' = table /\ made' = made
      /\ Compiled /\ made \subseteq DOMAIN chunks
  BY DEF AssertFails, IInv, TypeOK
<1>2. calls' \in Seq(CallRecord)
  BY <1>1
<1> QED
  BY <1>1, <1>2, QuietStep

LEMMA CallStep ==
  ASSUME IInv, NEW c \in made, Call(c)
  PROVE  IInv'
<1>1. /\ calls' = Append(calls, [chunk |-> c, ip |-> 1])
      /\ calls \in Seq(CallRecord)
      /\ table' = table /\ made' = made /\ line' = line /\ Compiled
      /\ made \subseteq DOMAIN chunks /\ line \in {"ok", "error", "assert"}
  BY DEF Call, IInv, TypeOK
<1>2. [chunk |-> c, ip |-> 1] \in CallRecord
  BY <1>1 DEF CallRecord
<1>3. calls' \in Seq(CallRecord)
  <2> HIDE DEF CallRecord
  <2> QED
    BY <1>1, <1>2
<1> QED
  BY <1>1, <1>3, QuietStep

LEMMA ReturnStep ==
  ASSUME IInv, Return
  PROVE  IInv'
<1>1. /\ calls' = SubSeq(calls, 1, Len(calls) - 1)
      /\ calls \in Seq(CallRecord) /\ calls # << >>
      /\ table' = table /\ made' = made /\ line' = line /\ Compiled
      /\ made \subseteq DOMAIN chunks /\ line \in {"ok", "error", "assert"}
  BY DEF Return, Running, IInv, TypeOK
<1>2. calls' \in Seq(CallRecord)
  <2> HIDE DEF CallRecord
  <2> QED
    BY <1>1
<1> QED
  BY <1>1, <1>2, QuietStep

-----------------------------------------------------------------------------
LEMMA InitIInv ==
  ASSUME ConstantsAssumption, Init
  PROVE  IInv
<1>1. TypeOK
  <2>1. /\ chunks \in Seq(ChunkRecord) /\ contexts \in Seq(ContextRecord)
        /\ calls \in Seq(CallRecord)
    BY DEF Init
  <2>2. /\ DOMAIN indexes \subseteq Names
        /\ indexes \in [DOMAIN indexes -> [index : Nat, chunk : DOMAIN chunks]]
    BY DEF Init
  <2>3. /\ DOMAIN table \subseteq Names
        /\ table \in [DOMAIN table -> [value : Values, mutable : BOOLEAN]]
    BY DEF Init, ConstantsAssumption
  <2>4. made \subseteq DOMAIN chunks /\ line \in {"ok", "error", "assert"}
    BY DEF Init
  <2> QED
    BY <2>1, <2>2, <2>3, <2>4 DEF TypeOK
<1>2. IndexesInv
  BY DEF Init, IndexesInv
<1>3. PendingInv
  BY DEF Init, PendingInv
<1>4. CodeInv
  BY DEF Init, CodeInv
<1> QED
  BY <1>1, <1>2, <1>3, <1>4 DEF IInv

LEMMA NextIInv ==
  ASSUME IInv, Next
  PROVE  IInv'
<1>1. CASE CompileStep
  BY <1>1, StartLineStep, DeclareVariableStep, DeclareClassStep,
     BeginGlobalFunctionStep, NamedVariableStep, OtherIdentifierStep,
     BeginMethodStep, BeginLocalFunctionStep, EndFunctionStep, EndLineStep
     DEF CompileStep
<1>2. CASE RunStep
  BY <1>2, OpClosureStep, OpDefineGlobalStep, OpSetGlobalStep,
     OpSetIfGlobalStep, OpGetGlobalStep, AssertFailsStep, CallStep, ReturnStep
     DEF RunStep
<1> QED
  BY <1>1, <1>2 DEF Next

LEMMA StutterIInv ==
  ASSUME IInv, UNCHANGED vars
  PROVE  IInv'
<1>1. /\ Compiled /\ calls' = calls /\ made' = made /\ table' = table /\ line' = line
      /\ calls \in Seq(CallRecord) /\ made \subseteq DOMAIN chunks
      /\ line \in {"ok", "error", "assert"}
  BY DEF vars, Compiled, IInv, TypeOK
<1> QED
  BY <1>1, QuietStep

(* The strengthened invariant holds in every session.                      *)
THEOREM Inductive == Spec => []IInv
<1>1. Init => IInv
  BY InitIInv, ConstantsAssumption
<1>2. IInv /\ [Next]_vars => IInv'
  BY NextIInv, StutterIInv
<1> QED
  BY <1>1, <1>2, PTL DEF Spec

(* Every variable of the compiler and of the virtual machine keeps its     *)
(* type: chunks, contexts and frames only refer to chunks that exist, and  *)
(* closures are made only of functions that were compiled.                 *)
THEOREM TypeCorrect == Spec => []TypeOK
<1>1. IInv => TypeOK
  BY DEF IInv
<1> QED
  BY <1>1, Inductive, PTL

(* Whatever is compiled between the moment a global's index is taken and   *)
(* the moment its op_define_global is written, the index finds its name in *)
(* the chunk of that instruction, for any program and any session.         *)
THEOREM DefinitionsAreRight == Spec => []DefinitionsNameTheirGlobal
<1>1. IInv => DefinitionsNameTheirGlobal
  BY DEF IInv, CodeInv, RightIn, DefinitionsNameTheirGlobal, NamesItsGlobal
<1> QED
  BY <1>1, Inductive, PTL

(* In programs whose nested functions share no globals, every instruction  *)
(* that reads or assigns a global finds its name too.                      *)
THEOREM MentionsAreRight == Spec => []MentionsNameTheirGlobal
<1>1. IInv => MentionsNameTheirGlobal
  BY DEF IInv, CodeInv, RightIn, MentionsNameTheirGlobal, NamesItsGlobal
<1> QED
  BY <1>1, Inductive, PTL
-----------------------------------------------------------------------------
(* The refinement, for the programs whose nested functions share no        *)
(* globals.                                                                *)

(* What is looked up is what the source names.                             *)
LEMMA LooksUpItsName ==
  ASSUME IInv, ~Shared, AtInstruction, Current.op \in GlobalOps
  PROVE  /\ InRange
         /\ Name = Current.name /\ Name \in Names
         /\ Current.mutable \in BOOLEAN
<1>1. /\ Frame.chunk \in DOMAIN chunks
      /\ Frame.ip \in DOMAIN chunks[Frame.chunk].code
      /\ Current \in InstructionRecord
  BY FrameFacts DEF Code
<1>2. RightIn(Frame.chunk, Current)
  BY <1>1 DEF IInv, CodeInv, Current, Code
<1>3. IsIndexOf(Frame.chunk, Current.index, Current.name)
  BY <1>2 DEF RightIn
<1>4. InRange /\ Name = Current.name
  BY <1>3 DEF IsIndexOf, InRange, Name
<1> QED
  BY <1>1, <1>4, NameType DEF InstructionRecord

ValueOf(n) == IF n \in DOMAIN table THEN table[n] ELSE Undefined

View == [n \in Names |-> ValueOf(n)]

LEMMA SameTable ==
  ASSUME table' = table
  PROVE  View' = View
BY DEF View, ValueOf

LEMMA DefineMaps ==
  ASSUME IInv, ~Shared, NEW x \in Values, OpDefineGlobal(x)
  PROVE  Variables!Next \/ UNCHANGED <<View, done>>
<1>1. AtInstruction /\ Current.op = "define"
  BY DEF OpDefineGlobal, Reads
<1>2. PICK n : n = Name
  OBVIOUS
<1>3. PICK m : m = Current.mutable
  OBVIOUS
<1>4. n \in Names /\ n = Current.name /\ m \in BOOLEAN
  BY <1>1, <1>2, <1>3, LooksUpItsName DEF GlobalOps
<1>5. CASE n \in DOMAIN table
  BY <1>2, <1>5, SameTable DEF OpDefineGlobal, RuntimeError
<1>6. CASE n \notin DOMAIN table
  <2>1. /\ table' = Extend(table, n, [value |-> x, mutable |-> m])
        /\ done' = <<"define", n, x>>
    BY <1>2, <1>3, <1>4, <1>6 DEF OpDefineGlobal
  <2>2. View[n] = Undefined
    BY <1>4, <1>6 DEF View, ValueOf
  <2>3. View' = [View EXCEPT ![n] = [value |-> x, mutable |-> m]]
    <3> DEFINE r == [value |-> x, mutable |-> m]
    <3>1. table' = Extend(table, n, r)
      BY <2>1
    <3> HIDE DEF r
    <3>2. \A k \in Names : ValueOf(k)' = IF k = n THEN r ELSE ValueOf(k)
      BY <3>1 DEF Extend, ValueOf
    <3>3. View' = [View EXCEPT ![n] = r]
      BY <3>2 DEF View
    <3> QED
      BY <3>3 DEF r
  <2>4. Variables!Define(n, x, m)
    BY <2>1, <2>2, <2>3 DEF Variables!Define, Variables!Global, View, ValueOf
  <2> QED
    BY <1>4, <2>4 DEF Variables!Next
<1> QED
  BY <1>5, <1>6

LEMMA GetMaps ==
  ASSUME IInv, ~Shared, OpGetGlobal
  PROVE  Variables!Next \/ UNCHANGED <<View, done>>
<1>1. AtInstruction /\ Current.op = "get"
  BY DEF OpGetGlobal, Reads
<1>2. PICK n : n = Name
  OBVIOUS
<1>3. n \in Names /\ n = Current.name
  BY <1>1, <1>2, LooksUpItsName DEF GlobalOps
<1>4. CASE n \notin DOMAIN table
  BY <1>2, <1>4, SameTable DEF OpGetGlobal, RuntimeError
<1>5. CASE n \in DOMAIN table
  <2>1. table' = table /\ done' = <<"get", n, table[n].value>>
    BY <1>2, <1>3, <1>5 DEF OpGetGlobal
  <2>2. View[n] = table[n] /\ View[n] # Undefined
    BY <1>3, <1>5, UndefinedAssumption DEF View, ValueOf, IInv, TypeOK
  <2>3. Variables!Get(n)
    BY <2>1, <2>2, SameTable DEF Variables!Get, View, ValueOf
  <2> QED
    BY <1>3, <2>3 DEF Variables!Next
<1> QED
  BY <1>4, <1>5

LEMMA AssignMaps ==
  ASSUME IInv, ~Shared, AtInstruction, Current.op \in {"set", "set_if"},
         NEW x \in Values, AssignGlobal(x)
  PROVE  Variables!Next \/ UNCHANGED <<View, done>>
<1>1. PICK n : n = Name
  OBVIOUS
<1>2. n \in Names /\ n = Current.name
  BY <1>1, LooksUpItsName DEF GlobalOps
<1>3. CASE ~ MayAssign(n)
  BY <1>1, <1>3, SameTable DEF AssignGlobal, RuntimeError
<1>4. CASE MayAssign(n)
  <2>1. /\ table' = [table EXCEPT ![n].value = x]
        /\ done' = <<"set", n, x>>
    BY <1>1, <1>2, <1>4 DEF AssignGlobal
  <2>2. /\ n \in DOMAIN table /\ table[n].mutable
        /\ table[n] \in [value : Values, mutable : BOOLEAN]
    BY <1>4 DEF MayAssign, IInv, TypeOK
  <2>3. View[n] = table[n] /\ View[n] # Undefined
    BY <1>2, <2>2, UndefinedAssumption DEF View, ValueOf
  <2>4. View' = [View EXCEPT ![n].value = x]
    <3> DEFINE r == [table[n] EXCEPT !.value = x]
               s == [View[n] EXCEPT !.value = x]
    <3>1. table' = [table EXCEPT ![n] = r] /\ r = s
      BY <2>1, <2>3
    <3>2. [View EXCEPT ![n].value = x] = [View EXCEPT ![n] = s]
      OBVIOUS
    <3> HIDE DEF r, s
    <3>3. \A k \in Names : ValueOf(k)' = IF k = n THEN s ELSE ValueOf(k)
      BY <2>2, <3>1 DEF ValueOf
    <3>4. View' = [View EXCEPT ![n] = s]
      BY <3>3 DEF View
    <3> QED
      BY <3>2, <3>4
  <2>5. Variables!Set(n, x)
    BY <2>1, <2>2, <2>3, <2>4 DEF Variables!Set, View, ValueOf
  <2> QED
    BY <1>2, <2>5 DEF Variables!Next
<1> QED
  BY <1>3, <1>4

LEMMA NextMaps ==
  ASSUME ~Shared, IInv, [Next]_vars
  PROVE  Variables!Next \/ UNCHANGED <<View, done>>
<1>1. CASE UNCHANGED <<table, done>>
  BY <1>1, SameTable
<1>2. ASSUME NEW x \in Values, OpDefineGlobal(x)
      PROVE  Variables!Next \/ UNCHANGED <<View, done>>
  BY <1>2, DefineMaps
<1>3. CASE OpGetGlobal
  BY <1>3, GetMaps
<1>4. ASSUME NEW x \in Values, OpSetGlobal(x)
      PROVE  Variables!Next \/ UNCHANGED <<View, done>>
  BY <1>4, AssignMaps DEF OpSetGlobal, Reads
<1>5. ASSUME NEW x \in Values, OpSetIfGlobal(x)
      PROVE  Variables!Next \/ UNCHANGED <<View, done>>
  <2>1. CASE AssignGlobal(x)
    BY <1>5, <2>1, AssignMaps DEF OpSetIfGlobal, Reads
  <2>2. CASE UNCHANGED <<table, done>>
    BY <1>1, <2>2
  <2> QED
    BY <1>5, <2>1, <2>2 DEF OpSetIfGlobal
<1>6. CompileStep \/ OpClosure \/ AssertFails \/ Return \/ (\E c \in made : Call(c))
        \/ UNCHANGED vars => UNCHANGED <<table, done>>
  BY DEF CompileStep, StartLine, DeclareVariable, DeclareClass, BeginGlobalFunction,
         BeginFunction, NamedVariable, OtherIdentifier, BeginMethod, BeginLocalFunction,
         EndFunction, EndLine, OpClosure, AssertFails, Return, Call, vars
<1>7. \/ UNCHANGED <<table, done>>
      \/ OpGetGlobal
      \/ \E x \in Values : OpDefineGlobal(x) \/ OpSetGlobal(x) \/ OpSetIfGlobal(x)
  BY <1>6 DEF Next, RunStep
<1> QED
  BY <1>1, <1>2, <1>3, <1>4, <1>5, <1>7

(* In such programs the indexes, the chunks and the table implement global *)
(* variables: each instruction acts on the variable the source names, a    *)
(* global is defined once, only mutable globals change, and all of it      *)
(* lasts from one line of the REPL to the next.                            *)
THEOREM GlobalsAreImplemented ==
  ASSUME ~Shared PROVE Spec => ImplementsGlobalVariables
<1>1. Init => Variables!Init
  <2> SUFFICES ASSUME Init PROVE Variables!Init
    OBVIOUS
  <2>1. /\ DOMAIN table = Natives
        /\ \A n \in Natives : table[n] = [value |-> Initially, mutable |-> FALSE]
    BY DEF Init
  <2> QED
    BY <2>1 DEF Init, Variables!Init, Variables!Global
<1>2. IInv /\ [Next]_vars => [Variables!Next]_<<View, done>>
  BY NextMaps
<1> QED
  BY <1>1, <1>2, Inductive, PTL
     DEF Spec, ImplementsGlobalVariables, Variables!Spec, View, ValueOf

(* Nor does the assertion in read_identifier ever fail in such programs.   *)
THEOREM IndexesInRange == ASSUME ~Shared PROVE Spec => []IndexInRange
<1>1. Init => IndexInRange
  BY DEF Init, IndexInRange
<1>2. IInv /\ IndexInRange /\ [Next]_vars => IndexInRange'
  <2> SUFFICES ASSUME IInv, line # "assert", [Next]_vars
               PROVE  line' # "assert"
    BY DEF IndexInRange
  <2>1. ~ AssertFails
    <3> SUFFICES ASSUME AssertFails PROVE FALSE
      OBVIOUS
    <3>1. AtInstruction /\ Current.op # "closure" /\ ~InRange
      BY DEF AssertFails
    <3>2. Current.op \in GlobalOps
      BY <3>1, FrameFacts DEF InstructionRecord
    <3> QED
      BY <3>1, <3>2, LooksUpItsName
  <2>2. CompileStep \/ UNCHANGED vars => line' \in {"ok", line}
    BY DEF CompileStep, StartLine, DeclareVariable, DeclareClass, BeginGlobalFunction,
           BeginFunction, NamedVariable, OtherIdentifier, BeginMethod,
           BeginLocalFunction, EndFunction, EndLine, vars
  <2>3. RunStep => line' \in {"error", line}
    BY <2>1 DEF RunStep, OpClosure, OpDefineGlobal, OpSetGlobal, OpSetIfGlobal,
                AssignGlobal, OpGetGlobal, Call, Return, RuntimeError
  <2> QED
    BY <2>2, <2>3 DEF Next
<1> QED
  BY <1>1, <1>2, Inductive, PTL DEF Spec
===============================================================================
