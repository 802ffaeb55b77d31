--------------------------- MODULE UpvaluesProofs ---------------------------
(***************************************************************************)
(* Proofs about Upvalues, for every program, every stack size and every    *)
(* bound: the types, the agreement of the compiler's locals with the       *)
(* stack, and the order of the open list.                                  *)
(***************************************************************************)
EXTENDS Upvalues, SequenceLemmas

USE ConstantsAssumption

-----------------------------------------------------------------------------
(* Lemmas about what the actions are built from.                           *)

(* With more upvalues there are more captures to choose from.              *)
LEMMA CapturesMonotonic ==
  ASSUME NEW A, NEW B, A \subseteq B
  PROVE  Captures(A) \subseteq Captures(B)
<1>1. ASSUME NEW c \in Captures(A) PROVE c \in Captures(B)
  <2>1. PICK S \in SUBSET (Variable \cup {NoVariable}) : c \in [S -> A]
    BY <1>1 DEF Captures
  <2>2. c \in [S -> B]
    BY <2>1
  <2>3. QED
    BY <2>2 DEF Captures
<1>2. QED
  BY <1>1

(* A frame made when there were fewer upvalues still is one.               *)
LEMMA FramesMonotonic ==
  ASSUME NEW A, NEW B, A \subseteq B, NEW fs \in Seq(FrameRecord(A))
  PROVE  fs \in Seq(FrameRecord(B))
<1>1. FrameRecord(A) \subseteq FrameRecord(B)
  BY CapturesMonotonic DEF FrameRecord
<1>2. QED
  BY <1>1, SeqMonotonic

(* Closing changes no upvalue's identity, and the list stays a list.       *)
LEMMA CloseUpvalueType ==
  ASSUME TypeOK, NEW slot \in Int, NEW m \in [Slots -> Cells],
         OpenListSorted, CloseUpvalue(slot, m)
  PROVE  /\ upvalues' \in Seq(UpvalueRecord)
         /\ DOMAIN upvalues' = DOMAIN upvalues
         /\ open' \in Seq(DOMAIN upvalues)
<1>1. PICK k \in 0 .. Len(open) :
        /\ open' = SubSeq(open, k + 1, Len(open))
        /\ upvalues' = [u \in DOMAIN upvalues |->
             IF \E i \in 1 .. k : open[i] = u
             THEN [location |-> Self, closed |-> m[upvalues[u].location]]
             ELSE upvalues[u]]
  BY DEF CloseUpvalue
<1>2. open \in Seq(DOMAIN upvalues) /\ upvalues \in Seq(UpvalueRecord)
  BY DEF TypeOK
<1>3. open' \in Seq(DOMAIN upvalues)
  <2>1. \A i \in k + 1 .. Len(open) : open[i] \in DOMAIN upvalues
    BY <1>2, ElementOfSeq
  <2>2. QED
    BY <1>1, <2>1, SubSeqProperties
<1>4. ASSUME NEW u \in DOMAIN upvalues
      PROVE  upvalues'[u] \in UpvalueRecord
  <2>1. upvalues[u] \in UpvalueRecord
    BY <1>2, ElementOfSeq
  <2>2. CASE \E i \in 1 .. k : open[i] = u
    <3>1. upvalues[u].location # Self
      BY <2>2, <1>2 DEF OpenListSorted
    <3>2. m[upvalues[u].location] \in Cells
      BY <2>1, <3>1 DEF UpvalueRecord
    <3>3. QED
      BY <1>1, <2>2, <3>2 DEF UpvalueRecord
  <2>3. CASE ~ \E i \in 1 .. k : open[i] = u
    BY <1>1, <2>1, <2>3
  <2>4. QED
    BY <2>2, <2>3
<1>5. upvalues' \in [1 .. Len(upvalues) -> UpvalueRecord]
  BY <1>1, <1>2, <1>4
<1>6. Len(upvalues) \in Nat /\ DOMAIN upvalues = 1 .. Len(upvalues)
  BY <1>2, LenProperties
<1>7. QED
  BY <1>3, <1>5, <1>6, FunctionIsSeq

(* An upvalue points at a slot or at itself.                               *)
LEMMA LocationType ==
  ASSUME TypeOK, NEW u \in DOMAIN upvalues
  PROVE  /\ upvalues[u] \in UpvalueRecord
         /\ upvalues[u].location \in Slots \cup {Self}
         /\ upvalues[u].location \in Int
<1>1. upvalues[u] \in UpvalueRecord
  BY LenProperties, ElementOfSeq DEF TypeOK
<1>2. upvalues[u].location \in Slots \cup {Self}
  BY <1>1 DEF UpvalueRecord
<1>3. QED
  BY <1>1, <1>2 DEF Slots, Self

(* Closing removes the head of the list and exactly those upvalues.        *)
LEMMA CloseUpvalueSorted ==
  ASSUME TypeOK, OpenListSorted, NEW slot \in Int, NEW m \in [Slots -> Cells],
         CloseUpvalue(slot, m)
  PROVE  OpenListSorted'
<1>1. PICK k \in 0 .. Len(open) :
        /\ open' = SubSeq(open, k + 1, Len(open))
        /\ upvalues' = [u \in DOMAIN upvalues |->
             IF \E i \in 1 .. k : open[i] = u
             THEN [location |-> Self, closed |-> m[upvalues[u].location]]
             ELSE upvalues[u]]
  BY DEF CloseUpvalue
<1>2. /\ open \in Seq(DOMAIN upvalues) /\ Len(open) \in Nat
      /\ DOMAIN open = 1 .. Len(open)
  BY LenProperties DEF TypeOK
<1>3. \A i \in 1 .. Len(open) : open[i] \in DOMAIN upvalues
  BY <1>2, ElementOfSeq
<1>4. \A i, j \in 1 .. Len(open) : i # j => open[i] # open[j]
  <2> SUFFICES ASSUME NEW i \in 1 .. Len(open), NEW j \in 1 .. Len(open), i < j
               PROVE  open[i] # open[j]
    BY <1>2
  <2>1. upvalues[open[i]].location > upvalues[open[j]].location
    BY <1>2 DEF OpenListSorted
  <2>2. upvalues[open[i]].location \in Int
    BY <1>3, LocationType
  <2>3. QED
    BY <2>1, <2>2
<1>5. /\ Len(open') = Len(open) - k
      /\ DOMAIN open' = 1 .. Len(open) - k
      /\ \A i \in 1 .. Len(open) - k : open'[i] = open[k + i]
  BY <1>1, <1>2, DropPrefix
<1>6. ASSUME NEW i \in 1 .. Len(open) - k
      PROVE  upvalues'[open'[i]] = upvalues[open[k + i]]
  <2>1. k + i \in 1 .. Len(open)
    BY <1>2
  <2>2. \A n \in 1 .. k : n \in 1 .. Len(open) /\ n # k + i
    BY <1>2
  <2>3. ~ \E n \in 1 .. k : open[n] = open[k + i]
    BY <1>4, <2>1, <2>2
  <2>4. QED
    BY <1>1, <1>3, <1>5, <2>1, <2>3
<1>7. ASSUME NEW i \in DOMAIN open', NEW j \in DOMAIN open', i < j
      PROVE  upvalues'[open'[i]].location > upvalues'[open'[j]].location
  <2>1. k + i \in DOMAIN open /\ k + j \in DOMAIN open /\ k + i < k + j
    BY <1>2, <1>5, <1>7
  <2>2. QED
    BY <1>5, <1>6, <1>7, <2>1 DEF OpenListSorted
<1>8. ASSUME NEW u \in DOMAIN upvalues'
      PROVE  (upvalues'[u].location # Self) <=> \E i \in DOMAIN open' : open'[i] = u
  <2>1. u \in DOMAIN upvalues
    BY <1>1
  <2>2. CASE \E i \in 1 .. k : open[i] = u
    <3>1. upvalues'[u].location = Self
      BY <1>1, <2>1, <2>2
    <3>2. ~ \E i \in DOMAIN open' : open'[i] = u
      <4>1. SUFFICES ASSUME NEW i \in 1 .. Len(open) - k, open'[i] = u PROVE FALSE
        BY <1>5
      <4>2. PICK n \in 1 .. k : open[n] = u
        BY <2>2
      <4>3. n \in 1 .. Len(open) /\ k + i \in 1 .. Len(open) /\ n # k + i
        BY <1>2
      <4>4. QED
        BY <1>4, <1>5, <4>1, <4>2, <4>3
    <3>3. QED
      BY <3>1, <3>2
  <2>3. CASE ~ \E i \in 1 .. k : open[i] = u
    <3>1. upvalues'[u] = upvalues[u]
      BY <1>1, <2>1, <2>3
    <3>2. (\E i \in DOMAIN open : open[i] = u) <=> (\E i \in DOMAIN open' : open'[i] = u)
      <4>1. ASSUME NEW i \in DOMAIN open, open[i] = u
            PROVE  i - k \in DOMAIN open' /\ open'[i - k] = u
        BY <1>2, <1>5, <2>3, <4>1
      <4>2. ASSUME NEW i \in DOMAIN open', open'[i] = u
            PROVE  k + i \in DOMAIN open /\ open[k + i] = u
        BY <1>2, <1>5, <4>2
      <4>3. QED
        BY <4>1, <4>2
    <3>3. QED
      BY <2>1, <3>1, <3>2 DEF OpenListSorted
  <2>4. QED
    BY <2>2, <2>3
<1>9. QED
  BY <1>7, <1>8 DEF OpenListSorted

(* The frame on top is a frame, and so is the list after it is replaced.   *)
LEMMA FrameType ==
  ASSUME TypeOK, frames # << >>
  PROVE  /\ Len(frames) \in DOMAIN frames
         /\ DOMAIN frames = 1 .. Len(frames)
         /\ Len(frames) \in Nat \ {0}
         /\ Frame \in FrameRecord(DOMAIN upvalues)
<1>1. frames \in Seq(FrameRecord(DOMAIN upvalues))
  BY DEF TypeOK
<1>2. Len(frames) \in Nat \ {0} /\ DOMAIN frames = 1 .. Len(frames)
  BY <1>1, LenProperties, EmptySeq
<1>3. QED
  BY <1>1, <1>2, ElementOfSeq DEF Frame

(* The frames after the one on top is replaced.                            *)
LEMMA SetFrameType ==
  ASSUME TypeOK, frames # << >>, NEW f \in FrameRecord(DOMAIN upvalues), SetFrame(f)
  PROVE  /\ frames' \in Seq(FrameRecord(DOMAIN upvalues))
         /\ Len(frames') = Len(frames) /\ DOMAIN frames' = DOMAIN frames
         /\ frames' # << >>
         /\ \A n \in DOMAIN frames :
              frames'[n] = IF n = Len(frames) THEN f ELSE frames[n]
<1>1. frames \in Seq(FrameRecord(DOMAIN upvalues)) /\ Len(frames) \in 1 .. Len(frames)
  BY FrameType DEF TypeOK
<1>2. /\ frames' \in Seq(FrameRecord(DOMAIN upvalues))
      /\ Len(frames') = Len(frames)
      /\ \A n \in 1 .. Len(frames) :
           frames'[n] = IF n = Len(frames) THEN f ELSE frames[n]
  BY <1>1, ExceptSeq DEF SetFrame
<1>3. DOMAIN frames = 1 .. Len(frames) /\ DOMAIN frames' = 1 .. Len(frames')
  BY <1>1, <1>2, LenProperties
<1>4. QED
  BY <1>1, <1>2, <1>3, FrameType

(* What the compiler and the vm agree on about the frame on top.           *)
LEMMA FrameLayout ==
  ASSUME TypeOK, StackMatchesLocals, frames # << >>
  PROVE  /\ Frame.slots \in Slots /\ Frame.slots \in Nat
         /\ Frame.depth \in 1 .. MaxDepth
         /\ Frame.captures \in Captures(DOMAIN upvalues)
         /\ Frame.locals \in Seq(LocalRecord) /\ Frame.locals # << >>
         /\ Len(Frame.locals) \in Nat \ {0}
         /\ DOMAIN Frame.locals = 1 .. Len(Frame.locals)
         /\ Frame.locals[1].depth = 0
         /\ top = Frame.slots + Len(Frame.locals)
                    + (IF building.active /\ building.global THEN 1 ELSE 0)
         /\ top \in Slots
<1>1. /\ Frame \in FrameRecord(DOMAIN upvalues)
      /\ Len(frames) \in DOMAIN frames
  BY FrameType
<1>2. /\ Frame.slots \in Slots /\ Frame.depth \in 1 .. MaxDepth
      /\ Frame.captures \in Captures(DOMAIN upvalues)
      /\ Frame.locals \in Seq(LocalRecord)
  BY <1>1 DEF FrameRecord
<1>3. Frame.locals # << >> /\ Frame.locals[1].depth = 0
  BY <1>1 DEF StackMatchesLocals, Frame
<1>4. top = Frame.slots + Len(Frame.locals)
              + (IF building.active /\ building.global THEN 1 ELSE 0)
  BY DEF StackMatchesLocals
<1>5. Len(Frame.locals) \in Nat \ {0} /\ DOMAIN Frame.locals = 1 .. Len(Frame.locals)
  BY <1>2, <1>3, LenProperties, EmptySeq
<1>6. top \in Slots /\ Frame.slots \in Nat
  BY <1>2 DEF TypeOK, Slots
<1>7. QED
  BY <1>2, <1>3, <1>4, <1>5, <1>6

(* Replacing the frame on top keeps the frames back to back, provided the  *)
(* stack grows and shrinks with its locals.                                *)
LEMMA SetFrameLayout ==
  ASSUME TypeOK, StackMatchesLocals, frames # << >>,
         NEW f \in FrameRecord(DOMAIN upvalues), SetFrame(f),
         f.slots = Frame.slots, f.locals # << >>, f.locals[1].depth = 0,
         top' = f.slots + Len(f.locals)
                  + (IF building'.active /\ building'.global THEN 1 ELSE 0)
  PROVE  StackMatchesLocals'
<1>1. /\ Len(frames') = Len(frames) /\ DOMAIN frames' = DOMAIN frames
      /\ frames' # << >>
      /\ \A n \in DOMAIN frames :
           frames'[n] = IF n = Len(frames) THEN f ELSE frames[n]
  BY SetFrameType
<1>2. DOMAIN frames = 1 .. Len(frames) /\ Len(frames) \in DOMAIN frames
  BY FrameType
<1>3. Frame' = f
  BY <1>1, <1>2 DEF Frame
<1>4. ASSUME NEW n \in DOMAIN frames
      PROVE  /\ frames'[n].locals # << >> /\ frames'[n].locals[1].depth = 0
             /\ frames'[n].slots =
                  IF n = 1 THEN 0 ELSE frames'[n - 1].slots + Len(frames'[n - 1].locals)
  <2>1. frames'[n].slots = frames[n].slots
    BY <1>1 DEF Frame
  <2>2. frames'[n].locals # << >> /\ frames'[n].locals[1].depth = 0
    BY <1>1 DEF StackMatchesLocals
  <2>3. n # 1 => n - 1 \in DOMAIN frames /\ n - 1 # Len(frames)
    BY <1>2
  <2>4. n # 1 => frames'[n - 1] = frames[n - 1]
    BY <1>1, <2>3
  <2>5. QED
    BY <2>1, <2>2, <2>4 DEF StackMatchesLocals
<1>5. QED
  BY <1>1, <1>3, <1>4 DEF StackMatchesLocals

(* The slot of a local of the running function is below the top.           *)
LEMMA LocalSlot ==
  ASSUME TypeOK, StackMatchesLocals, NEW i \in LocalIndex
  PROVE  /\ frames # << >> /\ i \in DOMAIN Frame.locals
         /\ SlotOf(Frame, i) \in Slots /\ SlotOf(Frame, i) \in Nat
<1>1. frames # << >> /\ i \in 2 .. Len(Frame.locals)
  BY DEF LocalIndex
<1>2. /\ Frame.slots \in Nat /\ Len(Frame.locals) \in Nat
      /\ DOMAIN Frame.locals = 1 .. Len(Frame.locals)
      /\ top \in Slots /\ top >= Frame.slots + Len(Frame.locals)
  BY <1>1, FrameLayout
<1>3. SlotOf(Frame, i) \in Nat /\ SlotOf(Frame, i) < top
  <2>1. i \in Nat /\ i >= 2 /\ i <= Len(Frame.locals)
    BY <1>1, <1>2
  <2>2. top \in Nat
    BY <1>2 DEF Slots
  <2>3. QED
    BY <1>2, <2>1, <2>2 DEF SlotOf
<1>4. QED
  <2>1. top <= StackSize - 1 /\ top \in Nat
    BY <1>2 DEF Slots
  <2>2. QED
    BY <1>1, <1>2, <1>3, <2>1 DEF Slots

-----------------------------------------------------------------------------
(* The inductive invariant.  The types need the order of the open list     *)
(* (closing reads the slot an open upvalue points at, never "Self") and    *)
(* the layout (a local's slot is inside the storage).                      *)
IInv == TypeOK /\ StackMatchesLocals /\ OpenListSorted

LEMMA InitIInv == Init => IInv
<1> SUFFICES ASSUME Init PROVE IInv
  OBVIOUS
<1> USE DEF Init
<1>1. NoCaptures \in Captures({}) /\ DOMAIN upvalues = {}
  <2>1. NoCaptures \in [{} -> {}]
    BY DEF NoCaptures
  <2>2. QED
    BY <2>1 DEF Captures
<1>2. Callee \in LocalRecord
  BY DEF Callee, Local, LocalRecord
<1>3. ScriptFrame \in FrameRecord({})
  BY <1>1, <1>2 DEF ScriptFrame, CallFrame, FrameRecord, Slots
<1>4. TypeOK
  <2>1. mem \in [Slots -> Cells] /\ top \in 0 .. StackSize - 1
    BY DEF Cells
  <2>2. frames \in Seq(FrameRecord(DOMAIN upvalues))
    BY <1>1, <1>3
  <2>3. upvalues \in Seq(UpvalueRecord) /\ open \in Seq(DOMAIN upvalues)
    OBVIOUS
  <2>4. QED
    BY <1>1, <2>1, <2>2, <2>3 DEF TypeOK
<1>5. StackMatchesLocals
  <2>1. frames # << >> /\ DOMAIN frames = {1} /\ frames[1] = ScriptFrame /\ Len(frames) = 1
    OBVIOUS
  <2>2. /\ ScriptFrame.slots = 0 /\ ScriptFrame.locals = <<Callee>>
        /\ ScriptFrame.locals # << >> /\ Len(ScriptFrame.locals) = 1
        /\ ScriptFrame.locals[1].depth = 0
    BY DEF ScriptFrame, CallFrame, Callee, Local
  <2>3. Frame = ScriptFrame
    BY <2>1 DEF Frame
  <2> HIDE DEF Init
  <2>4. building.active = FALSE /\ top = 1
    BY DEF Init
  <2>5. \A n \in DOMAIN frames :
          /\ frames[n].locals # << >> /\ frames[n].locals[1].depth = 0
          /\ frames[n].slots =
               IF n = 1 THEN 0 ELSE frames[n - 1].slots + Len(frames[n - 1].locals)
    BY <2>1, <2>2
  <2>6. top = Frame.slots + Len(Frame.locals)
                + (IF building.active /\ building.global THEN 1 ELSE 0)
    <3>1. ~ (building.active /\ building.global)
      BY <2>4
    <3>2. Frame.slots = 0 /\ Len(Frame.locals) = 1
      BY <2>2, <2>3
    <3>3. QED
      BY <2>4, <3>1, <3>2
  <2>7. QED
    BY <2>1, <2>4, <2>5, <2>6 DEF StackMatchesLocals
<1>6. OpenListSorted
  BY DEF OpenListSorted
<1>7. QED
  BY <1>4, <1>5, <1>6 DEF IInv

(* Steps that leave the upvalues and the list alone leave its order alone. *)
LEMMA SameListSorted ==
  ASSUME OpenListSorted, UNCHANGED <<upvalues, open>>
  PROVE  OpenListSorted'
  BY DEF OpenListSorted

(* Declaring a variable adds a local, and the value pushed is its slot.    *)
LEMMA DeclareLocalLayout ==
  ASSUME TypeOK, StackMatchesLocals, Idle, nvars < MaxVariables, DeclareLocal,
         top' = top + 1, ~ (building'.active /\ building'.global)
  PROVE  /\ frames' \in Seq(FrameRecord(DOMAIN upvalues))
         /\ StackMatchesLocals'
<1> DEFINE new == Local(nvars + 1, Frame.depth)
           f == [Frame EXCEPT !.locals = Append(@, new)]
<1>1. frames # << >> /\ ~ building.active
  BY DEF Idle
<1>2. /\ Frame.locals \in Seq(LocalRecord) /\ Len(Frame.locals) \in Nat \ {0}
      /\ Frame.locals[1].depth = 0 /\ Frame.depth \in 1 .. MaxDepth
      /\ Frame.slots \in Nat
      /\ top = Frame.slots + Len(Frame.locals)
  BY <1>1, FrameLayout
<1>3. Frame \in FrameRecord(DOMAIN upvalues)
  BY <1>1, FrameType
<1>4. new \in LocalRecord
  <2>1. nvars + 1 \in Variable \cup {NoVariable}
    BY DEF TypeOK, Variable
  <2>2. Frame.depth \in 0 .. MaxDepth
    BY <1>2
  <2>3. QED
    BY <2>1, <2>2 DEF Local, LocalRecord
<1>5. /\ Append(Frame.locals, new) \in Seq(LocalRecord)
      /\ Len(Append(Frame.locals, new)) = Len(Frame.locals) + 1
      /\ Append(Frame.locals, new)[1] = Frame.locals[1]
  <2> HIDE DEF new
  <2>1. QED
    BY <1>2, <1>4
<1>6. /\ f \in FrameRecord(DOMAIN upvalues) /\ f.slots = Frame.slots
      /\ f.locals = Append(Frame.locals, new)
  BY <1>3, <1>5 DEF FrameRecord
<1>7. SetFrame(f)
  BY DEF DeclareLocal
<1>8. f.locals # << >>
  BY <1>2, <1>5, <1>6
<1> HIDE DEF f, new
<1>9. top' = f.slots + Len(f.locals)
               + (IF building'.active /\ building'.global THEN 1 ELSE 0)
  BY <1>2, <1>5, <1>6
<1>10. QED
  BY <1>1, <1>2, <1>5, <1>6, <1>7, <1>8, <1>9, SetFrameType, SetFrameLayout

LEMMA LetKeeps == ASSUME IInv, NEW x \in Values, Let(x) PROVE IInv'
<1> USE DEF IInv, Let
<1>1. /\ frames' \in Seq(FrameRecord(DOMAIN upvalues)) /\ StackMatchesLocals'
  <2>1. ~ (building'.active /\ building'.global)
    BY DEF Idle
  <2>2. QED
    BY <2>1, DeclareLocalLayout
<1>2. mem' \in [Slots -> Cells] /\ top' \in 0 .. StackSize - 1
  <2>1. x \in Cells
    BY DEF Cells
  <2>2. mem' \in [Slots -> Cells]
    BY <2>1 DEF TypeOK
  <2>3. top' \in 0 .. StackSize - 1
    BY DEF TypeOK, Room
  <2>4. QED
    BY <2>2, <2>3
<1>3. nvars' \in 0 .. MaxVariables
  BY DEF TypeOK
<1>4. TypeOK'
  BY <1>1, <1>2, <1>3 DEF TypeOK
<1>5. QED
  BY <1>1, <1>4, SameListSorted

LEMMA ExpressionStatementKeeps ==
  ASSUME IInv, NEW x \in Results, ExpressionStatement(x) PROVE IInv'
<1> USE DEF IInv, ExpressionStatement
<1>1. x \in Cells
  BY DEF Cells
<1>2. TypeOK'
  BY <1>1 DEF TypeOK
<1>3. StackMatchesLocals'
  BY DEF StackMatchesLocals, Frame
<1>4. QED
  BY <1>2, <1>3, SameListSorted

LEMMA SetLocalKeeps ==
  ASSUME IInv, NEW i \in LocalIndex, NEW x \in Values, SetLocal(i, x) PROVE IInv'
<1> USE DEF IInv, SetLocal
<1>1. x \in Cells
  BY DEF Cells
<1>2. TypeOK'
  BY <1>1 DEF TypeOK
<1>3. StackMatchesLocals'
  BY DEF StackMatchesLocals, Frame
<1>4. QED
  BY <1>2, <1>3, SameListSorted

LEMMA BeginScopeKeeps == ASSUME IInv, BeginScope PROVE IInv'
<1> DEFINE f == [Frame EXCEPT !.depth = @ + 1]
<1> USE DEF IInv, BeginScope
<1>1. frames # << >> /\ ~ building.active
  BY DEF Idle
<1>2. Frame \in FrameRecord(DOMAIN upvalues) /\ Frame.depth \in 1 .. MaxDepth
  BY <1>1, FrameType, FrameLayout
<1>3. /\ f \in FrameRecord(DOMAIN upvalues) /\ f.slots = Frame.slots
      /\ f.locals = Frame.locals
  BY <1>2 DEF FrameRecord
<1>4. SetFrame(f)
  OBVIOUS
<1> HIDE DEF f
<1>5. top' = f.slots + Len(f.locals)
               + (IF building'.active /\ building'.global THEN 1 ELSE 0)
  BY <1>1, <1>3, FrameLayout
<1>6. f.locals # << >> /\ f.locals[1].depth = 0
  BY <1>1, <1>3, FrameLayout
<1>7. StackMatchesLocals'
  BY <1>1, <1>3, <1>4, <1>5, <1>6, SetFrameLayout
<1>8. TypeOK'
  <2>1. frames' \in Seq(FrameRecord(DOMAIN upvalues))
    BY <1>1, <1>3, <1>4, SetFrameType
  <2>2. QED
    BY <2>1 DEF TypeOK
<1>9. QED
  BY <1>7, <1>8, SameListSorted

(* An assignment through an upvalue: a value is stored, and the upvalue    *)
(* points where it pointed.                                                *)
LEMMA CaptureOf ==
  ASSUME NEW ids, NEW c \in Captures(ids), NEW v \in DOMAIN c
  PROVE  c[v] \in ids
  BY DEF Captures

LEMMA SetUpvalueKeeps ==
  ASSUME IInv, NEW v \in Captured, NEW x \in Values, SetUpvalue(v, x) PROVE IInv'
<1> DEFINE u == Frame.captures[v]
<1> USE DEF IInv
<1>1. frames # << >> /\ v \in DOMAIN Frame.captures
  BY DEF Captured
<1>2. u \in DOMAIN upvalues
  BY <1>1, FrameLayout, CaptureOf
<1>3. x \in Cells
  BY DEF Cells
<1>4. /\ UNCHANGED <<top, frames, open, building, closures, nvars>>
      /\ IF upvalues[u].location = Self
         THEN /\ mem' = [mem EXCEPT ![top] = x]
              /\ upvalues' = [upvalues EXCEPT ![u].closed = x]
         ELSE /\ mem' = [mem EXCEPT ![top] = x, ![upvalues[u].location] = x]
              /\ UNCHANGED upvalues
  BY DEF SetUpvalue
<1> HIDE DEF u
<1>5. mem' \in [Slots -> Cells]
  BY <1>3, <1>4 DEF TypeOK
<1>6. /\ upvalues' \in Seq(UpvalueRecord) /\ DOMAIN upvalues' = DOMAIN upvalues
      /\ \A w \in DOMAIN upvalues : upvalues'[w].location = upvalues[w].location
  <2>1. CASE upvalues[u].location = Self
    <3> DEFINE r == [upvalues[u] EXCEPT !.closed = x]
    <3>1. upvalues[u] \in UpvalueRecord
      BY <1>2, LocationType
    <3>2. r \in UpvalueRecord /\ r.location = upvalues[u].location
      BY <1>3, <3>1 DEF UpvalueRecord
    <3>3. upvalues' = [upvalues EXCEPT ![u] = r]
      BY <1>4, <2>1
    <3>4. upvalues \in Seq(UpvalueRecord) /\ DOMAIN upvalues = 1 .. Len(upvalues)
      BY LenProperties DEF TypeOK
    <3> HIDE DEF r
    <3>5. /\ upvalues' \in Seq(UpvalueRecord)
          /\ \A w \in DOMAIN upvalues : upvalues'[w] = IF w = u THEN r ELSE upvalues[w]
      BY <1>2, <3>2, <3>3, <3>4, ExceptSeq
    <3>6. DOMAIN upvalues' = DOMAIN upvalues
      BY <3>3
    <3>7. QED
      BY <3>2, <3>5, <3>6
  <2>2. CASE upvalues[u].location # Self
    BY <1>4, <2>2 DEF TypeOK
  <2>3. QED
    BY <2>1, <2>2
<1>7. TypeOK'
  BY <1>4, <1>5, <1>6 DEF TypeOK
<1>8. StackMatchesLocals'
  BY <1>4 DEF StackMatchesLocals, Frame
<1>9. OpenListSorted'
  <2>1. open' = open /\ \A i \in DOMAIN open : open[i] \in DOMAIN upvalues
    BY <1>4, LenProperties, ElementOfSeq DEF TypeOK
  <2>2. QED
    BY <1>6, <2>1 DEF OpenListSorted
<1>10. QED
  BY <1>7, <1>8, <1>9

(* Dropping the locals after the first "keep" of the running function.     *)
LEMMA DropLocals ==
  ASSUME IInv, Idle, NEW keep \in 1 .. Len(Frame.locals), NEW d \in 1 .. MaxDepth,
         SetFrame([Frame EXCEPT !.depth = d, !.locals = SubSeq(@, 1, keep)]),
         top' = top - Pops(keep), UNCHANGED building
  PROVE  /\ frames' \in Seq(FrameRecord(DOMAIN upvalues))
         /\ StackMatchesLocals'
         /\ top' \in 0 .. StackSize - 1
<1> DEFINE f == [Frame EXCEPT !.depth = d, !.locals = SubSeq(@, 1, keep)]
<1>1. frames # << >> /\ ~ building.active /\ TypeOK /\ StackMatchesLocals
  BY DEF Idle, IInv
<1>2. /\ Frame.locals \in Seq(LocalRecord) /\ Len(Frame.locals) \in Nat \ {0}
      /\ Frame.locals[1].depth = 0 /\ Frame.slots \in Nat /\ top \in Slots
      /\ top = Frame.slots + Len(Frame.locals)
  BY <1>1, FrameLayout
<1>3. Frame \in FrameRecord(DOMAIN upvalues)
  BY <1>1, FrameType
<1>4. /\ SubSeq(Frame.locals, 1, keep) \in Seq(LocalRecord)
      /\ Len(SubSeq(Frame.locals, 1, keep)) = keep
      /\ SubSeq(Frame.locals, 1, keep)[1] = Frame.locals[1]
  <2>1. keep \in 0 .. Len(Frame.locals) /\ 1 \in 1 .. keep
    BY <1>2
  <2>2. QED
    BY <1>2, <2>1, TakePrefix
<1>5. /\ f \in FrameRecord(DOMAIN upvalues) /\ f.slots = Frame.slots
      /\ f.locals = SubSeq(Frame.locals, 1, keep)
  BY <1>3, <1>4 DEF FrameRecord
<1>6. SetFrame(f)
  OBVIOUS
<1> HIDE DEF f
<1>7. f.locals # << >> /\ f.locals[1].depth = 0
  BY <1>2, <1>4, <1>5
<1>8. top' = Frame.slots + keep
  BY <1>2 DEF Pops
<1>9. top' = f.slots + Len(f.locals)
               + (IF building'.active /\ building'.global THEN 1 ELSE 0)
  BY <1>1, <1>2, <1>4, <1>5, <1>8
<1>10. top' \in 0 .. StackSize - 1
  <2>1. top <= StackSize - 1 /\ top \in Int
    BY <1>2 DEF Slots
  <2>2. QED
    BY <1>2, <1>8, <2>1
<1>11. QED
  BY <1>1, <1>5, <1>6, <1>7, <1>9, <1>10, SetFrameType, SetFrameLayout

LEMMA EndScopeKeeps == ASSUME IInv, EndScope PROVE IInv'
<1>1. /\ Idle /\ Frame.depth > 1 /\ UNCHANGED <<mem, building, closures, nvars>>
      /\ TypeOK /\ StackMatchesLocals /\ OpenListSorted
  BY DEF EndScope, IInv
<1>2. PICK keep \in 1 .. Len(Frame.locals) :
        /\ SetFrame([Frame EXCEPT !.depth = @ - 1, !.locals = SubSeq(@, 1, keep)])
        /\ top' = top - Pops(keep)
        /\ \/ CloseUpvalue(top - 1, mem)
           \/ UNCHANGED <<upvalues, open>>
  BY DEF EndScope
<1>3. Frame.depth - 1 \in 1 .. MaxDepth
  <2>1. Frame.depth \in 1 .. MaxDepth
    BY <1>1, FrameLayout DEF Idle
  <2>2. QED
    BY <1>1, <2>1
<1>4. /\ frames' \in Seq(FrameRecord(DOMAIN upvalues)) /\ StackMatchesLocals'
      /\ top' \in 0 .. StackSize - 1
  BY <1>1, <1>2, <1>3, DropLocals
<1>5. /\ upvalues' \in Seq(UpvalueRecord) /\ DOMAIN upvalues' = DOMAIN upvalues
      /\ open' \in Seq(DOMAIN upvalues) /\ OpenListSorted'
  <2>1. top - 1 \in Int /\ mem \in [Slots -> Cells]
    BY <1>1 DEF TypeOK
  <2>2. CASE CloseUpvalue(top - 1, mem)
    BY <1>1, <2>1, <2>2, CloseUpvalueType, CloseUpvalueSorted
  <2>3. CASE UNCHANGED <<upvalues, open>>
    BY <1>1, <2>3, SameListSorted DEF TypeOK
  <2>4. QED
    BY <1>2, <2>2, <2>3
<1>6. TypeOK'
  BY <1>1, <1>4, <1>5 DEF TypeOK
<1>7. QED
  BY <1>4, <1>5, <1>6 DEF IInv

LEMMA LoopExitKeeps ==
  ASSUME IInv, NEW d \in OuterDepths, LoopExit(d) PROVE IInv'
<1>1. /\ Idle /\ UNCHANGED <<mem, upvalues, open, building, closures, nvars>>
      /\ TypeOK /\ StackMatchesLocals /\ OpenListSorted
  BY DEF LoopExit, IInv
<1>2. PICK keep \in 1 .. Len(Frame.locals) :
        /\ SetFrame([Frame EXCEPT !.depth = d, !.locals = SubSeq(@, 1, keep)])
        /\ top' = top - Pops(keep)
  BY DEF LoopExit
<1>3. d \in 1 .. MaxDepth
  <2>1. Frame.depth \in 1 .. MaxDepth /\ d \in 1 .. Frame.depth - 1
    BY <1>1, FrameLayout DEF Idle, OuterDepths
  <2>2. QED
    BY <2>1
<1>4. /\ frames' \in Seq(FrameRecord(DOMAIN upvalues)) /\ StackMatchesLocals'
      /\ top' \in 0 .. StackSize - 1
  BY <1>1, <1>2, <1>3, DropLocals
<1>5. TypeOK'
  BY <1>1, <1>4 DEF TypeOK
<1>6. QED
  BY <1>1, <1>4, <1>5, SameListSorted DEF IInv

(* op_closure: a captures record of a closure being built.                 *)
LEMMA BuildingType ==
  ASSUME NEW ids, NEW active \in BOOLEAN, NEW global \in BOOLEAN,
         NEW c \in Captures(ids)
  PROVE  [active |-> active, global |-> global, captures |-> c]
           \in [active : BOOLEAN, global : BOOLEAN, captures : Captures(ids)]
  OBVIOUS

LEMMA NoCapturesType ==
  ASSUME NEW ids PROVE NoCaptures \in Captures(ids)
<1>1. NoCaptures \in [{} -> ids]
  BY DEF NoCaptures
<1>2. QED
  BY <1>1 DEF Captures

LEMMA OpClosureKeeps ==
  ASSUME IInv, NEW global \in BOOLEAN, OpClosure(global) PROVE IInv'
<1>1. /\ Idle /\ Room(1) /\ UNCHANGED <<upvalues, open, closures>>
      /\ TypeOK /\ StackMatchesLocals /\ OpenListSorted
      /\ mem' = [mem EXCEPT ![top] = Fun] /\ top' = top + 1
      /\ building' = [active |-> TRUE, global |-> global, captures |-> NoCaptures]
      /\ IF global
         THEN UNCHANGED <<frames, nvars>>
         ELSE nvars < MaxVariables /\ nvars' = nvars + 1 /\ DeclareLocal
  BY DEF OpClosure, IInv
<1>2. frames # << >> /\ ~ building.active
  BY <1>1 DEF Idle
<1>3. frames' \in Seq(FrameRecord(DOMAIN upvalues)) /\ StackMatchesLocals'
  <2>1. CASE global
    <3>1. UNCHANGED frames /\ building'.active /\ building'.global
      BY <1>1, <2>1
    <3>2. top = Frame.slots + Len(Frame.locals) + 0
      BY <1>1, <1>2 DEF StackMatchesLocals
    <3>3. Frame.slots \in Nat /\ Len(Frame.locals) \in Nat
      BY <1>1, <1>2, FrameLayout
    <3>4. top' = Frame.slots + Len(Frame.locals)
                   + (IF building'.active /\ building'.global THEN 1 ELSE 0)
      BY <1>1, <3>1, <3>2, <3>3
    <3>5. frames' = frames /\ Frame' = Frame
      BY <3>1 DEF Frame
    <3>6. StackMatchesLocals'
      BY <1>1, <1>2, <3>4, <3>5 DEF StackMatchesLocals
    <3>7. QED
      BY <1>1, <3>1, <3>6 DEF TypeOK
  <2>2. CASE ~ global
    <3>1. ~ (building'.active /\ building'.global)
      BY <1>1, <2>2
    <3>2. QED
      BY <1>1, <2>2, <3>1, DeclareLocalLayout
  <2>3. QED
    BY <2>1, <2>2
<1>4. mem' \in [Slots -> Cells]
  <2>1. Fun \in Cells
    BY DEF Cells
  <2>2. QED
    BY <1>1, <2>1 DEF TypeOK
<1>5. top' \in 0 .. StackSize - 1 /\ nvars' \in 0 .. MaxVariables
  BY <1>1 DEF TypeOK, Room
<1>6. building' \in [active : BOOLEAN, global : BOOLEAN,
                     captures : Captures(DOMAIN upvalues)]
  BY <1>1, BuildingType, NoCapturesType
<1>7. TypeOK'
  BY <1>1, <1>3, <1>4, <1>5, <1>6 DEF TypeOK
<1>8. QED
  BY <1>1, <1>3, <1>7, SameListSorted DEF IInv

(* A closure being built that has captured v with upvalue u.               *)
LEMMA WithCaptureType ==
  ASSUME NEW ids, NEW more, ids \subseteq more,
         building \in [active : BOOLEAN, global : BOOLEAN, captures : Captures(ids)],
         NEW v \in Variable \cup {NoVariable}, NEW u \in more
  PROVE  [building EXCEPT !.captures = WithCapture(v, u)]
           \in [active : BOOLEAN, global : BOOLEAN, captures : Captures(more)]
<1>1. PICK S \in SUBSET (Variable \cup {NoVariable}) : building.captures \in [S -> ids]
  BY DEF Captures
<1>2. WithCapture(v, u) \in [S \cup {v} -> more]
  BY <1>1 DEF WithCapture
<1>3. WithCapture(v, u) \in Captures(more)
  BY <1>2 DEF Captures
<1>4. QED
  BY <1>3

LEMMA CopyUpvalueKeeps ==
  ASSUME IInv, NEW v \in Captured, CopyUpvalue(v) PROVE IInv'
<1>1. /\ building.active /\ TypeOK /\ StackMatchesLocals /\ OpenListSorted
      /\ building' = [building EXCEPT !.captures = WithCapture(v, Frame.captures[v])]
      /\ UNCHANGED <<mem, top, frames, upvalues, open, closures, nvars>>
  BY DEF CopyUpvalue, IInv
<1>2. frames # << >> /\ v \in DOMAIN Frame.captures
  BY DEF Captured
<1>3. Frame.captures \in Captures(DOMAIN upvalues)
  BY <1>1, <1>2, FrameLayout
<1>4. Frame.captures[v] \in DOMAIN upvalues /\ v \in Variable \cup {NoVariable}
  BY <1>2, <1>3 DEF Captures
<1>5. /\ building' \in [active : BOOLEAN, global : BOOLEAN,
                        captures : Captures(DOMAIN upvalues)]
  BY <1>1, <1>4, WithCaptureType DEF TypeOK
<1>6. building'.active = building.active /\ building'.global = building.global
  BY <1>1 DEF TypeOK
<1>7. TypeOK'
  BY <1>1, <1>5 DEF TypeOK
<1>8. StackMatchesLocals'
  BY <1>1, <1>6 DEF StackMatchesLocals, Frame
<1>9. QED
  BY <1>1, <1>7, <1>8, SameListSorted DEF IInv

LEMMA ClosureDoneKeeps == ASSUME IInv, ClosureDone PROVE IInv'
<1>1. /\ building.active /\ TypeOK /\ StackMatchesLocals /\ OpenListSorted
      /\ closures' = closures \cup {building.captures}
      /\ building' = [active |-> FALSE, global |-> FALSE, captures |-> NoCaptures]
      /\ top' = IF building.global THEN top - 1 ELSE top
      /\ UNCHANGED <<mem, frames, upvalues, open, nvars>>
  BY DEF ClosureDone, IInv
<1>2. frames # << >>
  BY <1>1 DEF StackMatchesLocals
<1>3. /\ Frame.slots \in Nat /\ Len(Frame.locals) \in Nat \ {0} /\ top \in Slots
      /\ top = Frame.slots + Len(Frame.locals)
                 + (IF building.active /\ building.global THEN 1 ELSE 0)
  BY <1>1, <1>2, FrameLayout
<1>4. top' = Frame.slots + Len(Frame.locals)
  BY <1>1, <1>3
<1>5. top' \in 0 .. StackSize - 1
  BY <1>1, <1>3, <1>4 DEF Slots
<1>6. building' \in [active : BOOLEAN, global : BOOLEAN,
                     captures : Captures(DOMAIN upvalues)]
  BY <1>1, BuildingType, NoCapturesType
<1>7. closures' \subseteq Captures(DOMAIN upvalues)
  BY <1>1 DEF TypeOK
<1>8. TypeOK'
  BY <1>1, <1>5, <1>6, <1>7 DEF TypeOK
<1>9. StackMatchesLocals'
  <2>1. building'.active = FALSE /\ frames' = frames /\ Frame' = Frame
    BY <1>1 DEF Frame
  <2>2. QED
    BY <1>1, <1>2, <1>3, <1>4, <2>1 DEF StackMatchesLocals
<1>10. QED
  BY <1>1, <1>8, <1>9, SameListSorted DEF IInv

(* Marking a local captured changes nothing the stack depends on.          *)
LEMMA MarkCaptured ==
  ASSUME TypeOK, StackMatchesLocals, NEW i \in LocalIndex,
         SetFrame([Frame EXCEPT !.locals[i].captured = TRUE]),
         top' = top,
         (building'.active /\ building'.global) <=> (building.active /\ building.global)
  PROVE  /\ frames' \in Seq(FrameRecord(DOMAIN upvalues))
         /\ StackMatchesLocals'
<1> DEFINE l == [Frame.locals[i] EXCEPT !.captured = TRUE]
           ls == [Frame.locals EXCEPT ![i] = l]
           f == [Frame EXCEPT !.locals = ls]
<1>1. frames # << >> /\ i \in 2 .. Len(Frame.locals)
  BY DEF LocalIndex
<1>2. /\ Frame \in FrameRecord(DOMAIN upvalues)
      /\ Frame.locals \in Seq(LocalRecord) /\ Len(Frame.locals) \in Nat \ {0}
      /\ Frame.locals[1].depth = 0
      /\ top = Frame.slots + Len(Frame.locals)
                 + (IF building.active /\ building.global THEN 1 ELSE 0)
  BY <1>1, FrameLayout, FrameType
<1>3. i \in 1 .. Len(Frame.locals) /\ i # 1
  BY <1>1, <1>2
<1>4. l \in LocalRecord
  <2>1. Frame.locals[i] \in LocalRecord
    BY <1>2, <1>3, ElementOfSeq
  <2>2. QED
    BY <2>1 DEF LocalRecord
<1>5. /\ ls \in Seq(LocalRecord) /\ Len(ls) = Len(Frame.locals)
      /\ ls[1] = Frame.locals[1]
  <2> HIDE DEF l
  <2>1. 1 \in 1 .. Len(Frame.locals)
    BY <1>2
  <2>2. QED
    BY <1>2, <1>3, <1>4, <2>1, ExceptSeq
<1>6. SetFrame(f)
  OBVIOUS
<1> HIDE DEF l, ls
<1>7. /\ f \in FrameRecord(DOMAIN upvalues) /\ f.slots = Frame.slots
      /\ f.locals = ls
  BY <1>2, <1>5 DEF FrameRecord
<1> HIDE DEF f
<1>8. f.locals # << >> /\ f.locals[1].depth = 0
  BY <1>2, <1>5, <1>7
<1>9. top' = f.slots + Len(f.locals)
               + (IF building'.active /\ building'.global THEN 1 ELSE 0)
  BY <1>2, <1>5, <1>7
<1>10. QED
  BY <1>1, <1>6, <1>7, <1>8, <1>9, SetFrameType, SetFrameLayout

LEMMA ClosureSkippedKeeps ==
  ASSUME IInv, NEW i \in LocalIndex, ClosureSkipped(i) PROVE IInv'
<1>1. /\ TypeOK /\ StackMatchesLocals /\ OpenListSorted
      /\ SetFrame([Frame EXCEPT !.locals[i].captured = TRUE])
      /\ UNCHANGED <<mem, top, upvalues, open, building, closures, nvars>>
  BY DEF ClosureSkipped, IInv
<1>2. frames' \in Seq(FrameRecord(DOMAIN upvalues)) /\ StackMatchesLocals'
  BY <1>1, MarkCaptured
<1>3. TypeOK'
  BY <1>1, <1>2 DEF TypeOK
<1>4. QED
  BY <1>1, <1>2, <1>3, SameListSorted DEF IInv

(* vm::capture_value links the new upvalue in where the walk stopped, which *)
(* keeps the list sorted when no open upvalue has the slot yet.            *)
LEMMA LinkInSorted ==
  ASSUME TypeOK, OpenListSorted, NEW slot \in Slots, NEW pos \in 1 .. Len(open) + 1,
         ScanStopsAt(slot, pos),
         ~ (pos <= Len(open) /\ upvalues[open[pos]].location = slot),
         LinkIn(slot, pos)
  PROVE  /\ upvalues' \in Seq(UpvalueRecord)
         /\ DOMAIN upvalues' = DOMAIN upvalues \cup {Len(upvalues) + 1}
         /\ open' \in Seq(DOMAIN upvalues')
         /\ OpenListSorted'
<1> DEFINE fresh == Len(upvalues) + 1
           rec == [location |-> slot, closed |-> Null]
<1>1. /\ upvalues \in Seq(UpvalueRecord) /\ Len(upvalues) \in Nat
      /\ DOMAIN upvalues = 1 .. Len(upvalues)
      /\ open \in Seq(DOMAIN upvalues) /\ Len(open) \in Nat
      /\ DOMAIN open = 1 .. Len(open)
  BY LenProperties DEF TypeOK
<1>2. rec \in UpvalueRecord
  BY DEF UpvalueRecord, Cells
<1>3. /\ upvalues' \in Seq(UpvalueRecord)
      /\ DOMAIN upvalues' = DOMAIN upvalues \cup {fresh}
      /\ \A u \in DOMAIN upvalues : upvalues'[u] = upvalues[u]
      /\ upvalues'[fresh] = rec
      /\ fresh \notin DOMAIN upvalues
  <2> HIDE DEF rec
  <2>1. upvalues' = Append(upvalues, rec)
    BY DEF rec, LinkIn
  <2>2. QED
    BY <1>1, <1>2, <2>1
<1>4. /\ open' \in Seq(DOMAIN upvalues') /\ DOMAIN open' = 1 .. (Len(open) + 1)
      /\ \A i \in 1 .. (Len(open) + 1) :
           open'[i] = IF i < pos THEN open[i] ELSE IF i = pos THEN fresh ELSE open[i - 1]
  <2> DEFINE Ids == DOMAIN upvalues'
  <2>1. open \in Seq(Ids) /\ fresh \in Ids
    BY <1>1, <1>3, SeqMonotonic
  <2>2. open' = InsertAt(open, pos, fresh)
    BY DEF LinkIn
  <2> HIDE DEF Ids, fresh
  <2> DEFINE t == InsertAt(open, pos, fresh)
  <2>3. pos \in 1 .. Len(open) + 1
    OBVIOUS
  <2>4. t \in Seq(Ids) /\ DOMAIN t = 1 .. Len(open) + 1
    <3>1. t \in Seq(Ids)
      BY <2>1, <2>3, InsertAtProperties
    <3>2. DOMAIN t = 1 .. Len(open) + 1
      BY <2>1, <2>3, InsertAtProperties
    <3>3. QED
      BY <3>1, <3>2
  <2>5. \A i \in 1 .. Len(open) + 1 :
          t[i] = IF i < pos THEN open[i] ELSE IF i = pos THEN fresh ELSE open[i - 1]
    BY <2>1, <2>3, InsertAtProperties
  <2> HIDE DEF t
  <2>6. QED
    BY <2>2, <2>4, <2>5 DEF Ids, t
<1> HIDE DEF fresh
<1>5. \A i \in 1 .. Len(open) :
        /\ open[i] \in DOMAIN upvalues /\ upvalues[open[i]].location \in Int
        /\ upvalues'[open[i]].location = upvalues[open[i]].location
  BY <1>1, <1>3, ElementOfSeq, LocationType
<1>6. slot \in Int /\ upvalues'[fresh].location = slot /\ slot # Self
  BY <1>3 DEF Slots, Self
<1>7. \A i \in 1 .. Len(open) :
        IF i < pos THEN upvalues[open[i]].location > slot
                   ELSE upvalues[open[i]].location < slot
  <2> SUFFICES ASSUME NEW i \in 1 .. Len(open)
               PROVE  IF i < pos THEN upvalues[open[i]].location > slot
                                 ELSE upvalues[open[i]].location < slot
    OBVIOUS
  <2>1. CASE i < pos
    <3>1. i \in 1 .. pos - 1
      BY <1>1, <2>1
    <3>2. QED
      BY <2>1, <3>1 DEF ScanStopsAt
  <2>2. CASE ~ (i < pos)
    <3>1. pos \in 1 .. Len(open) /\ pos <= i
      BY <1>1, <2>2
    <3>2. upvalues[open[pos]].location < slot
      BY <1>1, <1>5, <1>6, <3>1 DEF ScanStopsAt
    <3>3. i # pos => upvalues[open[pos]].location > upvalues[open[i]].location
      BY <1>1, <3>1 DEF OpenListSorted
    <3>4. QED
      BY <1>5, <1>6, <2>2, <3>1, <3>2, <3>3
  <2>3. QED
    BY <2>1, <2>2
<1>8. ASSUME NEW i \in DOMAIN open', NEW j \in DOMAIN open', i < j
      PROVE  upvalues'[open'[i]].location > upvalues'[open'[j]].location
  <2>1. i \in 1 .. (Len(open) + 1) /\ j \in 1 .. (Len(open) + 1) /\ i \in Int /\ j \in Int
    BY <1>1, <1>4
  <2>2. CASE i < pos /\ j < pos
    <3>1. i \in 1 .. Len(open) /\ j \in 1 .. Len(open)
      BY <1>1, <2>1, <2>2
    <3>2. open'[i] = open[i] /\ open'[j] = open[j]
      BY <1>4, <2>1, <2>2
    <3>3. QED
      BY <1>1, <1>5, <1>8, <3>1, <3>2 DEF OpenListSorted
  <2>3. CASE i < pos /\ j = pos
    <3>1. i \in 1 .. Len(open)
      BY <1>1, <2>1, <2>3
    <3>2. open'[i] = open[i] /\ open'[j] = fresh
      BY <1>4, <2>1, <2>3
    <3>3. QED
      BY <1>5, <1>6, <1>7, <2>3, <3>1, <3>2
  <2>4. CASE i < pos /\ j > pos
    <3>1. /\ i \in 1 .. Len(open) /\ j - 1 \in 1 .. Len(open) /\ i < j - 1
      BY <1>1, <2>1, <2>4
    <3>2. open'[i] = open[i] /\ open'[j] = open[j - 1]
      BY <1>4, <2>1, <2>4
    <3>3. QED
      BY <1>1, <1>5, <3>1, <3>2 DEF OpenListSorted
  <2>5. CASE i = pos
    <3>1. j - 1 \in 1 .. Len(open) /\ ~ (j - 1 < pos)
      BY <1>1, <1>8, <2>1, <2>5
    <3>2. open'[i] = fresh /\ open'[j] = open[j - 1]
      BY <1>4, <1>8, <2>1, <2>5
    <3>3. upvalues[open[j - 1]].location < slot
      BY <1>7, <3>1
    <3>4. QED
      BY <1>5, <1>6, <3>1, <3>2, <3>3
  <2>6. CASE i > pos
    <3>1. i - 1 \in 1 .. Len(open) /\ j - 1 \in 1 .. Len(open) /\ i - 1 < j - 1
      BY <1>1, <1>8, <2>1, <2>6
    <3>2. open'[i] = open[i - 1] /\ open'[j] = open[j - 1]
      BY <1>4, <1>8, <2>1, <2>6
    <3>3. QED
      BY <1>1, <1>5, <3>1, <3>2 DEF OpenListSorted
  <2>7. QED
    BY <1>8, <2>1, <2>2, <2>3, <2>4, <2>5, <2>6
<1>9. ASSUME NEW u \in DOMAIN upvalues'
      PROVE  (upvalues'[u].location # Self) <=> \E i \in DOMAIN open' : open'[i] = u
  <2>1. CASE u = fresh
    <3>1. pos \in DOMAIN open' /\ open'[pos] = u
      BY <1>1, <1>4, <2>1
    <3>2. QED
      BY <1>6, <2>1, <3>1
  <2>2. CASE u \in DOMAIN upvalues
    <3>1. upvalues'[u] = upvalues[u] /\ u # fresh
      BY <1>3, <2>2
    <3>2. ASSUME NEW i \in DOMAIN open, open[i] = u
          PROVE  \E j \in DOMAIN open' : open'[j] = u
      <4>1. CASE i < pos
        <5>1. i \in 1 .. (Len(open) + 1)
          BY <1>1
        <5>2. QED
          BY <1>4, <3>2, <4>1, <5>1
      <4>2. CASE ~ (i < pos)
        <5>1. i + 1 \in 1 .. (Len(open) + 1) /\ ~ (i + 1 < pos) /\ i + 1 # pos
          BY <1>1, <4>2
        <5>2. open'[i + 1] = open[i]
          BY <1>1, <1>4, <5>1
        <5>3. QED
          BY <1>4, <3>2, <5>1, <5>2
      <4>3. QED
        BY <4>1, <4>2
    <3>3. ASSUME NEW j \in DOMAIN open', open'[j] = u
          PROVE  \E i \in DOMAIN open : open[i] = u
      <4>1. CASE j < pos
        <5>1. j \in DOMAIN open /\ open[j] = u
          BY <1>1, <1>4, <3>3, <4>1
        <5>2. QED
          BY <5>1
      <4>2. CASE j > pos
        <5>1. j - 1 \in DOMAIN open /\ open[j - 1] = u
          BY <1>1, <1>4, <3>3, <4>2
        <5>2. QED
          BY <5>1
      <4>3. j # pos /\ j \in Int
        BY <1>1, <1>4, <3>1, <3>3
      <4>4. QED
        BY <4>1, <4>2, <4>3
    <3>4. QED
      BY <2>2, <3>1, <3>2, <3>3 DEF OpenListSorted
  <2>3. QED
    BY <1>3, <2>1, <2>2
<1>10. OpenListSorted'
  BY <1>8, <1>9 DEF OpenListSorted
<1>11. QED
  BY <1>3, <1>4, <1>10 DEF fresh

LEMMA CaptureLocalKeeps ==
  ASSUME IInv, NEW i \in LocalIndex, CaptureLocal(i) PROVE IInv'
<1> DEFINE v == Frame.locals[i].var
           slot == SlotOf(Frame, i)
<1>1. /\ TypeOK /\ StackMatchesLocals /\ OpenListSorted
      /\ building.active
      /\ SetFrame([Frame EXCEPT !.locals[i].captured = TRUE])
      /\ UNCHANGED <<mem, top, closures, nvars>>
  BY DEF CaptureLocal, IInv
<1>2. PICK pos \in 1 .. Len(open) + 1 :
        /\ ScanStopsAt(slot, pos)
        /\ IF pos <= Len(open) /\ upvalues[open[pos]].location = slot
           THEN /\ building' = [building EXCEPT !.captures = WithCapture(v, open[pos])]
                /\ UNCHANGED <<upvalues, open>>
           ELSE /\ LinkIn(slot, pos)
                /\ building' = [building EXCEPT !.captures =
                                  WithCapture(v, Len(upvalues) + 1)]
  BY DEF CaptureLocal
<1>3. frames # << >> /\ slot \in Slots /\ v \in Variable \cup {NoVariable}
  <2>1. frames # << >> /\ i \in DOMAIN Frame.locals /\ slot \in Slots
    BY <1>1, LocalSlot
  <2>2. Frame.locals \in Seq(LocalRecord) /\ DOMAIN Frame.locals = 1 .. Len(Frame.locals)
    BY <1>1, <2>1, FrameLayout
  <2>3. Frame.locals[i] \in LocalRecord
    BY <2>1, <2>2, ElementOfSeq
  <2>4. QED
    BY <2>1, <2>3 DEF LocalRecord
<1> HIDE DEF v, slot
<1>4. /\ upvalues' \in Seq(UpvalueRecord)
      /\ DOMAIN upvalues \subseteq DOMAIN upvalues'
      /\ open' \in Seq(DOMAIN upvalues')
      /\ OpenListSorted'
      /\ \E u \in DOMAIN upvalues' :
           building' = [building EXCEPT !.captures = WithCapture(v, u)]
  <2>1. CASE pos <= Len(open) /\ upvalues[open[pos]].location = slot
    <3>1. open \in Seq(DOMAIN upvalues) /\ Len(open) \in Nat
      BY <1>1, LenProperties DEF TypeOK
    <3>2. pos \in 1 .. Len(open)
      BY <2>1, <3>1
    <3>3. open[pos] \in DOMAIN upvalues
      BY <3>1, <3>2, ElementOfSeq
    <3>4. OpenListSorted'
      BY <1>1, <1>2, <2>1, SameListSorted
    <3>5. QED
      BY <1>1, <1>2, <2>1, <3>3, <3>4 DEF TypeOK
  <2>2. CASE ~ (pos <= Len(open) /\ upvalues[open[pos]].location = slot)
    <3>1. /\ upvalues' \in Seq(UpvalueRecord)
          /\ DOMAIN upvalues' = DOMAIN upvalues \cup {Len(upvalues) + 1}
          /\ open' \in Seq(DOMAIN upvalues')
          /\ OpenListSorted'
      BY <1>1, <1>2, <1>3, <2>2, LinkInSorted
    <3>2. building' = [building EXCEPT !.captures = WithCapture(v, Len(upvalues) + 1)]
      BY <1>2, <2>2
    <3>3. QED
      BY <3>1, <3>2
  <2>3. QED
    BY <2>1, <2>2
<1>5. /\ building' \in [active : BOOLEAN, global : BOOLEAN,
                        captures : Captures(DOMAIN upvalues')]
  <2>1. PICK u \in DOMAIN upvalues' :
          building' = [building EXCEPT !.captures = WithCapture(v, u)]
    BY <1>4
  <2>2. building \in [active : BOOLEAN, global : BOOLEAN,
                      captures : Captures(DOMAIN upvalues)]
    BY <1>1 DEF TypeOK
  <2>3. [building EXCEPT !.captures = WithCapture(v, u)]
          \in [active : BOOLEAN, global : BOOLEAN, captures : Captures(DOMAIN upvalues')]
    BY <1>3, <1>4, <2>2, WithCaptureType
  <2>4. QED
    BY <2>1, <2>3
<1>6. building'.active = building.active /\ building'.global = building.global
  BY <1>1, <1>4 DEF TypeOK
<1>7. frames' \in Seq(FrameRecord(DOMAIN upvalues)) /\ StackMatchesLocals'
  BY <1>1, <1>6, MarkCaptured
<1>8. frames' \in Seq(FrameRecord(DOMAIN upvalues'))
  BY <1>4, <1>7, FramesMonotonic
<1>9. closures' \subseteq Captures(DOMAIN upvalues')
  BY <1>1, <1>4, CapturesMonotonic DEF TypeOK
<1>10. TypeOK'
  BY <1>1, <1>4, <1>5, <1>8, <1>9 DEF TypeOK
<1>11. QED
  BY <1>4, <1>7, <1>10 DEF IInv

(* The locals a callee starts with: itself and its arguments.              *)
LEMMA ArgumentLocals ==
  ASSUME NEW n \in Nat, NEW m \in Nat, m + n <= MaxVariables
  PROVE  LET ls == <<Callee>> \o [i \in 1 .. n |-> Local(m + i, 1)] IN
         /\ ls \in Seq(LocalRecord) /\ Len(ls) = n + 1 /\ ls[1] = Callee
         /\ \A i \in 1 .. n : ls[i + 1] = Local(m + i, 1)
<1> DEFINE as == [i \in 1 .. n |-> Local(m + i, 1)]
<1>1. Callee \in LocalRecord
  BY DEF Callee, Local, LocalRecord
<1>2. ASSUME NEW i \in 1 .. n PROVE Local(m + i, 1) \in LocalRecord
  <2>1. m + i \in Variable /\ 1 \in 0 .. MaxDepth
    BY DEF Variable
  <2>2. QED
    BY <2>1 DEF Local, LocalRecord
<1>3. /\ as \in [1 .. n -> LocalRecord]
      /\ \A i \in 1 .. n : as[i] = Local(m + i, 1)
  BY <1>2
<1> HIDE DEF as
<1>4. as \in Seq(LocalRecord) /\ Len(as) = n
  BY <1>3, FunctionIsSeq
<1>5. /\ <<Callee>> \in Seq(LocalRecord) /\ Len(<<Callee>>) = 1
      /\ <<Callee>>[1] = Callee
  BY <1>1
<1>6. <<Callee>> \o as \in Seq(LocalRecord)
  BY <1>4, <1>5, ConcatProperties
<1>7. Len(<<Callee>> \o as) = n + 1
  <2>1. Len(<<Callee>> \o as) = Len(<<Callee>>) + Len(as)
    BY <1>4, <1>5, ConcatProperties
  <2>2. Len(<<Callee>>) = 1 /\ Len(as) = n /\ 1 + n = n + 1
    BY <1>4, <1>5
  <2>3. QED
    BY <2>1, <2>2, Zenon
<1>8. (<<Callee>> \o as)[1] = Callee
  <2>1. 1 \in 1 .. Len(<<Callee>>) + Len(as) /\ 1 <= Len(<<Callee>>)
    BY <1>4, <1>5
  <2>2. QED
    BY <1>4, <1>5, <2>1, ConcatProperties
<1>9. ASSUME NEW i \in 1 .. n PROVE (<<Callee>> \o as)[i + 1] = Local(m + i, 1)
  <2>1. i + 1 \in 1 .. Len(<<Callee>>) + Len(as) /\ ~ (i + 1 <= Len(<<Callee>>))
    BY <1>4, <1>5
  <2>2. (<<Callee>> \o as)[i + 1] = as[(i + 1) - Len(<<Callee>>)]
    BY <1>4, <1>5, <2>1, ConcatProperties
  <2>3. (i + 1) - Len(<<Callee>>) = i
    BY <1>5
  <2>4. QED
    BY <1>3, <2>2, <2>3
<1>10. QED
  BY <1>6, <1>7, <1>8, <1>9 DEF as

(* A frame pushed at the top of the stack keeps the frames back to back.   *)
LEMMA PushFrameLayout ==
  ASSUME TypeOK, StackMatchesLocals, Idle, UNCHANGED building,
         NEW f \in FrameRecord(DOMAIN upvalues), frames' = Append(frames, f),
         f.slots = top, f.locals # << >>, f.locals[1].depth = 0,
         top' = top + Len(f.locals)
  PROVE  /\ frames' \in Seq(FrameRecord(DOMAIN upvalues))
         /\ StackMatchesLocals'
<1>1. /\ frames # << >> /\ ~ building.active
      /\ frames \in Seq(FrameRecord(DOMAIN upvalues))
  BY DEF Idle, TypeOK
<1>2. /\ Len(frames) \in Nat \ {0} /\ DOMAIN frames = 1 .. Len(frames)
  BY <1>1, FrameType
<1>3. /\ frames' \in Seq(FrameRecord(DOMAIN upvalues))
      /\ Len(frames') = Len(frames) + 1
      /\ DOMAIN frames' = 1 .. Len(frames) + 1
      /\ \A n \in 1 .. Len(frames) : frames'[n] = frames[n]
      /\ frames'[Len(frames) + 1] = f
  BY <1>1, <1>2
<1>4. frames' # << >>
  BY <1>2, <1>3
<1>5. top = Frame.slots + Len(Frame.locals)
  BY <1>1, FrameLayout
<1>6. ASSUME NEW n \in DOMAIN frames'
      PROVE  /\ frames'[n].locals # << >> /\ frames'[n].locals[1].depth = 0
             /\ frames'[n].slots =
                  IF n = 1 THEN 0 ELSE frames'[n - 1].slots + Len(frames'[n - 1].locals)
  <2>1. CASE n = Len(frames) + 1
    <3>1. frames'[n] = f /\ frames'[n - 1] = Frame /\ n # 1
      <4>1. /\ n - 1 = Len(frames) /\ Len(frames) \in 1 .. Len(frames) /\ n # 1
        BY <1>2, <2>1
      <4>2. QED
        BY <1>3, <2>1, <4>1 DEF Frame
    <3>2. QED
      BY <1>5, <3>1
  <2>2. CASE n # Len(frames) + 1
    <3>1. n \in DOMAIN frames /\ frames'[n] = frames[n]
      BY <1>2, <1>3, <2>2
    <3>2. n # 1 => frames'[n - 1] = frames[n - 1]
      BY <1>2, <1>3, <3>1
    <3>3. QED
      BY <3>1, <3>2 DEF StackMatchesLocals
  <2>3. QED
    BY <2>1, <2>2
<1>7. Frame' = f
  BY <1>2, <1>3 DEF Frame
<1>8. top' = Frame'.slots + Len(Frame'.locals)
               + (IF building'.active /\ building'.global THEN 1 ELSE 0)
  <2>1. f.locals \in Seq(LocalRecord) /\ Len(f.locals) \in Nat /\ top \in Nat
    BY LenProperties DEF FrameRecord, TypeOK
  <2>2. ~ (building'.active /\ building'.global)
    BY <1>1
  <2>3. QED
    BY <1>7, <2>1, <2>2
<1>9. QED
  BY <1>1, <1>3, <1>4, <1>6, <1>8 DEF StackMatchesLocals

LEMMA CallKeeps ==
  ASSUME IInv, NEW c \in closures, NEW args \in Arguments, Call(c, args) PROVE IInv'
<1> DEFINE n == Len(args)
           ls == <<Callee>> \o [i \in 1 .. n |-> Local(nvars + i, 1)]
           f == CallFrame(top, ls, c)
<1>1. /\ TypeOK /\ StackMatchesLocals /\ OpenListSorted /\ Idle
      /\ Room(1 + n) /\ nvars + n <= MaxVariables
      /\ mem' = [s \in Slots |->
           IF s = top THEN Fun
           ELSE IF s \in top + 1 .. top + n THEN args[s - top] ELSE mem[s]]
      /\ top' = top + 1 + n /\ nvars' = nvars + n
      /\ frames' = Append(frames, f)
      /\ UNCHANGED <<upvalues, open, building, closures>>
  BY DEF Call, IInv
<1>2. n \in Nat /\ args \in Seq(Values) /\ \A i \in 1 .. n : args[i] \in Values
  <2>1. CASE args = << >>
    BY <2>1
  <2>2. ASSUME NEW x \in Values, args = <<x>>
        PROVE  n \in Nat /\ args \in Seq(Values) /\ \A i \in 1 .. n : args[i] \in Values
    BY <2>2
  <2>3. QED
    BY <2>1, <2>2 DEF Arguments
<1> HIDE DEF n
<1>3. top \in Nat /\ nvars \in Nat /\ top \in Slots /\ c \in Captures(DOMAIN upvalues)
  BY <1>1 DEF TypeOK, Slots
<1>4. ls \in Seq(LocalRecord) /\ Len(ls) = n + 1 /\ ls[1] = Callee
  BY <1>1, <1>2, <1>3, ArgumentLocals
<1> HIDE DEF ls
<1>5. /\ f.slots = top /\ f.locals = ls
      /\ f \in FrameRecord(DOMAIN upvalues)
  BY <1>3, <1>4 DEF CallFrame, FrameRecord
<1> HIDE DEF f
<1>6. f.locals # << >> /\ f.locals[1].depth = 0
  <2>1. Callee.depth = 0
    BY DEF Callee, Local
  <2>2. ls # << >>
    BY <1>2, <1>4
  <2>3. QED
    BY <1>4, <1>5, <2>1, <2>2
<1>7. top' = top + Len(f.locals)
  <2>1. top' = top + 1 + n
    BY <1>1
  <2>2. Len(f.locals) = n + 1
    BY <1>4, <1>5
  <2>3. QED
    BY <1>2, <1>3, <2>1, <2>2
<1>8. frames' \in Seq(FrameRecord(DOMAIN upvalues)) /\ StackMatchesLocals'
  BY <1>1, <1>5, <1>6, <1>7, PushFrameLayout
<1>9. mem' \in [Slots -> Cells]
  <2>1. ASSUME NEW s \in Slots
        PROVE  (IF s = top THEN Fun
                ELSE IF s \in top + 1 .. top + n THEN args[s - top] ELSE mem[s]) \in Cells
    <3>1. s \in Int /\ mem[s] \in Cells
      BY <1>1 DEF TypeOK, Slots
    <3>2. s \in top + 1 .. top + n => s - top \in 1 .. n
      BY <1>2, <1>3, <3>1
    <3>3. QED
      BY <1>2, <3>1, <3>2 DEF Cells
  <2>2. QED
    BY <1>1, <2>1
<1>10. top' \in 0 .. StackSize - 1 /\ nvars' \in 0 .. MaxVariables
  BY <1>1, <1>2, <1>3 DEF Room
<1>11. TypeOK'
  BY <1>1, <1>8, <1>9, <1>10 DEF TypeOK
<1>12. QED
  BY <1>1, <1>8, <1>11, SameListSorted DEF IInv

LEMMA OpReturnKeeps ==
  ASSUME IInv, NEW x \in Results, OpReturn(x) PROVE IInv'
<1> DEFINE pushed == [mem EXCEPT ![top] = x]
<1>1. /\ TypeOK /\ StackMatchesLocals /\ OpenListSorted
      /\ Idle /\ CloseUpvalue(Frame.slots, pushed)
      /\ top' = Frame.slots
      /\ frames' = SubSeq(frames, 1, Len(frames) - 1)
      /\ mem' = IF Len(frames) = 1 THEN pushed ELSE [pushed EXCEPT ![Frame.slots] = x]
      /\ UNCHANGED <<building, closures, nvars>>
  BY DEF OpReturn, IInv
<1>2. frames # << >> /\ ~ building.active /\ x \in Cells
  BY <1>1 DEF Idle, Cells
<1>3. Frame.slots \in Slots /\ Frame.slots \in Nat
  BY <1>1, <1>2, FrameLayout
<1>4. pushed \in [Slots -> Cells] /\ mem' \in [Slots -> Cells]
  BY <1>1, <1>2 DEF TypeOK
<1>5. /\ upvalues' \in Seq(UpvalueRecord) /\ DOMAIN upvalues' = DOMAIN upvalues
      /\ open' \in Seq(DOMAIN upvalues) /\ OpenListSorted'
  <2> HIDE DEF pushed
  <2>1. Frame.slots \in Int
    BY <1>3
  <2>2. QED
    BY <1>1, <1>4, <2>1, CloseUpvalueType, CloseUpvalueSorted
<1> HIDE DEF pushed
<1>6. /\ frames' \in Seq(FrameRecord(DOMAIN upvalues))
      /\ Len(frames') = Len(frames) - 1 /\ DOMAIN frames' = 1 .. Len(frames) - 1
      /\ \A n \in 1 .. Len(frames) - 1 : frames'[n] = frames[n]
  <2>1. Len(frames) - 1 \in 0 .. Len(frames)
    BY <1>1, <1>2, FrameType
  <2>2. frames \in Seq(FrameRecord(DOMAIN upvalues))
    BY <1>1 DEF TypeOK
  <2>3. QED
    BY <1>1, <2>1, <2>2, TakePrefix
<1>7. /\ Len(frames) \in Nat \ {0} /\ DOMAIN frames = 1 .. Len(frames)
  BY <1>1, <1>2, FrameType
<1>8. StackMatchesLocals'
  <2>1. \A n \in DOMAIN frames' :
          /\ frames'[n].locals # << >> /\ frames'[n].locals[1].depth = 0
          /\ frames'[n].slots =
               IF n = 1 THEN 0 ELSE frames'[n - 1].slots + Len(frames'[n - 1].locals)
    <3> SUFFICES ASSUME NEW n \in DOMAIN frames'
                 PROVE  /\ frames'[n].locals # << >> /\ frames'[n].locals[1].depth = 0
                        /\ frames'[n].slots =
                             IF n = 1 THEN 0
                             ELSE frames'[n - 1].slots + Len(frames'[n - 1].locals)
      OBVIOUS
    <3>1. n \in DOMAIN frames /\ frames'[n] = frames[n]
      BY <1>6, <1>7
    <3>2. n # 1 => frames'[n - 1] = frames[n - 1]
      BY <1>6, <1>7
    <3>3. QED
      BY <1>1, <3>1, <3>2 DEF StackMatchesLocals
  <2>2. CASE Len(frames) = 1
    <3>1. frames' = << >> /\ Frame.slots = 0
      BY <1>1, <1>6, <1>7, <2>2, EmptySeq DEF StackMatchesLocals, Frame
    <3>2. ~ building'.active
      BY <1>1, <1>2
    <3>3. QED
      BY <1>1, <2>1, <3>1, <3>2 DEF StackMatchesLocals
  <2>3. CASE Len(frames) # 1
    <3>1. /\ Len(frames) \in DOMAIN frames
          /\ Len(frames) - 1 \in 1 .. Len(frames) - 1
          /\ frames' # << >>
      BY <1>6, <1>7, <2>3
    <3>2. Frame' = frames[Len(frames) - 1]
      BY <1>6, <3>1 DEF Frame
    <3>3. Frame.slots = Frame'.slots + Len(Frame'.locals)
      BY <1>1, <2>3, <3>1, <3>2 DEF StackMatchesLocals, Frame
    <3>4. ~ (building'.active /\ building'.global)
      BY <1>1, <1>2
    <3>5. Frame'.slots + Len(Frame'.locals)
            + (IF building'.active /\ building'.global THEN 1 ELSE 0) = Frame.slots
      BY <1>3, <3>3, <3>4
    <3>6. QED
      BY <1>1, <1>2, <2>1, <3>1, <3>5 DEF StackMatchesLocals
  <2>4. QED
    BY <2>2, <2>3
<1>9. top' \in 0 .. StackSize - 1
  BY <1>1, <1>3 DEF Slots
<1>10. TypeOK'
  BY <1>1, <1>4, <1>5, <1>6, <1>9 DEF TypeOK
<1>11. QED
  BY <1>5, <1>8, <1>10 DEF IInv

LEMMA InterpretKeeps == ASSUME IInv, Interpret PROVE IInv'
<1>1. /\ TypeOK /\ StackMatchesLocals /\ OpenListSorted
      /\ mem' = [mem EXCEPT ![0] = Fun] /\ top' = 1 /\ frames' = <<ScriptFrame>>
      /\ UNCHANGED <<upvalues, open, building, closures, nvars>>
      /\ ~ building.active
  BY DEF Interpret, IInv, Idle, StackMatchesLocals
<1>2. ScriptFrame \in FrameRecord(DOMAIN upvalues)
  <2>1. Callee \in LocalRecord
    BY DEF Callee, Local, LocalRecord
  <2>2. QED
    BY <2>1, NoCapturesType DEF ScriptFrame, CallFrame, FrameRecord, Slots
<1>3. frames' \in Seq(FrameRecord(DOMAIN upvalues))
  BY <1>1, <1>2
<1>4. mem' \in [Slots -> Cells]
  BY <1>1 DEF TypeOK, Cells
<1>5. top' \in 0 .. StackSize - 1
  BY <1>1
<1>6. TypeOK'
  BY <1>1, <1>3, <1>4, <1>5 DEF TypeOK
<1>7. StackMatchesLocals'
  <2>1. /\ frames' # << >> /\ DOMAIN frames' = {1} /\ frames'[1] = ScriptFrame
        /\ Len(frames') = 1
    BY <1>1
  <2>2. /\ ScriptFrame.slots = 0 /\ ScriptFrame.locals = <<Callee>>
        /\ ScriptFrame.locals # << >> /\ Len(ScriptFrame.locals) = 1
        /\ ScriptFrame.locals[1].depth = 0
    BY DEF ScriptFrame, CallFrame, Callee, Local
  <2>3. Frame' = ScriptFrame
    BY <2>1 DEF Frame
  <2>4. ~ (building'.active /\ building'.global)
    BY <1>1
  <2>5. top' = Frame'.slots + Len(Frame'.locals)
                 + (IF building'.active /\ building'.global THEN 1 ELSE 0)
    <3>1. Frame'.slots = 0 /\ Len(Frame'.locals) = 1
      BY <2>2, <2>3
    <3>2. QED
      BY <1>1, <2>4, <3>1
  <2>6. \A n \in DOMAIN frames' :
          /\ frames'[n].locals # << >> /\ frames'[n].locals[1].depth = 0
          /\ frames'[n].slots =
               IF n = 1 THEN 0 ELSE frames'[n - 1].slots + Len(frames'[n - 1].locals)
    BY <2>1, <2>2
  <2>7. QED
    BY <1>1, <2>1, <2>5, <2>6 DEF StackMatchesLocals
<1>8. QED
  BY <1>1, <1>6, <1>7, SameListSorted DEF IInv

LEMMA StutterKeeps == ASSUME IInv, UNCHANGED vars PROVE IInv'
<1>1. UNCHANGED <<mem, top, frames, upvalues, open, building, closures, nvars>>
  BY DEF vars
<1>2. TypeOK'
  BY <1>1 DEF IInv, TypeOK
<1>3. StackMatchesLocals'
  BY <1>1 DEF IInv, StackMatchesLocals, Frame
<1>4. QED
  BY <1>1, <1>2, <1>3, SameListSorted DEF IInv

LEMMA NextKeeps == IInv /\ [Next]_vars => IInv'
<1> SUFFICES ASSUME IInv, [Next]_vars PROVE IInv'
  OBVIOUS
<1>1. CASE UNCHANGED vars
  BY <1>1, StutterKeeps
<1>2. CASE Next
  <2>1. ASSUME NEW x \in Values, Let(x) PROVE IInv'
    BY <2>1, LetKeeps
  <2>2. ASSUME NEW x \in Results, ExpressionStatement(x) PROVE IInv'
    BY <2>2, ExpressionStatementKeeps
  <2>3. ASSUME NEW i \in LocalIndex, NEW x \in Values, SetLocal(i, x) PROVE IInv'
    BY <2>3, SetLocalKeeps
  <2>4. ASSUME NEW v \in Captured, NEW x \in Values, SetUpvalue(v, x) PROVE IInv'
    BY <2>4, SetUpvalueKeeps
  <2>5. CASE BeginScope
    BY <2>5, BeginScopeKeeps
  <2>6. CASE EndScope
    BY <2>6, EndScopeKeeps
  <2>7. ASSUME NEW d \in OuterDepths, LoopExit(d) PROVE IInv'
    BY <2>7, LoopExitKeeps
  <2>8. ASSUME NEW global \in BOOLEAN, OpClosure(global) PROVE IInv'
    BY <2>8, OpClosureKeeps
  <2>9. ASSUME NEW i \in LocalIndex, CaptureLocal(i) PROVE IInv'
    BY <2>9, CaptureLocalKeeps
  <2>10. ASSUME NEW v \in Captured, CopyUpvalue(v) PROVE IInv'
    BY <2>10, CopyUpvalueKeeps
  <2>11. CASE ClosureDone
    BY <2>11, ClosureDoneKeeps
  <2>12. ASSUME NEW i \in LocalIndex, ClosureSkipped(i) PROVE IInv'
    BY <2>12, ClosureSkippedKeeps
  <2>13. ASSUME NEW c \in closures, NEW args \in Arguments, Call(c, args) PROVE IInv'
    BY <2>13, CallKeeps
  <2>14. ASSUME NEW x \in Results, OpReturn(x) PROVE IInv'
    BY <2>14, OpReturnKeeps
  <2>15. CASE Interpret
    BY <2>15, InterpretKeeps
  <2>16. QED
    BY <1>2, <2>1, <2>2, <2>3, <2>4, <2>5, <2>6, <2>7, <2>8, <2>9, <2>10, <2>11,
       <2>12, <2>13, <2>14, <2>15 DEF Next
<1>3. QED
  BY <1>1, <1>2

-----------------------------------------------------------------------------
(* In every execution of every program each part of the vm keeps its type; *)
(* in particular the stack never runs out of its storage or below empty.   *)
THEOREM TypeCorrect == Spec => []TypeOK
<1>1. IInv => TypeOK
  BY DEF IInv
<1>2. QED
  BY <1>1, InitIInv, NextKeeps, PTL DEF Spec

(* The compiler's index of a local is its slot in every execution of every *)
(* program, whichever way it leaves its scopes and loops.                  *)
THEOREM CompilerAndStackAgree == Spec => []StackMatchesLocals
<1>1. IInv => StackMatchesLocals
  BY DEF IInv
<1>2. QED
  BY <1>1, InitIInv, NextKeeps, PTL DEF Spec

(* The list of open upvalues is strictly descending and complete in every  *)
(* execution of every program: capture_value and close_upvalue may stop at *)
(* the first entry they do not want.                                       *)
THEOREM OpenListStaysSorted == Spec => []OpenListSorted
<1>1. IInv => OpenListSorted
  BY DEF IInv
<1>2. QED
  BY <1>1, InitIInv, NextKeeps, PTL DEF Spec

-----------------------------------------------------------------------------
(* Closing, storing and linking in leave a closed upvalue closed.          *)
LEMMA CloseKeepsClosed ==
  ASSUME NEW slot, NEW m, CloseUpvalue(slot, m),
         NEW u \in DOMAIN upvalues, upvalues[u].location = Self
  PROVE  u \in DOMAIN upvalues' /\ upvalues'[u].location = Self
  BY DEF CloseUpvalue

LEMMA SetUpvalueKeepsClosed ==
  ASSUME IInv, NEW v \in Captured, NEW x \in Values, SetUpvalue(v, x),
         NEW u \in DOMAIN upvalues, upvalues[u].location = Self
  PROVE  u \in DOMAIN upvalues' /\ upvalues'[u].location = Self
<1> DEFINE w == Frame.captures[v]
<1>1. w \in DOMAIN upvalues
  BY FrameLayout, CaptureOf DEF Captured, IInv
<1>2. \/ upvalues' = [upvalues EXCEPT ![w].closed = x]
      \/ UNCHANGED upvalues
  BY DEF SetUpvalue
<1> HIDE DEF w
<1>3. CASE upvalues' = [upvalues EXCEPT ![w].closed = x]
  <2> DEFINE r == [upvalues[w] EXCEPT !.closed = x]
  <2>1. upvalues[w] \in UpvalueRecord
    BY <1>1, LocationType DEF IInv
  <2>2. r.location = upvalues[w].location
    BY <2>1 DEF UpvalueRecord
  <2>3. upvalues' = [upvalues EXCEPT ![w] = r]
    BY <1>3
  <2> HIDE DEF r
  <2>4. u \in DOMAIN upvalues' /\ upvalues'[u] = IF u = w THEN r ELSE upvalues[u]
    BY <2>3
  <2>5. QED
    BY <2>2, <2>4
<1>4. CASE UNCHANGED upvalues
  BY <1>4
<1>5. QED
  BY <1>2, <1>3, <1>4

LEMMA LinkInKeepsClosed ==
  ASSUME TypeOK, NEW slot, NEW pos, LinkIn(slot, pos),
         NEW u \in DOMAIN upvalues, upvalues[u].location = Self
  PROVE  u \in DOMAIN upvalues' /\ upvalues'[u].location = Self
<1> DEFINE rec == [location |-> slot, closed |-> Null]
<1>1. upvalues' = Append(upvalues, rec)
  BY DEF LinkIn
<1>2. /\ upvalues \in Seq(UpvalueRecord) /\ Len(upvalues) \in Nat
      /\ DOMAIN upvalues = 1 .. Len(upvalues)
  BY LenProperties DEF TypeOK
<1> HIDE DEF rec
<1>3. u \in DOMAIN upvalues' /\ upvalues'[u] = upvalues[u]
  BY <1>1, <1>2
<1>4. QED
  BY <1>3

(* A step changes no closed upvalue's location.                            *)
LEMMA NextKeepsClosed ==
  ASSUME IInv, [Next]_vars, NEW u \in DOMAIN upvalues, upvalues[u].location = Self
  PROVE  u \in DOMAIN upvalues' /\ upvalues'[u].location = Self
<1>1. CASE UNCHANGED upvalues
  BY <1>1
<1>2. CASE EndScope
  <2>1. CloseUpvalue(top - 1, mem) \/ UNCHANGED upvalues
    BY <1>2 DEF EndScope
  <2>2. QED
    BY <1>1, <2>1, CloseKeepsClosed
<1>3. ASSUME NEW x \in Results, OpReturn(x)
      PROVE  u \in DOMAIN upvalues' /\ upvalues'[u].location = Self
  <2>1. CloseUpvalue(Frame.slots, [mem EXCEPT ![top] = x])
    BY <1>3 DEF OpReturn
  <2>2. QED
    BY <2>1, CloseKeepsClosed
<1>4. ASSUME NEW v \in Captured, NEW x \in Values, SetUpvalue(v, x)
      PROVE  u \in DOMAIN upvalues' /\ upvalues'[u].location = Self
  BY <1>4, SetUpvalueKeepsClosed
<1>5. ASSUME NEW i \in LocalIndex, CaptureLocal(i)
      PROVE  u \in DOMAIN upvalues' /\ upvalues'[u].location = Self
  <2>1. \/ UNCHANGED upvalues
        \/ \E pos \in 1 .. Len(open) + 1 : LinkIn(SlotOf(Frame, i), pos)
    BY <1>5 DEF CaptureLocal
  <2>2. QED
    BY <1>1, <2>1, LinkInKeepsClosed DEF IInv
<1>6. \/ UNCHANGED upvalues
      \/ EndScope
      \/ \E x \in Results : OpReturn(x)
      \/ \E v \in Captured, x \in Values : SetUpvalue(v, x)
      \/ \E i \in LocalIndex : CaptureLocal(i)
  BY DEF Next, vars, Let, ExpressionStatement, SetLocal, BeginScope, LoopExit,
         OpClosure, CopyUpvalue, ClosureDone, ClosureSkipped, Call, Interpret
<1>7. QED
  BY <1>1, <1>2, <1>3, <1>4, <1>5, <1>6

(* Once its variable has left the stack an upvalue owns the value: no step *)
(* of any program points it into the stack or puts it on the list again.   *)
THEOREM ClosedUpvaluesStayClosed == Spec => ClosedForGood
<1> DEFINE Stays ==
      \A u \in DOMAIN upvalues :
        upvalues[u].location = Self =>
          /\ upvalues'[u].location = Self
          /\ \A i \in DOMAIN open' : open'[i] # u
<1>1. IInv /\ [Next]_vars => Stays
  <2> SUFFICES ASSUME IInv, [Next]_vars,
                      NEW u \in DOMAIN upvalues, upvalues[u].location = Self
               PROVE  /\ upvalues'[u].location = Self
                      /\ \A i \in DOMAIN open' : open'[i] # u
    OBVIOUS
  <2>1. u \in DOMAIN upvalues' /\ upvalues'[u].location = Self
    BY NextKeepsClosed
  <2>2. OpenListSorted'
    BY NextKeeps DEF IInv
  <2>3. QED
    BY <2>1, <2>2 DEF OpenListSorted
<1>2. ClosedForGood <=> [][Stays]_vars
  BY DEF ClosedForGood
<1> HIDE DEF Stays
<1>3. QED
  BY <1>1, <1>2, InitIInv, NextKeeps, PTL DEF Spec
=============================================================================
