---------------------------- MODULE ClosuresProofs ----------------------------
(***************************************************************************)
(* Proofs about Upvalues, on top of the invariant of UpvaluesProofs: that  *)
(* each closure keeps reading the variables it captured, and that slots,   *)
(* frames and upvalue objects together implement the variables of          *)
(* LexicalVariables.                                                       *)
(*                                                                         *)
(* The theorems are about the programs that leave captured locals behind   *)
(* only by returning or as the last local of a block: Exits is at most     *)
(* {"scope"}.  Of the other exits the properties are false, in the code as *)
(* in the model.                                                           *)
(***************************************************************************)
EXTENDS UpvaluesProofs

USE ConstantsAssumption

-----------------------------------------------------------------------------
(***************************************************************************)
(* Closures own their variables.                                           *)
(*                                                                         *)
(* The stack and the closures are looked at as two relations: which slot a *)
(* variable in scope has, and which upvalue captured it.                   *)
(***************************************************************************)

(* Frame f has variable v in slot s, the callee's slot apart.              *)
Holds(f, v, s) ==
  \E i \in 2 .. Len(f.locals) : f.locals[i].var = v /\ SlotOf(f, i) = s

HoldsCaptured(f, v, s) ==
  \E i \in 2 .. Len(f.locals) :
    f.locals[i].var = v /\ SlotOf(f, i) = s /\ f.locals[i].captured

InScope(v, s) == \E n \in DOMAIN frames : Holds(frames[n], v, s)

Marked(v, s) == \E n \in DOMAIN frames : HoldsCaptured(frames[n], v, s)

Caught(v, u) == \E c \in AllCaptures : v \in DOMAIN c /\ c[v] = u

(* The frames climb, whatever lies between two of them.                    *)
FramesClimb ==
  \A m, n \in DOMAIN frames :
    m < n => frames[m].slots + Len(frames[m].locals) <= frames[n].slots

FramesRunClosures ==
  \A n \in DOMAIN frames : frames[n].captures \in closures \cup {NoCaptures}

(* Only what was declared is in scope or captured.                         *)
Declared ==
  /\ \A n \in DOMAIN frames : \A i \in 2 .. Len(frames[n].locals) :
       frames[n].locals[i].var \in 1 .. nvars
  /\ \A c \in AllCaptures : DOMAIN c \subseteq 1 .. nvars

OneSlotEach ==
  \A v, w \in Variable, s, t \in Slots :
    InScope(v, s) /\ InScope(w, t) => ((v = w) <=> (s = t))

OneUpvalueEach ==
  \A v, w \in Variable, u, t \in DOMAIN upvalues :
    Caught(v, u) /\ Caught(w, t) => ((v = w) <=> (u = t))

(* An open upvalue points at its variable; and as long as a variable is in *)
(* scope its upvalue is open, and the compiler knows that it is captured.  *)
UpvaluesPlaced ==
  \A v \in Variable, u \in DOMAIN upvalues :
    Caught(v, u) =>
      /\ upvalues[u].location # Self => InScope(v, upvalues[u].location)
      /\ \A s \in Slots :
           InScope(v, s) => upvalues[u].location = s /\ Marked(v, s)

NeverNull ==
  /\ \A v \in Variable, s \in Slots : InScope(v, s) => mem[s] # Null
  /\ \A v \in Variable, u \in DOMAIN upvalues :
       Caught(v, u) /\ upvalues[u].location = Self => upvalues[u].closed # Null

ClosureInv ==
  /\ FramesClimb
  /\ FramesRunClosures
  /\ Declared
  /\ OneSlotEach
  /\ OneUpvalueEach
  /\ UpvaluesPlaced
  /\ NeverNull

-----------------------------------------------------------------------------
(* Where the locals in scope end on the stack.                             *)
Limit == IF frames = << >> THEN 0 ELSE Frame.slots + Len(Frame.locals)

LEMMA FrameParts ==
  ASSUME TypeOK, StackMatchesLocals, NEW n \in DOMAIN frames
  PROVE  /\ n \in Nat \ {0} /\ n <= Len(frames) /\ Len(frames) \in Nat \ {0}
         /\ DOMAIN frames = 1 .. Len(frames) /\ frames # << >>
         /\ frames[n] \in FrameRecord(DOMAIN upvalues)
         /\ frames[n].slots \in Slots /\ frames[n].slots \in Nat
         /\ frames[n].locals \in Seq(LocalRecord)
         /\ Len(frames[n].locals) \in Nat \ {0}
         /\ DOMAIN frames[n].locals = 1 .. Len(frames[n].locals)
<1>1. frames \in Seq(FrameRecord(DOMAIN upvalues))
  BY DEF TypeOK
<1>2. DOMAIN frames = 1 .. Len(frames) /\ Len(frames) \in Nat
  BY <1>1, LenProperties
<1>3. n \in Nat \ {0} /\ n <= Len(frames) /\ Len(frames) \in Nat \ {0} /\ frames # << >>
  BY <1>2
<1>4. frames[n] \in FrameRecord(DOMAIN upvalues)
  BY <1>1, <1>2, ElementOfSeq
<1>5. /\ frames[n].slots \in Slots /\ frames[n].slots \in Nat
      /\ frames[n].locals \in Seq(LocalRecord)
  BY <1>4 DEF FrameRecord, Slots
<1>6. frames[n].locals # << >>
  BY DEF StackMatchesLocals
<1>7. Len(frames[n].locals) \in Nat \ {0} /\ DOMAIN frames[n].locals = 1 .. Len(frames[n].locals)
  BY <1>5, <1>6, LenProperties, EmptySeq
<1>8. QED
  BY <1>2, <1>3, <1>4, <1>5, <1>7

(* A frame that ends below the limit has its variables below the limit.    *)
LEMMA HoldsRange ==
  ASSUME NEW f, f.slots \in Nat, Len(f.locals) \in Nat, NEW v, NEW s, Holds(f, v, s)
  PROVE  s \in Nat /\ s > f.slots /\ s < f.slots + Len(f.locals)
<1>1. PICK i \in 2 .. Len(f.locals) : SlotOf(f, i) = s
  BY DEF Holds
<1>2. i \in Nat /\ i >= 2 /\ i <= Len(f.locals)
  BY <1>1
<1>3. s = f.slots + i - 1
  BY <1>1 DEF SlotOf
<1>4. QED
  BY <1>2, <1>3

LEMMA LimitRange ==
  ASSUME TypeOK, StackMatchesLocals
  PROVE  /\ Limit \in Nat /\ Limit <= top /\ top \in Nat /\ top <= StackSize - 1
         /\ Idle => Limit = top
         /\ (building.active /\ ~ building.global) => Limit = top
<1>1. CASE frames = << >>
  BY <1>1 DEF Limit, TypeOK, Idle, StackMatchesLocals
<1>2. CASE frames # << >>
  <2>1. /\ Frame.slots \in Nat /\ Len(Frame.locals) \in Nat
        /\ top = Frame.slots + Len(Frame.locals)
                   + (IF building.active /\ building.global THEN 1 ELSE 0)
    BY <1>2, FrameLayout
  <2>2. top \in Nat /\ top <= StackSize - 1
    BY DEF TypeOK
  <2>3. Limit = Frame.slots + Len(Frame.locals)
    BY <1>2 DEF Limit
  <2>4. Idle => ~ building.active
    BY DEF Idle
  <2>5. QED
    BY <2>1, <2>2, <2>3, <2>4
<1>3. QED
  BY <1>1, <1>2

(* What the invariant says of the two relations.                           *)
LEMMA InScopeRange ==
  ASSUME TypeOK, StackMatchesLocals, FramesClimb, Declared,
         NEW v, NEW s, InScope(v, s)
  PROVE  /\ v \in 1 .. nvars /\ v \in Variable /\ v # NoVariable
         /\ s \in Slots /\ s \in Nat /\ s # Self /\ s > 0 /\ s < Limit /\ s < top
         /\ frames # << >>
<1>1. PICK n \in DOMAIN frames : Holds(frames[n], v, s)
  BY DEF InScope
<1>2. /\ n \in Nat \ {0} /\ n <= Len(frames) /\ Len(frames) \in Nat \ {0}
      /\ DOMAIN frames = 1 .. Len(frames) /\ frames # << >>
      /\ frames[n].slots \in Nat /\ Len(frames[n].locals) \in Nat
  BY FrameParts
<1>3. v \in 1 .. nvars
  BY <1>1 DEF Holds, Declared
<1>4. nvars \in Nat /\ nvars <= MaxVariables
  BY DEF TypeOK
<1>5. s \in Nat /\ s > frames[n].slots /\ s < frames[n].slots + Len(frames[n].locals)
  BY <1>1, <1>2, HoldsRange
<1>6. frames[n].slots + Len(frames[n].locals) <= Limit
  <2>1. CASE n = Len(frames)
    BY <1>2, <2>1 DEF Limit, Frame
  <2>2. CASE n < Len(frames)
    <3>1. Len(frames) \in DOMAIN frames
      BY <1>2
    <3>2. frames[n].slots + Len(frames[n].locals) <= Frame.slots
      BY <2>2, <3>1 DEF FramesClimb, Frame
    <3>3. Frame.slots \in Nat /\ Len(Frame.locals) \in Nat
      BY <3>1, FrameParts DEF Frame
    <3>4. QED
      BY <1>2, <3>2, <3>3 DEF Limit
  <2>3. QED
    BY <1>2, <2>1, <2>2
<1>7. Limit \in Nat /\ Limit <= top /\ top \in Nat /\ top <= StackSize - 1
  BY LimitRange
<1>8. s > 0 /\ s < Limit /\ s < top /\ s <= StackSize - 1
  BY <1>2, <1>5, <1>6, <1>7
<1>9. v \in Variable /\ v # NoVariable
  BY <1>3, <1>4 DEF Variable, NoVariable
<1>10. QED
  BY <1>2, <1>3, <1>5, <1>8, <1>9 DEF Slots, Self

LEMMA CaughtRange ==
  ASSUME TypeOK, Declared, NEW v, NEW u, Caught(v, u)
  PROVE  v \in 1 .. nvars /\ v \in Variable /\ u \in DOMAIN upvalues
<1>1. PICK c \in AllCaptures : v \in DOMAIN c /\ c[v] = u
  BY DEF Caught
<1>2. c \in Captures(DOMAIN upvalues)
  BY DEF AllCaptures, TypeOK
<1>3. v \in 1 .. nvars
  BY <1>1 DEF Declared
<1>4. nvars \in Nat /\ nvars <= MaxVariables
  BY DEF TypeOK
<1>5. QED
  BY <1>1, <1>2, <1>3, <1>4, CaptureOf DEF Variable

(* The invariant, without the ranges.                                      *)
LEMMA Relations ==
  ASSUME IInv, ClosureInv
  PROVE  /\ \A v, s : InScope(v, s) => mem[s] # Null
         /\ \A v, w, s, t : InScope(v, s) /\ InScope(w, t) => ((v = w) <=> (s = t))
         /\ \A v, w, u, t : Caught(v, u) /\ Caught(w, t) => ((v = w) <=> (u = t))
         /\ \A v, u : Caught(v, u) =>
              /\ upvalues[u].location # Self => InScope(v, upvalues[u].location)
              /\ upvalues[u].location = Self => upvalues[u].closed # Null
         /\ \A v, u, s : Caught(v, u) /\ InScope(v, s) =>
              upvalues[u].location = s /\ Marked(v, s)
<1>1. TypeOK /\ StackMatchesLocals /\ FramesClimb /\ Declared
  BY DEF IInv, ClosureInv
<1>2. \A v, s : InScope(v, s) => v \in Variable /\ s \in Slots
  BY <1>1, InScopeRange
<1>3. \A v, u : Caught(v, u) => v \in Variable /\ u \in DOMAIN upvalues
  BY <1>1, CaughtRange
<1>4. QED
  BY <1>2, <1>3 DEF ClosureInv, OneSlotEach, OneUpvalueEach, UpvaluesPlaced, NeverNull
-----------------------------------------------------------------------------
(* What the steps do to the relations.                                     *)

BelowTop(v, s) == \E n \in 1 .. Len(frames) - 1 : Holds(frames[n], v, s)

MarkedBelowTop(v, s) ==
  \E n \in 1 .. Len(frames) - 1 : HoldsCaptured(frames[n], v, s)

LEMMA TopApart ==
  ASSUME TypeOK, StackMatchesLocals, FramesClimb, frames # << >>
  PROVE  /\ \A v, s : InScope(v, s) <=> BelowTop(v, s) \/ Holds(Frame, v, s)
         /\ \A v, s : Marked(v, s) <=> MarkedBelowTop(v, s) \/ HoldsCaptured(Frame, v, s)
         /\ \A v, s : BelowTop(v, s) => s \in Nat /\ s < Frame.slots
         /\ \A v, s : MarkedBelowTop(v, s) => BelowTop(v, s)
<1>1. Len(frames) \in DOMAIN frames /\ DOMAIN frames = 1 .. Len(frames) /\ Len(frames) \in Nat
  BY FrameType
<1>2. \A n : n \in DOMAIN frames <=> (n \in 1 .. Len(frames) - 1 \/ n = Len(frames))
  BY <1>1
<1>3. \A v, s : InScope(v, s) <=> BelowTop(v, s) \/ Holds(Frame, v, s)
  BY <1>2 DEF InScope, BelowTop, Frame
<1>4. \A v, s : Marked(v, s) <=> MarkedBelowTop(v, s) \/ HoldsCaptured(Frame, v, s)
  BY <1>2 DEF Marked, MarkedBelowTop, Frame
<1>5. ASSUME NEW v, NEW s, BelowTop(v, s)
      PROVE  s \in Nat /\ s < Frame.slots
  <2>1. PICK n \in 1 .. Len(frames) - 1 : Holds(frames[n], v, s)
    BY <1>5 DEF BelowTop
  <2>2. n \in DOMAIN frames /\ n < Len(frames)
    BY <1>1
  <2>3. frames[n].slots \in Nat /\ Len(frames[n].locals) \in Nat
    BY <2>2, FrameParts
  <2>4. s \in Nat /\ s < frames[n].slots + Len(frames[n].locals)
    BY <2>1, <2>3, HoldsRange
  <2>5. frames[n].slots + Len(frames[n].locals) <= Frame.slots
    BY <1>1, <2>2 DEF FramesClimb, Frame
  <2>6. Frame.slots \in Nat
    BY <1>1, FrameParts DEF Frame
  <2>7. QED
    BY <2>3, <2>4, <2>5, <2>6
<1>6. \A v, s : MarkedBelowTop(v, s) => BelowTop(v, s)
  BY DEF MarkedBelowTop, BelowTop, Holds, HoldsCaptured
<1>7. QED
  BY <1>3, <1>4, <1>5, <1>6

(* The frame on top is replaced, and runs the same closure.                *)
LEMMA SetFrameEffect ==
  ASSUME TypeOK, StackMatchesLocals, FramesClimb, FramesRunClosures, frames # << >>,
         NEW f \in FrameRecord(DOMAIN upvalues), SetFrame(f),
         f.slots = Frame.slots, f.captures = Frame.captures, closures' = closures
  PROVE  /\ FramesClimb' /\ FramesRunClosures'
         /\ \A v, s : InScope(v, s)' <=> BelowTop(v, s) \/ Holds(f, v, s)
         /\ \A v, s : Marked(v, s)' <=> MarkedBelowTop(v, s) \/ HoldsCaptured(f, v, s)
<1>1. /\ Len(frames) \in DOMAIN frames /\ DOMAIN frames = 1 .. Len(frames)
      /\ Len(frames) \in Nat
  BY FrameType
<1>2. /\ DOMAIN frames' = DOMAIN frames
      /\ \A n \in DOMAIN frames :
           frames'[n] = IF n = Len(frames) THEN f ELSE frames[n]
  BY SetFrameType
<1>3. ASSUME NEW n \in 1 .. Len(frames) - 1
      PROVE  n \in DOMAIN frames /\ n # Len(frames)
  <2>1. n \in Nat /\ n >= 1 /\ n <= Len(frames) - 1
    BY <1>1
  <2>2. n \in 1 .. Len(frames)
    BY <1>1, <2>1
  <2>3. n \in DOMAIN frames
    BY <1>1, <2>2
  <2>4. n # Len(frames)
    <3>1. Len(frames) \in Nat
      BY <1>1
    <3> HIDE <1>1, <1>2
    <3>2. QED
      BY <2>1, <3>1
  <2>5. QED
    BY <2>3, <2>4
<1>4. \A n \in 1 .. Len(frames) - 1 : frames'[n] = frames[n]
  BY <1>2, <1>3
<1>5. frames'[Len(frames)] = f
  BY <1>1, <1>2
<1>6. \A n : n \in DOMAIN frames' <=> (n \in 1 .. Len(frames) - 1 \/ n = Len(frames))
  BY <1>1, <1>2
<1>7. \A v, s : InScope(v, s)' <=> BelowTop(v, s) \/ Holds(f, v, s)
  BY <1>4, <1>5, <1>6 DEF InScope, BelowTop, Holds, SlotOf
<1>8. \A v, s : Marked(v, s)' <=> MarkedBelowTop(v, s) \/ HoldsCaptured(f, v, s)
  BY <1>4, <1>5, <1>6 DEF Marked, MarkedBelowTop, HoldsCaptured, SlotOf
<1>9. FramesClimb'
  <2>1. SUFFICES ASSUME NEW m \in DOMAIN frames, NEW n \in DOMAIN frames, m < n
                 PROVE  frames'[m].slots + Len(frames'[m].locals) <= frames'[n].slots
    BY <1>2 DEF FramesClimb
  <2>2. frames'[n].slots = frames[n].slots
    BY <1>2 DEF Frame
  <2>3. m # Len(frames)
    BY <1>1, <2>1
  <2>4. frames'[m] = frames[m]
    BY <1>2, <2>3
  <2>5. QED
    BY <2>1, <2>2, <2>4 DEF FramesClimb
<1>10. FramesRunClosures'
  <2>1. \A n \in DOMAIN frames : frames'[n].captures = frames[n].captures
    BY <1>2 DEF Frame
  <2>2. QED
    BY <1>2, <2>1 DEF FramesRunClosures, NoCaptures
<1>11. QED
  BY <1>7, <1>8, <1>9, <1>10

(* A frame is pushed on top of everything.                                 *)
LEMMA PushFrameEffect ==
  ASSUME TypeOK, StackMatchesLocals, FramesClimb, FramesRunClosures,
         NEW f, frames' = Append(frames, f), f \in FrameRecord(DOMAIN upvalues),
         f.slots = Limit, f.captures \in closures, closures' = closures
  PROVE  /\ FramesClimb' /\ FramesRunClosures'
         /\ \A v, s : InScope(v, s)' <=> InScope(v, s) \/ Holds(f, v, s)
         /\ \A v, s : Marked(v, s) => Marked(v, s)'
<1>1. /\ frames \in Seq(FrameRecord(DOMAIN upvalues)) /\ Len(frames) \in Nat
      /\ DOMAIN frames = 1 .. Len(frames)
  BY LenProperties DEF TypeOK
<1>2. /\ DOMAIN frames' = 1 .. Len(frames) + 1
      /\ \A n \in DOMAIN frames : frames'[n] = frames[n]
      /\ frames'[Len(frames) + 1] = f
  BY <1>1
<1>3. \A n : n \in DOMAIN frames' <=> (n \in DOMAIN frames \/ n = Len(frames) + 1)
  BY <1>1, <1>2
<1>4. \A v, s : InScope(v, s)' <=> InScope(v, s) \/ Holds(f, v, s)
  BY <1>2, <1>3 DEF InScope, Holds, SlotOf
<1>5. \A v, s : Marked(v, s) => Marked(v, s)'
  BY <1>2, <1>3 DEF Marked, HoldsCaptured, SlotOf
<1>6. FramesClimb'
  <2>1. SUFFICES ASSUME NEW m \in DOMAIN frames', NEW n \in DOMAIN frames', m < n
                 PROVE  frames'[m].slots + Len(frames'[m].locals) <= frames'[n].slots
    BY DEF FramesClimb
  <2>2. m \in DOMAIN frames
    BY <1>1, <1>2, <2>1
  <2>3. CASE n \in DOMAIN frames
    BY <1>2, <2>1, <2>2, <2>3 DEF FramesClimb
  <2>4. CASE n = Len(frames) + 1
    <3>1. /\ m \in Nat \ {0} /\ m <= Len(frames) /\ frames # << >>
          /\ frames[m].slots \in Nat /\ Len(frames[m].locals) \in Nat
      BY <2>2, FrameParts
    <3>2. Len(frames) \in DOMAIN frames
      BY <1>1, <3>1
    <3>3. Frame.slots \in Nat /\ Len(Frame.locals) \in Nat
      BY <3>2, FrameParts DEF Frame
    <3>4. CASE m = Len(frames)
      BY <1>2, <2>2, <2>4, <3>1, <3>4 DEF Limit, Frame
    <3>5. CASE m < Len(frames)
      <4>1. frames[m].slots + Len(frames[m].locals) <= Frame.slots
        BY <2>2, <3>2, <3>5 DEF FramesClimb, Frame
      <4>2. f.slots = Frame.slots + Len(Frame.locals)
        BY <3>1 DEF Limit
      <4>3. QED
        BY <1>2, <2>2, <2>4, <3>1, <3>3, <4>1, <4>2
    <3>6. QED
      BY <1>1, <3>1, <3>4, <3>5
  <2>5. QED
    BY <1>3, <2>3, <2>4
<1>7. FramesRunClosures'
  BY <1>2, <1>3 DEF FramesRunClosures, NoCaptures
<1>8. QED
  BY <1>4, <1>5, <1>6, <1>7

(* The frame on top is dropped.                                            *)
LEMMA PopFrameEffect ==
  ASSUME TypeOK, StackMatchesLocals, FramesClimb, FramesRunClosures, frames # << >>,
         frames' = SubSeq(frames, 1, Len(frames) - 1), closures' = closures
  PROVE  /\ FramesClimb' /\ FramesRunClosures'
         /\ \A v, s : InScope(v, s)' <=> BelowTop(v, s)
         /\ \A v, s : Marked(v, s)' <=> MarkedBelowTop(v, s)
<1>1. /\ Len(frames) \in Nat \ {0} /\ DOMAIN frames = 1 .. Len(frames)
      /\ frames \in Seq(FrameRecord(DOMAIN upvalues))
  BY FrameType DEF TypeOK
<1>2. Len(frames) - 1 \in 0 .. Len(frames)
  BY <1>1
<1>3. /\ DOMAIN frames' = 1 .. Len(frames) - 1
      /\ \A n \in 1 .. Len(frames) - 1 : frames'[n] = frames[n]
  BY <1>1, <1>2, TakePrefix
<1>4. \A n \in 1 .. Len(frames) - 1 : n \in DOMAIN frames
  BY <1>1
<1>5. \A v, s : InScope(v, s)' <=> BelowTop(v, s)
  BY <1>3 DEF InScope, BelowTop, Holds, SlotOf
<1>6. \A v, s : Marked(v, s)' <=> MarkedBelowTop(v, s)
  BY <1>3 DEF Marked, MarkedBelowTop, HoldsCaptured, SlotOf
<1>7. FramesClimb'
  BY <1>3, <1>4 DEF FramesClimb
<1>8. FramesRunClosures'
  BY <1>3, <1>4 DEF FramesRunClosures, NoCaptures
<1>9. QED
  BY <1>5, <1>6, <1>7, <1>8
-----------------------------------------------------------------------------
(* The three ways the relations change.                                    *)

LEMMA DeclaredNext ==
  ASSUME \A v, s : InScope(v, s)' => v \in 1 .. nvars',
         \A v, u : Caught(v, u)' => v \in 1 .. nvars'
  PROVE  Declared'
<1>1. ASSUME NEW n \in DOMAIN frames', NEW i \in 2 .. Len(frames'[n].locals)
      PROVE  frames'[n].locals[i].var \in 1 .. nvars'
  <2>1. \A v, s : v = frames'[n].locals[i].var /\ s = SlotOf(frames'[n], i) => InScope(v, s)'
    BY DEF InScope, Holds, SlotOf
  <2>2. QED
    BY <2>1
<1>2. ASSUME NEW c \in AllCaptures', NEW v \in DOMAIN c
      PROVE  v \in 1 .. nvars'
  <2>1. Caught(v, c[v])'
    BY DEF Caught
  <2>2. QED
    BY <2>1
<1>3. QED
  BY <1>1, <1>2 DEF Declared

(* The next k variables are declared, in slots above all others; what is   *)
(* stored in the old ones is not null.                                     *)
LEMMA DeclaringKeeps ==
  ASSUME IInv, ClosureInv, IInv', FramesClimb', FramesRunClosures',
         NEW k \in Nat, NEW base \in Int, base + 1 >= Limit, nvars' = nvars + k,
         \A v, s : InScope(v, s)' <=>
           \/ InScope(v, s)
           \/ \E j \in 1 .. k : v = nvars + j /\ s = base + j,
         \A v, s : Marked(v, s) => Marked(v, s)',
         \A v, u : Caught(v, u)' => Caught(v, u),
         \A u \in DOMAIN upvalues :
           /\ upvalues'[u].location = upvalues[u].location
           /\ upvalues[u].closed # Null => upvalues'[u].closed # Null,
         \A s \in 0 .. Limit - 1 : mem[s] # Null => mem'[s] # Null,
         \A j \in 1 .. k : mem'[base + j] # Null
  PROVE  ClosureInv'
<1>1. TypeOK /\ StackMatchesLocals /\ FramesClimb /\ Declared
  BY DEF IInv, ClosureInv
<1>2. nvars \in Nat /\ Limit \in Nat
  BY <1>1, LimitRange DEF TypeOK
<1>3. \A v, s : InScope(v, s) =>
        v \in 1 .. nvars /\ s \in 0 .. Limit - 1 /\ mem[s] # Null
  BY <1>1, <1>2, InScopeRange, Relations
<1>4. \A v, u : Caught(v, u) => v \in 1 .. nvars /\ u \in DOMAIN upvalues
  BY <1>1, CaughtRange
<1>5. \A v, s : InScope(v, s)' =>
        \/ InScope(v, s)
        \/ \E j \in 1 .. k : v = nvars + j /\ s = base + j
  OBVIOUS
<1>6. Declared'
  <2>1. \A v, s : InScope(v, s)' => v \in 1 .. nvars'
    BY <1>2, <1>3, <1>5
  <2>2. \A v, u : Caught(v, u)' => v \in 1 .. nvars'
    BY <1>2, <1>4
  <2>3. QED
    BY <2>1, <2>2, DeclaredNext
<1>7. OneSlotEach'
  <2>1. SUFFICES ASSUME NEW v, NEW w, NEW s, NEW t, InScope(v, s)', InScope(w, t)'
                 PROVE  (v = w) <=> (s = t)
    BY DEF OneSlotEach
  <2>2. CASE InScope(v, s) /\ InScope(w, t)
    BY <2>2, Relations
  <2>3. ASSUME NEW j \in 1 .. k, v = nvars + j, s = base + j, InScope(w, t)
        PROVE  v # w /\ s # t
    <3>1. w \in 1 .. nvars /\ t \in 0 .. Limit - 1
      BY <1>3, <2>3
    <3>2. QED
      BY <1>2, <2>3, <3>1
  <2>4. ASSUME NEW j \in 1 .. k, w = nvars + j, t = base + j, InScope(v, s)
        PROVE  v # w /\ s # t
    <3>1. v \in 1 .. nvars /\ s \in 0 .. Limit - 1
      BY <1>3, <2>4
    <3>2. QED
      BY <1>2, <2>4, <3>1
  <2>5. ASSUME NEW j \in 1 .. k, NEW i \in 1 .. k,
               v = nvars + j, s = base + j, w = nvars + i, t = base + i
        PROVE  (v = w) <=> (s = t)
    BY <1>2, <2>5
  <2>6. QED
    BY <1>5, <2>1, <2>2, <2>3, <2>4, <2>5
<1>8. OneUpvalueEach'
  BY Relations DEF OneUpvalueEach
<1>9. UpvaluesPlaced'
  <2>1. SUFFICES ASSUME NEW v, NEW u, Caught(v, u)'
                 PROVE  /\ \A s : upvalues'[u].location = s /\ s # Self => InScope(v, s)'
                        /\ \A s : InScope(v, s)' =>
                             upvalues'[u].location = s /\ Marked(v, s)'
    BY DEF UpvaluesPlaced
  <2>2. Caught(v, u) /\ v \in 1 .. nvars /\ u \in DOMAIN upvalues
    BY <1>4, <2>1
  <2>3. upvalues'[u].location = upvalues[u].location
    BY <2>2
  <2>4. upvalues[u].location # Self => InScope(v, upvalues[u].location)
    BY <2>2, Relations
  <2>5. \A s : InScope(v, s) => upvalues[u].location = s /\ Marked(v, s)
    BY <2>2, Relations
  <2>6. \A s : InScope(v, s)' => InScope(v, s)
    BY <1>2, <1>5, <2>2
  <2>7. QED
    BY <2>3, <2>4, <2>5, <2>6
<1>10. NeverNull'
  <2>1. ASSUME NEW v, NEW s, InScope(v, s)' PROVE mem'[s] # Null
    BY <1>3, <1>5, <2>1
  <2>2. ASSUME NEW v, NEW u, Caught(v, u)', upvalues'[u].location = Self
        PROVE  upvalues'[u].closed # Null
    <3>1. Caught(v, u) /\ u \in DOMAIN upvalues
      BY <1>4, <2>2
    <3>2. QED
      BY <2>2, <3>1, Relations
  <2>3. QED
    BY <2>1, <2>2 DEF NeverNull
<1>11. QED
  BY <1>6, <1>7, <1>8, <1>9, <1>10 DEF ClosureInv

(* The variables from slot "floor" on go out of scope, the captured ones   *)
(* into their upvalues.                                                    *)
Drops(floor) ==
  /\ FramesClimb' /\ FramesRunClosures' /\ nvars' = nvars
  /\ \A v, s : InScope(v, s)' <=> InScope(v, s) /\ s < floor
  /\ \A v, s : Marked(v, s) /\ s < floor => Marked(v, s)'
  /\ \A v, u : Caught(v, u)' <=> Caught(v, u)
  /\ \A v, u : Caught(v, u) =>
       IF upvalues[u].location >= floor
       THEN /\ upvalues'[u].location = Self
            /\ upvalues'[u].closed = mem[upvalues[u].location]
       ELSE upvalues'[u] = upvalues[u]
  /\ \A s \in Slots : s < floor => mem'[s] = mem[s]

LEMMA DroppingKeeps ==
  ASSUME IInv, ClosureInv, IInv', NEW floor \in Nat, Drops(floor)
  PROVE  ClosureInv'
<1> USE DEF Drops
<1>1. TypeOK /\ StackMatchesLocals /\ FramesClimb /\ Declared
  BY DEF IInv, ClosureInv
<1>2. \A v, s : InScope(v, s) => v \in 1 .. nvars /\ s \in Slots /\ s \in Nat
  BY <1>1, InScopeRange
<1>3. \A v, u : Caught(v, u) => v \in 1 .. nvars /\ u \in DOMAIN upvalues
  BY <1>1, CaughtRange
<1>4. Declared'
  BY <1>2, <1>3, DeclaredNext
<1>5. OneSlotEach'
  BY Relations DEF OneSlotEach
<1>6. OneUpvalueEach'
  BY Relations DEF OneUpvalueEach
<1>7. ASSUME NEW v, NEW u, Caught(v, u)'
      PROVE  /\ \A s : upvalues'[u].location = s /\ s # Self => InScope(v, s)'
             /\ \A s : InScope(v, s)' =>
                  upvalues'[u].location = s /\ Marked(v, s)'
             /\ upvalues'[u].location = Self => upvalues'[u].closed # Null
  <2>1. Caught(v, u) /\ u \in DOMAIN upvalues
    BY <1>3, <1>7
  <2>2. /\ upvalues[u].location # Self => InScope(v, upvalues[u].location)
        /\ upvalues[u].location = Self => upvalues[u].closed # Null
        /\ \A s : InScope(v, s) => upvalues[u].location = s /\ Marked(v, s)
    BY <2>1, Relations
  <2>3. CASE upvalues[u].location >= floor
    <3>1. upvalues'[u].location = Self /\ upvalues'[u].closed = mem[upvalues[u].location]
      BY <2>1, <2>3
    <3>2. upvalues[u].location # Self
      BY <2>3 DEF Self
    <3>3. mem[upvalues[u].location] # Null
      BY <2>2, <3>2, Relations
    <3>4. \A s : ~ InScope(v, s)'
      BY <1>2, <2>2, <2>3
    <3>5. QED
      BY <3>1, <3>3, <3>4
  <2>4. CASE ~ (upvalues[u].location >= floor)
    <3>1. upvalues'[u] = upvalues[u]
      BY <2>1, <2>4
    <3>2. upvalues[u].location \in Int
      BY <1>1, <2>1, LocationType
    <3>3. QED
      BY <2>2, <2>4, <3>1, <3>2
  <2>5. QED
    BY <2>3, <2>4
<1>8. UpvaluesPlaced'
  BY <1>7 DEF UpvaluesPlaced
<1>9. NeverNull'
  <2>1. ASSUME NEW v, NEW s, InScope(v, s)' PROVE mem'[s] # Null
    BY <1>2, <2>1, Relations
  <2>2. QED
    BY <1>7, <2>1 DEF NeverNull
<1>10. QED
  BY <1>4, <1>5, <1>6, <1>8, <1>9 DEF ClosureInv

(* Variable v, in scope in a slot, is captured by one more closure: with   *)
(* the upvalue of that slot, or with a new one if it has none.             *)
LEMMA CapturingKeeps ==
  ASSUME IInv, ClosureInv, IInv', FramesClimb', FramesRunClosures',
         NEW v, NEW slot, NEW up, InScope(v, slot), nvars' = nvars, mem' = mem,
         \A w, s : InScope(w, s)' <=> InScope(w, s),
         \A w, s : Marked(w, s) => Marked(w, s)',
         Marked(v, slot)',
         \A w, u : Caught(w, u)' => Caught(w, u) \/ (w = v /\ u = up),
         \A u \in DOMAIN upvalues : upvalues'[u] = upvalues[u],
         upvalues'[up].location = slot,
         up \notin DOMAIN upvalues =>
           \A u \in DOMAIN upvalues : upvalues[u].location # slot
  PROVE  ClosureInv'
<1>1. TypeOK /\ StackMatchesLocals /\ OpenListSorted /\ FramesClimb /\ Declared
  BY DEF IInv, ClosureInv
<1>2. \A w, s : InScope(w, s) => w \in 1 .. nvars /\ s \in Slots /\ s \in Nat /\ s # Self
  BY <1>1, InScopeRange
<1>3. \A w, u : Caught(w, u) => w \in 1 .. nvars /\ u \in DOMAIN upvalues
  BY <1>1, CaughtRange
<1>4. Declared'
  BY <1>2, <1>3, DeclaredNext
<1>5. OneSlotEach'
  BY Relations DEF OneSlotEach
<1>6. ASSUME NEW w, NEW u, Caught(w, u)
      PROVE  (w = v) <=> (u = up)
  <2>1. u \in DOMAIN upvalues
    BY <1>3, <1>6
  <2>2. ASSUME w = v PROVE u = up
    <3>1. upvalues[u].location = slot
      BY <1>6, <2>2, Relations
    <3>2. up \in DOMAIN upvalues
      BY <2>1, <3>1
    <3>3. upvalues[up].location = slot
      BY <3>2
    <3>4. slot # Self
      BY <1>2
    <3>5. PICK i \in DOMAIN open : open[i] = u
      BY <1>1, <2>1, <3>1, <3>4 DEF OpenListSorted
    <3>6. PICK j \in DOMAIN open : open[j] = up
      BY <1>1, <3>2, <3>3, <3>4 DEF OpenListSorted
    <3>7. i \in Int /\ j \in Int /\ slot \in Int
      BY <1>1, <1>2, LenProperties DEF TypeOK
    <3>8. ~ (i < j) /\ ~ (j < i)
      BY <1>1, <3>1, <3>3, <3>5, <3>6, <3>7 DEF OpenListSorted
    <3>9. QED
      BY <3>5, <3>6, <3>7, <3>8
  <2>3. ASSUME u = up PROVE w = v
    <3>1. upvalues[u].location = slot /\ slot # Self
      BY <1>2, <2>1, <2>3
    <3>2. InScope(w, slot)
      BY <1>6, <3>1, Relations
    <3>3. QED
      BY <3>2, Relations
  <2>4. QED
    BY <2>2, <2>3
<1>7. OneUpvalueEach'
  <2>1. SUFFICES ASSUME NEW w, NEW x, NEW u, NEW t, Caught(w, u)', Caught(x, t)'
                 PROVE  (w = x) <=> (u = t)
    BY DEF OneUpvalueEach
  <2>2. CASE Caught(w, u) /\ Caught(x, t)
    BY <2>2, Relations
  <2>3. QED
    BY <1>6, <2>1, <2>2
<1>8. ASSUME NEW w, NEW u, Caught(w, u)'
      PROVE  /\ \A s : upvalues'[u].location = s /\ s # Self => InScope(w, s)'
             /\ \A s : InScope(w, s)' =>
                  upvalues'[u].location = s /\ Marked(w, s)'
             /\ upvalues'[u].location = Self => upvalues'[u].closed # Null
  <2>1. CASE Caught(w, u)
    <3>1. upvalues'[u] = upvalues[u]
      BY <1>3, <2>1
    <3>2. QED
      BY <2>1, <3>1, Relations
  <2>2. CASE w = v /\ u = up
    <3>1. slot # Self /\ \A s : InScope(w, s) => s = slot
      BY <1>2, <2>2, Relations
    <3>2. QED
      BY <2>2, <3>1
  <2>3. QED
    BY <1>8, <2>1, <2>2
<1>9. UpvaluesPlaced'
  BY <1>8 DEF UpvaluesPlaced
<1>10. NeverNull'
  BY <1>8, Relations DEF NeverNull
<1>11. QED
  BY <1>4, <1>5, <1>7, <1>9, <1>10 DEF ClosureInv
-----------------------------------------------------------------------------
(* The actions, one by one.                                                *)

(* Nothing is declared, dropped or captured.                               *)
LEMMA StayingKeeps ==
  ASSUME IInv, ClosureInv, IInv', FramesClimb', FramesRunClosures', nvars' = nvars,
         \A v, s : InScope(v, s)' <=> InScope(v, s),
         \A v, s : Marked(v, s) => Marked(v, s)',
         \A v, u : Caught(v, u)' => Caught(v, u),
         \A u \in DOMAIN upvalues :
           /\ upvalues'[u].location = upvalues[u].location
           /\ upvalues[u].closed # Null => upvalues'[u].closed # Null,
         \A s \in 0 .. Limit - 1 : mem[s] # Null => mem'[s] # Null
  PROVE  ClosureInv'
<1>1. Limit \in Int /\ Limit + 1 >= Limit /\ nvars' = nvars + 0
  BY LimitRange DEF IInv, TypeOK
<1>2. \A j \in 1 .. 0 : FALSE
  OBVIOUS
<1> HIDE DEF Limit
<1>3. QED
  BY <1>1, <1>2, DeclaringKeeps

LEMMA SameFrames ==
  ASSUME ClosureInv, frames' = frames, closures \subseteq closures'
  PROVE  /\ FramesClimb' /\ FramesRunClosures'
         /\ \A v, s : InScope(v, s)' <=> InScope(v, s)
         /\ \A v, s : Marked(v, s)' <=> Marked(v, s)
<1>1. FramesClimb'
  BY DEF ClosureInv, FramesClimb
<1>2. FramesRunClosures'
  BY DEF ClosureInv, FramesRunClosures, NoCaptures
<1>3. QED
  BY <1>1, <1>2 DEF InScope, Marked, Holds, HoldsCaptured, SlotOf

LEMMA SameCaptures ==
  ASSUME UNCHANGED <<building, closures>>
  PROVE  \A v, u : Caught(v, u)' <=> Caught(v, u)
  BY DEF Caught, AllCaptures

LEMMA BelowLimit ==
  ASSUME IInv, NEW s \in 0 .. Limit - 1
  PROVE  s \in Slots /\ s \in Nat /\ s < Limit /\ s < top
<1>1. Limit \in Nat /\ Limit <= top /\ top \in Nat /\ top <= StackSize - 1
  BY LimitRange DEF IInv
<1>2. QED
  BY <1>1 DEF Slots

LEMMA ValueNotNull ==
  ASSUME NEW x, x \in Values \/ x = Fun
  PROVE  x # Null
  OBVIOUS

LEMMA StutterKeepsClosures ==
  ASSUME IInv, ClosureInv, UNCHANGED vars PROVE ClosureInv'
<1>1. UNCHANGED <<mem, top, frames, upvalues, open, building, closures, nvars>>
  BY DEF vars
<1>2. IInv'
  BY StutterKeeps
<1>3. QED
  BY <1>1, <1>2, StayingKeeps, SameFrames, SameCaptures

LEMMA ExpressionStatementKeepsClosures ==
  ASSUME IInv, ClosureInv, NEW x \in Results, ExpressionStatement(x)
  PROVE  ClosureInv'
<1>1. /\ UNCHANGED <<top, frames, upvalues, open, building, closures, nvars>>
      /\ mem' = [mem EXCEPT ![top] = x]
  BY DEF ExpressionStatement
<1>2. IInv'
  BY ExpressionStatementKeeps
<1>3. \A s \in 0 .. Limit - 1 : mem'[s] = mem[s]
  <2> SUFFICES ASSUME NEW s \in 0 .. Limit - 1 PROVE mem'[s] = mem[s]
    OBVIOUS
  <2>1. s \in Slots /\ s # top
    <3>1. s \in Slots /\ s \in Nat /\ s < top
      BY BelowLimit
    <3>2. top \in Nat
      BY DEF IInv, TypeOK
    <3>3. QED
      BY <3>1, <3>2
  <2>2. QED
    BY <1>1, <2>1 DEF IInv, TypeOK
<1>4. QED
  BY <1>1, <1>2, <1>3, StayingKeeps, SameFrames, SameCaptures

LEMMA SetLocalKeepsClosures ==
  ASSUME IInv, ClosureInv, NEW i \in LocalIndex, NEW x \in Values, SetLocal(i, x)
  PROVE  ClosureInv'
<1>1. /\ UNCHANGED <<top, frames, upvalues, open, building, closures, nvars>>
      /\ mem' = [mem EXCEPT ![top] = x, ![SlotOf(Frame, i)] = x]
  BY DEF SetLocal
<1>2. IInv'
  BY SetLocalKeeps
<1>3. \A s \in Slots : mem[s] # Null => mem'[s] # Null
  BY <1>1 DEF IInv, TypeOK
<1>4. \A s \in 0 .. Limit - 1 : mem[s] # Null => mem'[s] # Null
  BY <1>3, BelowLimit
<1>5. QED
  BY <1>1, <1>2, <1>4, StayingKeeps, SameFrames, SameCaptures

LEMMA SetUpvalueKeepsClosures ==
  ASSUME IInv, ClosureInv, NEW v \in Captured, NEW x \in Values, SetUpvalue(v, x)
  PROVE  ClosureInv'
<1> DEFINE u == Frame.captures[v]
<1>1. /\ UNCHANGED <<top, frames, open, building, closures, nvars>>
      /\ \/ /\ mem' = [mem EXCEPT ![top] = x]
            /\ upvalues' = [upvalues EXCEPT ![u].closed = x]
         \/ /\ mem' = [mem EXCEPT ![top] = x, ![upvalues[u].location] = x]
            /\ UNCHANGED upvalues
  BY DEF SetUpvalue
<1>2. IInv'
  BY SetUpvalueKeeps
<1> HIDE DEF u
<1>3. \A s \in Slots : mem[s] # Null => mem'[s] # Null
  BY <1>1 DEF IInv, TypeOK
<1>4. \A s \in 0 .. Limit - 1 : mem[s] # Null => mem'[s] # Null
  BY <1>3, BelowLimit
<1>5. ASSUME NEW t \in DOMAIN upvalues
      PROVE  /\ upvalues'[t].location = upvalues[t].location
             /\ upvalues[t].closed # Null => upvalues'[t].closed # Null
  <2>1. CASE upvalues' = [upvalues EXCEPT ![u].closed = x]
    <3> DEFINE r == [upvalues[u] EXCEPT !.closed = x]
    <3>1. upvalues' = [upvalues EXCEPT ![u] = r]
      BY <2>1
    <3>2. upvalues[t] \in UpvalueRecord
      BY LocationType DEF IInv
    <3>3. t = u => r.location = upvalues[t].location /\ r.closed = x
      BY <3>2 DEF UpvalueRecord
    <3> HIDE DEF r
    <3>4. upvalues'[t] = IF t = u THEN r ELSE upvalues[t]
      BY <3>1
    <3>5. QED
      BY <3>3, <3>4, ValueNotNull
  <2>2. CASE UNCHANGED upvalues
    BY <2>2
  <2>3. QED
    BY <1>1, <2>1, <2>2
<1>6. QED
  BY <1>1, <1>2, <1>4, <1>5, StayingKeeps, SameFrames, SameCaptures

(* Opening a scope changes no slot.                                        *)
LEMMA BeginScopeEffect ==
  ASSUME IInv, ClosureInv, BeginScope
  PROVE  /\ FramesClimb' /\ FramesRunClosures'
         /\ \A v, s : InScope(v, s)' <=> InScope(v, s)
         /\ \A v, s : Marked(v, s)' <=> Marked(v, s)
<1> DEFINE f == [Frame EXCEPT !.depth = @ + 1]
<1>1. /\ UNCHANGED <<mem, top, upvalues, open, building, closures, nvars>>
      /\ SetFrame(f) /\ frames # << >> /\ Frame.depth < MaxDepth
      /\ TypeOK /\ StackMatchesLocals /\ FramesClimb /\ FramesRunClosures
  BY DEF BeginScope, Idle, IInv, ClosureInv
<1>3. Frame \in FrameRecord(DOMAIN upvalues) /\ Frame.depth \in 1 .. MaxDepth
  BY <1>1, FrameType, FrameLayout
<1>4. /\ f \in FrameRecord(DOMAIN upvalues) /\ f.slots = Frame.slots
      /\ f.locals = Frame.locals /\ f.captures = Frame.captures
  BY <1>1, <1>3 DEF FrameRecord
<1> HIDE DEF f
<1>5. /\ FramesClimb' /\ FramesRunClosures'
      /\ \A v, s : InScope(v, s)' <=> BelowTop(v, s) \/ Holds(f, v, s)
      /\ \A v, s : Marked(v, s)' <=> MarkedBelowTop(v, s) \/ HoldsCaptured(f, v, s)
  BY <1>1, <1>4, SetFrameEffect
<1>6. \A v, s : /\ Holds(f, v, s) <=> Holds(Frame, v, s)
                /\ HoldsCaptured(f, v, s) <=> HoldsCaptured(Frame, v, s)
  BY <1>4 DEF Holds, HoldsCaptured, SlotOf
<1>7. /\ \A v, s : InScope(v, s)' <=> InScope(v, s)
      /\ \A v, s : Marked(v, s)' <=> Marked(v, s)
  BY <1>1, <1>5, <1>6, TopApart
<1>8. QED
  BY <1>5, <1>7

LEMMA BeginScopeKeepsClosures ==
  ASSUME IInv, ClosureInv, BeginScope PROVE ClosureInv'
<1>1. IInv' /\ UNCHANGED <<mem, top, upvalues, open, building, closures, nvars>>
  BY BeginScopeKeeps DEF BeginScope
<1>2. QED
  BY <1>1, BeginScopeEffect, StayingKeeps, SameCaptures

(* A declared local is the next variable, in the slot that was the top.    *)
LEMMA DeclareLocalEffect ==
  ASSUME IInv, ClosureInv, Idle, nvars < MaxVariables, DeclareLocal, closures' = closures
  PROVE  /\ FramesClimb' /\ FramesRunClosures'
         /\ \A v, s : InScope(v, s)' <=>
              \/ InScope(v, s)
              \/ \E j \in 1 .. 1 : v = nvars + j /\ s = top - 1 + j
         /\ \A v, s : Marked(v, s) => Marked(v, s)'
<1> DEFINE new == Local(nvars + 1, Frame.depth)
           ls == Append(Frame.locals, new)
           f == [Frame EXCEPT !.locals = ls]
<1>1. /\ frames # << >> /\ ~ building.active /\ SetFrame(f)
      /\ TypeOK /\ StackMatchesLocals /\ FramesClimb /\ FramesRunClosures
  BY DEF Idle, IInv, ClosureInv, DeclareLocal
<1>2. /\ Frame \in FrameRecord(DOMAIN upvalues) /\ Frame.depth \in 1 .. MaxDepth
      /\ Frame.locals \in Seq(LocalRecord) /\ Len(Frame.locals) \in Nat \ {0}
      /\ Frame.slots \in Nat /\ top = Frame.slots + Len(Frame.locals)
  BY <1>1, FrameType, FrameLayout
<1>3. new \in LocalRecord /\ new.var = nvars + 1 /\ new.captured = FALSE
  <2>1. nvars + 1 \in Variable \cup {NoVariable}
    BY <1>1 DEF TypeOK, Variable
  <2>2. Frame.depth \in 0 .. MaxDepth
    BY <1>2
  <2>3. QED
    BY <2>1, <2>2 DEF Local, LocalRecord
<1> HIDE DEF new
<1>4. /\ ls \in Seq(LocalRecord) /\ Len(ls) = Len(Frame.locals) + 1
      /\ \A i \in 1 .. Len(Frame.locals) : ls[i] = Frame.locals[i]
      /\ ls[Len(Frame.locals) + 1] = new
  BY <1>2, <1>3
<1> HIDE DEF ls
<1>5. /\ f \in FrameRecord(DOMAIN upvalues) /\ f.slots = Frame.slots
      /\ f.locals = ls /\ f.captures = Frame.captures
  BY <1>2, <1>4 DEF FrameRecord
<1> HIDE DEF f
<1>6. /\ FramesClimb' /\ FramesRunClosures'
      /\ \A v, s : InScope(v, s)' <=> BelowTop(v, s) \/ Holds(f, v, s)
      /\ \A v, s : Marked(v, s)' <=> MarkedBelowTop(v, s) \/ HoldsCaptured(f, v, s)
  BY <1>1, <1>5, SetFrameEffect
<1>7. \A i \in 2 .. Len(Frame.locals) : i \in 2 .. Len(ls) /\ ls[i] = Frame.locals[i]
  BY <1>2, <1>4
<1>8. Len(ls) \in 2 .. Len(ls)
  BY <1>2, <1>4
<1>9. \A i \in 2 .. Len(ls) : i \in 2 .. Len(Frame.locals) \/ i = Len(ls)
  BY <1>2, <1>4
<1>10. SlotOf(f, Len(ls)) = top
  BY <1>2, <1>4, <1>5 DEF SlotOf
<1>11. \A i : SlotOf(f, i) = SlotOf(Frame, i)
  BY <1>5 DEF SlotOf
<1>12. ASSUME NEW v, NEW s
       PROVE  Holds(f, v, s) <=> Holds(Frame, v, s) \/ (v = nvars + 1 /\ s = top)
  <2>1. Holds(Frame, v, s) => Holds(f, v, s)
    BY <1>5, <1>7, <1>11 DEF Holds
  <2>2. (v = nvars + 1 /\ s = top) => Holds(f, v, s)
    BY <1>3, <1>4, <1>5, <1>8, <1>10 DEF Holds
  <2>3. Holds(f, v, s) => Holds(Frame, v, s) \/ (v = nvars + 1 /\ s = top)
    BY <1>3, <1>4, <1>5, <1>7, <1>9, <1>10, <1>11 DEF Holds
  <2>4. QED
    BY <2>1, <2>2, <2>3
<1>13. \A v, s : HoldsCaptured(Frame, v, s) => HoldsCaptured(f, v, s)
  BY <1>5, <1>7, <1>11 DEF HoldsCaptured
<1>14. \A v, s : (v = nvars + 1 /\ s = top)
                   <=> \E j \in 1 .. 1 : v = nvars + j /\ s = top - 1 + j
  BY <1>2
<1>15. \A v, s : InScope(v, s)' <=>
         \/ InScope(v, s)
         \/ \E j \in 1 .. 1 : v = nvars + j /\ s = top - 1 + j
  BY <1>1, <1>6, <1>12, <1>14, TopApart
<1>16. \A v, s : Marked(v, s) => Marked(v, s)'
  BY <1>1, <1>6, <1>13, TopApart
<1>17. QED
  BY <1>6, <1>15, <1>16

(* A local is declared with a value that is not null.                      *)
LEMMA DeclareLocalKeepsClosures ==
  ASSUME IInv, ClosureInv, IInv', Idle, Room(1), nvars < MaxVariables, DeclareLocal,
         NEW x, x # Null, mem' = [mem EXCEPT ![top] = x], nvars' = nvars + 1,
         \A v, u : Caught(v, u)' => Caught(v, u), UNCHANGED <<upvalues, closures>>
  PROVE  ClosureInv'
<1>1. /\ FramesClimb' /\ FramesRunClosures'
      /\ \A v, s : InScope(v, s)' <=>
           \/ InScope(v, s)
           \/ \E j \in 1 .. 1 : v = nvars + j /\ s = top - 1 + j
      /\ \A v, s : Marked(v, s) => Marked(v, s)'
  BY DeclareLocalEffect
<1>2. Limit = top /\ top \in Nat /\ top \in Slots /\ mem \in [Slots -> Cells]
  BY LimitRange DEF IInv, TypeOK, Slots
<1>3. \A s \in 0 .. Limit - 1 : mem'[s] = mem[s]
  BY <1>2, BelowLimit
<1>4. \A j \in 1 .. 1 : mem'[top - 1 + j] # Null
  <2>1. mem'[top] # Null
    BY <1>2
  <2>2. \A j \in 1 .. 1 : top - 1 + j = top
    BY <1>2
  <2>3. QED
    BY <2>1, <2>2
<1>5. top - 1 \in Int /\ top - 1 + 1 >= Limit
  BY <1>2
<1> HIDE DEF Limit
<1>6. QED
  BY <1>1, <1>3, <1>4, <1>5, DeclaringKeeps

LEMMA LetKeepsClosures ==
  ASSUME IInv, ClosureInv, NEW x \in Values, Let(x) PROVE ClosureInv'
<1>1. IInv'
  BY LetKeeps
<1>2. /\ Idle /\ Room(1) /\ nvars < MaxVariables /\ DeclareLocal
      /\ mem' = [mem EXCEPT ![top] = x] /\ nvars' = nvars + 1
      /\ UNCHANGED <<upvalues, open, building, closures>>
  BY DEF Let
<1>3. QED
  BY <1>1, <1>2, DeclareLocalKeepsClosures, SameCaptures, ValueNotNull

LEMMA OpClosureKeepsClosures ==
  ASSUME IInv, ClosureInv, NEW global \in BOOLEAN, OpClosure(global) PROVE ClosureInv'
<1>1. IInv'
  BY OpClosureKeeps
<1>2. /\ Idle /\ Room(1) /\ mem' = [mem EXCEPT ![top] = Fun]
      /\ UNCHANGED <<upvalues, open, closures>>
      /\ building' = [active |-> TRUE, global |-> global, captures |-> NoCaptures]
      /\ IF global
         THEN UNCHANGED <<frames, nvars>>
         ELSE nvars < MaxVariables /\ nvars' = nvars + 1 /\ DeclareLocal
  BY DEF OpClosure
<1>3. \A v, u : Caught(v, u)' => Caught(v, u)
  <2>1. \A v : v \notin DOMAIN NoCaptures
    BY DEF NoCaptures
  <2>2. AllCaptures' = closures \cup {NoCaptures}
    BY <1>2 DEF AllCaptures
  <2>3. QED
    BY <2>1, <2>2 DEF Caught, AllCaptures
<1>4. CASE global
  <2>1. Limit = top /\ top \in Nat /\ top \in Slots /\ mem \in [Slots -> Cells]
    BY <1>2, LimitRange DEF IInv, TypeOK, Slots
  <2>2. \A s \in 0 .. Limit - 1 : mem'[s] = mem[s]
    BY <1>2, <2>1, BelowLimit
  <2>3. QED
    BY <1>1, <1>2, <1>3, <1>4, <2>2, StayingKeeps, SameFrames
<1>5. CASE ~ global
  BY <1>1, <1>2, <1>3, <1>5, DeclareLocalKeepsClosures
<1>6. QED
  BY <1>4, <1>5

LEMMA ClosureDoneKeepsClosures ==
  ASSUME IInv, ClosureInv, ClosureDone PROVE ClosureInv'
<1>1. IInv'
  BY ClosureDoneKeeps
<1>2. /\ closures' = closures \cup {building.captures}
      /\ building' = [active |-> FALSE, global |-> FALSE, captures |-> NoCaptures]
      /\ UNCHANGED <<mem, frames, upvalues, open, nvars>>
  BY DEF ClosureDone
<1>3. \A v, u : Caught(v, u)' => Caught(v, u)
  <2>1. \A v : v \notin DOMAIN NoCaptures
    BY DEF NoCaptures
  <2>2. AllCaptures' = AllCaptures \cup {NoCaptures}
    BY <1>2 DEF AllCaptures
  <2>3. QED
    BY <2>1, <2>2 DEF Caught
<1>4. QED
  BY <1>1, <1>2, <1>3, StayingKeeps, SameFrames

(* Marking a local captured changes no slot.                               *)
LEMMA MarkEffect ==
  ASSUME IInv, ClosureInv, NEW i \in LocalIndex,
         SetFrame([Frame EXCEPT !.locals[i].captured = TRUE]), closures' = closures
  PROVE  /\ FramesClimb' /\ FramesRunClosures'
         /\ \A v, s : InScope(v, s)' <=> InScope(v, s)
         /\ \A v, s : Marked(v, s) => Marked(v, s)'
         /\ \A v, s : v = Frame.locals[i].var /\ s = SlotOf(Frame, i) =>
              InScope(v, s) /\ Marked(v, s)'
<1> DEFINE l == [Frame.locals[i] EXCEPT !.captured = TRUE]
           ls == [Frame.locals EXCEPT ![i] = l]
           f == [Frame EXCEPT !.locals = ls]
<1>1. /\ frames # << >> /\ i \in 2 .. Len(Frame.locals) /\ SetFrame(f)
      /\ TypeOK /\ StackMatchesLocals /\ FramesClimb /\ FramesRunClosures
  BY DEF LocalIndex, IInv, ClosureInv
<1>2. /\ Frame \in FrameRecord(DOMAIN upvalues)
      /\ Frame.locals \in Seq(LocalRecord) /\ Len(Frame.locals) \in Nat \ {0}
  BY <1>1, FrameLayout, FrameType
<1>3. i \in 1 .. Len(Frame.locals)
  BY <1>1, <1>2
<1>4. l \in LocalRecord /\ l.var = Frame.locals[i].var /\ l.captured = TRUE
  <2>1. Frame.locals[i] \in LocalRecord
    BY <1>2, <1>3, ElementOfSeq
  <2>2. QED
    BY <2>1 DEF LocalRecord
<1> HIDE DEF l
<1>5. /\ ls \in Seq(LocalRecord) /\ Len(ls) = Len(Frame.locals)
      /\ \A j \in 1 .. Len(Frame.locals) : ls[j] = IF j = i THEN l ELSE Frame.locals[j]
  BY <1>2, <1>3, <1>4, ExceptSeq
<1> HIDE DEF ls
<1>6. /\ f \in FrameRecord(DOMAIN upvalues) /\ f.slots = Frame.slots
      /\ f.locals = ls /\ f.captures = Frame.captures
  BY <1>2, <1>5 DEF FrameRecord
<1> HIDE DEF f
<1>7. /\ FramesClimb' /\ FramesRunClosures'
      /\ \A v, s : InScope(v, s)' <=> BelowTop(v, s) \/ Holds(f, v, s)
      /\ \A v, s : Marked(v, s)' <=> MarkedBelowTop(v, s) \/ HoldsCaptured(f, v, s)
  BY <1>1, <1>6, SetFrameEffect
<1>8. \A j \in 2 .. Len(Frame.locals) :
        ls[j].var = Frame.locals[j].var /\ (Frame.locals[j].captured => ls[j].captured)
  <2> SUFFICES ASSUME NEW j \in 2 .. Len(Frame.locals)
               PROVE  /\ ls[j].var = Frame.locals[j].var
                      /\ Frame.locals[j].captured => ls[j].captured
    OBVIOUS
  <2>1. j \in 1 .. Len(Frame.locals)
    BY <1>2
  <2>2. QED
    BY <1>4, <1>5, <2>1
<1>9. \A j : SlotOf(f, j) = SlotOf(Frame, j)
  BY <1>6 DEF SlotOf
<1>10. \A v, s : Holds(f, v, s) <=> Holds(Frame, v, s)
  BY <1>5, <1>6, <1>8, <1>9 DEF Holds
<1>11. \A v, s : HoldsCaptured(Frame, v, s) => HoldsCaptured(f, v, s)
  BY <1>5, <1>6, <1>8, <1>9 DEF HoldsCaptured
<1>12. ASSUME NEW v, NEW s, v = Frame.locals[i].var, s = SlotOf(Frame, i)
       PROVE  InScope(v, s) /\ Marked(v, s)'
  <2>1. Holds(Frame, v, s)
    BY <1>1, <1>12 DEF Holds
  <2>2. HoldsCaptured(f, v, s)
    BY <1>1, <1>3, <1>4, <1>5, <1>6, <1>9, <1>12 DEF HoldsCaptured
  <2>3. QED
    BY <1>1, <1>7, <2>1, <2>2, TopApart
<1>13. \A v, s : InScope(v, s)' <=> InScope(v, s)
  BY <1>1, <1>7, <1>10, TopApart
<1>14. \A v, s : Marked(v, s) => Marked(v, s)'
  BY <1>1, <1>7, <1>11, TopApart
<1>15. QED
  BY <1>7, <1>12, <1>13, <1>14

LEMMA ClosureSkippedKeepsClosures ==
  ASSUME IInv, ClosureInv, NEW i \in LocalIndex, ClosureSkipped(i) PROVE ClosureInv'
<1>1. IInv'
  BY ClosureSkippedKeeps
<1>2. /\ SetFrame([Frame EXCEPT !.locals[i].captured = TRUE])
      /\ UNCHANGED <<mem, top, upvalues, open, building, closures, nvars>>
  BY DEF ClosureSkipped
<1>3. /\ FramesClimb' /\ FramesRunClosures'
      /\ \A v, s : InScope(v, s)' <=> InScope(v, s)
      /\ \A v, s : Marked(v, s) => Marked(v, s)'
  BY <1>2, MarkEffect
<1>4. QED
  BY <1>1, <1>2, <1>3, StayingKeeps, SameCaptures

(* The closure being built captures one more variable.                     *)
LEMMA WithCaptureCatches ==
  ASSUME NEW v, NEW u, closures' = closures, building'.captures = WithCapture(v, u)
  PROVE  \A w, t : Caught(w, t)' => Caught(w, t) \/ (w = v /\ t = u)
<1>2. AllCaptures' = closures \cup {WithCapture(v, u)}
  BY DEF AllCaptures
<1>3. \A w : w \in DOMAIN WithCapture(v, u) =>
        \/ w = v /\ WithCapture(v, u)[w] = u
        \/ w \in DOMAIN building.captures /\ WithCapture(v, u)[w] = building.captures[w]
  BY DEF WithCapture
<1>4. QED
  BY <1>2, <1>3 DEF Caught, AllCaptures

(* What the running closure has captured.                                  *)
LEMMA FrameCatches ==
  ASSUME IInv, ClosureInv, NEW v \in Captured
  PROVE  Caught(v, Frame.captures[v]) /\ frames # << >>
<1>1. frames # << >> /\ v \in DOMAIN Frame.captures
  BY DEF Captured
<1>2. Len(frames) \in DOMAIN frames
  BY <1>1, FrameType DEF IInv
<1>3. Frame.captures \in closures \cup {NoCaptures}
  BY <1>2 DEF ClosureInv, FramesRunClosures, Frame
<1>4. \A w : w \notin DOMAIN NoCaptures
  BY DEF NoCaptures
<1>5. QED
  BY <1>1, <1>3, <1>4 DEF Caught, AllCaptures

LEMMA CopyUpvalueKeepsClosures ==
  ASSUME IInv, ClosureInv, NEW v \in Captured, CopyUpvalue(v) PROVE ClosureInv'
<1>1. IInv'
  BY CopyUpvalueKeeps
<1>2. /\ building' = [building EXCEPT !.captures = WithCapture(v, Frame.captures[v])]
      /\ UNCHANGED <<mem, top, frames, upvalues, open, closures, nvars>>
  BY DEF CopyUpvalue
<1>3. Caught(v, Frame.captures[v])
  BY FrameCatches
<1>4. \A w, t : Caught(w, t)' => Caught(w, t)
  <2>1. building'.captures = WithCapture(v, Frame.captures[v])
    BY <1>2 DEF IInv, TypeOK
  <2>2. QED
    BY <1>2, <1>3, <2>1, WithCaptureCatches
<1>5. QED
  BY <1>1, <1>2, <1>4, StayingKeeps, SameFrames

LEMMA CaptureLocalKeepsClosures ==
  ASSUME IInv, ClosureInv, NEW i \in LocalIndex, CaptureLocal(i) PROVE ClosureInv'
<1>1. IInv' /\ TypeOK /\ StackMatchesLocals /\ OpenListSorted
  BY CaptureLocalKeeps DEF IInv
<1>a. PICK v : v = Frame.locals[i].var
  OBVIOUS
<1>b. PICK slot : slot = SlotOf(Frame, i)
  OBVIOUS
<1>2. PICK pos \in 1 .. Len(open) + 1 :
        /\ ScanStopsAt(slot, pos)
        /\ IF pos <= Len(open) /\ upvalues[open[pos]].location = slot
           THEN /\ building' = [building EXCEPT !.captures = WithCapture(v, open[pos])]
                /\ UNCHANGED <<upvalues, open>>
           ELSE /\ LinkIn(slot, pos)
                /\ building' = [building EXCEPT !.captures =
                                  WithCapture(v, Len(upvalues) + 1)]
  BY <1>a, <1>b DEF CaptureLocal
<1>3. /\ SetFrame([Frame EXCEPT !.locals[i].captured = TRUE])
      /\ UNCHANGED <<mem, top, closures, nvars>>
  BY DEF CaptureLocal
<1>4. /\ FramesClimb' /\ FramesRunClosures'
      /\ \A w, s : InScope(w, s)' <=> InScope(w, s)
      /\ \A w, s : Marked(w, s) => Marked(w, s)'
      /\ InScope(v, slot) /\ Marked(v, slot)'
  BY <1>3, <1>a, <1>b, MarkEffect
<1>c. TypeOK /\ closures' = closures
  BY <1>1, <1>3
<1>5. frames # << >> /\ slot \in Slots /\ slot \in Nat
  BY <1>1, <1>b, LocalSlot
<1>6. /\ open \in Seq(DOMAIN upvalues) /\ Len(open) \in Nat /\ DOMAIN open = 1 .. Len(open)
      /\ upvalues \in Seq(UpvalueRecord) /\ Len(upvalues) \in Nat
      /\ DOMAIN upvalues = 1 .. Len(upvalues)
  BY <1>1, LenProperties DEF TypeOK
<1>7. CASE pos <= Len(open) /\ upvalues[open[pos]].location = slot
  <2>1. open[pos] \in DOMAIN upvalues
    <3>1. pos \in 1 .. Len(open)
      BY <1>6, <1>7
    <3>2. QED
      BY <1>6, <3>1, ElementOfSeq
  <2>a. PICK up : up = open[pos]
    OBVIOUS
  <2>b. building'.captures = WithCapture(v, up)
    BY <1>2, <1>7, <1>c, <2>a DEF TypeOK
  <2>2. \A w, t : Caught(w, t)' => Caught(w, t) \/ (w = v /\ t = up)
    BY <1>c, <2>b, WithCaptureCatches
  <2>3. upvalues'[up] = upvalues[up] /\ upvalues' = upvalues
    BY <1>2, <1>7
  <2>4. /\ up \in DOMAIN upvalues /\ upvalues'[up].location = slot
        /\ \A w, t : Caught(w, t)' => Caught(w, t) \/ (w = v /\ t = up)
    BY <1>7, <2>a, <2>1, <2>2, <2>3
  <2>5. QED
    BY <1>1, <1>3, <1>4, <2>3, <2>4, CapturingKeeps
<1>8. CASE ~ (pos <= Len(open) /\ upvalues[open[pos]].location = slot)
  <2> DEFINE rec == [location |-> slot, closed |-> Null]
  <2>a. PICK up : up = Len(upvalues) + 1
    OBVIOUS
  <2>1. upvalues' = Append(upvalues, rec)
    BY <1>2, <1>8 DEF LinkIn
  <2>2. rec.location = slot
    OBVIOUS
  <2> HIDE DEF rec
  <2>3. /\ \A u \in DOMAIN upvalues : upvalues'[u] = upvalues[u]
        /\ upvalues'[up].location = slot
    BY <1>6, <2>a, <2>1, <2>2
  <2>4. \A u \in DOMAIN upvalues : upvalues[u].location # slot
    <3>1. SUFFICES ASSUME NEW u \in DOMAIN upvalues, upvalues[u].location = slot
                   PROVE  FALSE
      OBVIOUS
    <3>2. slot # Self
      BY <1>5 DEF Self
    <3>3. PICK k \in DOMAIN open : open[k] = u
      BY <1>1, <3>1, <3>2 DEF OpenListSorted
    <3>4. k \in Int /\ pos \in Int /\ k >= 1 /\ k <= Len(open)
      BY <1>6
    <3>5. CASE k < pos
      <4>1. k \in 1 .. pos - 1
        BY <3>4, <3>5
      <4>2. upvalues[open[k]].location > slot
        BY <1>2, <4>1 DEF ScanStopsAt
      <4>3. QED
        BY <1>5, <3>1, <3>3, <4>2
    <3>6. CASE pos <= k
      <4>1. pos \in DOMAIN open /\ pos <= Len(open)
        BY <1>6, <3>4, <3>6
      <4>2. open[pos] \in DOMAIN upvalues
        BY <1>6, <4>1, ElementOfSeq
      <4>3. upvalues[open[pos]].location \in Int
        BY <1>1, <4>2, LocationType
      <4>4. upvalues[open[pos]].location <= slot /\ upvalues[open[pos]].location # slot
        BY <1>2, <1>8, <4>1 DEF ScanStopsAt
      <4>5. pos # k => upvalues[open[pos]].location > upvalues[open[k]].location
        BY <1>1, <3>4, <3>6, <4>1 DEF OpenListSorted
      <4>6. QED
        BY <1>5, <3>1, <3>3, <4>3, <4>4, <4>5
    <3>7. QED
      BY <3>4, <3>5, <3>6
  <2>b. building'.captures = WithCapture(v, up)
    BY <1>2, <1>8, <1>c, <2>a DEF TypeOK
  <2>5. \A w, t : Caught(w, t)' => Caught(w, t) \/ (w = v /\ t = up)
    BY <1>c, <2>b, WithCaptureCatches
  <2>6. QED
    BY <1>1, <1>3, <1>4, <2>3, <2>4, <2>5, CapturingKeeps
<1>9. QED
  BY <1>7, <1>8

-----------------------------------------------------------------------------
(* The ends of scopes, loops, functions and programs.                      *)

(* Dropping the locals after the first "keep".                             *)
LEMMA DropEffect ==
  ASSUME IInv, ClosureInv, Idle, NEW keep \in 1 .. Len(Frame.locals),
         NEW d \in 1 .. MaxDepth, closures' = closures,
         SetFrame([Frame EXCEPT !.depth = d, !.locals = SubSeq(@, 1, keep)])
  PROVE  LET floor == Frame.slots + keep IN
         /\ FramesClimb' /\ FramesRunClosures'
         /\ \A v, s : InScope(v, s)' <=> InScope(v, s) /\ s < floor
         /\ \A v, s : Marked(v, s) /\ s < floor => Marked(v, s)'
         /\ \A v, s : Marked(v, s) /\ ~ (s < floor) =>
              \E i \in CapturedAfter(keep) : SlotOf(Frame, i) = s
<1> DEFINE ls == SubSeq(Frame.locals, 1, keep)
           f == [Frame EXCEPT !.depth = d, !.locals = ls]
           floor == Frame.slots + keep
<1>1. /\ frames # << >> /\ SetFrame(f)
      /\ TypeOK /\ StackMatchesLocals /\ FramesClimb /\ FramesRunClosures
  BY DEF Idle, IInv, ClosureInv
<1>2. /\ Frame \in FrameRecord(DOMAIN upvalues) /\ Frame.slots \in Nat
      /\ Frame.locals \in Seq(LocalRecord) /\ Len(Frame.locals) \in Nat \ {0}
  BY <1>1, FrameLayout, FrameType
<1>3. keep \in Nat /\ keep >= 1 /\ keep <= Len(Frame.locals)
  BY <1>2
<1>4. /\ ls \in Seq(LocalRecord) /\ Len(ls) = keep
      /\ \A i \in 1 .. keep : ls[i] = Frame.locals[i]
  <2>1. keep \in 0 .. Len(Frame.locals)
    BY <1>2
  <2>2. QED
    BY <1>2, <2>1, TakePrefix
<1> HIDE DEF ls
<1>5. /\ f \in FrameRecord(DOMAIN upvalues) /\ f.slots = Frame.slots
      /\ f.locals = ls /\ f.captures = Frame.captures
  BY <1>2, <1>4 DEF FrameRecord
<1> HIDE DEF f
<1>6. /\ FramesClimb' /\ FramesRunClosures'
      /\ \A v, s : InScope(v, s)' <=> BelowTop(v, s) \/ Holds(f, v, s)
      /\ \A v, s : Marked(v, s)' <=> MarkedBelowTop(v, s) \/ HoldsCaptured(f, v, s)
  BY <1>1, <1>5, SetFrameEffect
<1>7. \A i \in 2 .. keep : i \in 2 .. Len(Frame.locals) /\ ls[i] = Frame.locals[i]
  BY <1>2, <1>3, <1>4
<1>8. \A i : SlotOf(f, i) = SlotOf(Frame, i)
  BY <1>5 DEF SlotOf
<1>9. ASSUME NEW i \in 2 .. Len(Frame.locals)
      PROVE  i \in 2 .. keep <=> SlotOf(Frame, i) < floor
  <2>1. i \in Nat /\ i >= 2
    BY <1>2
  <2>2. QED
    BY <1>2, <1>3, <2>1 DEF SlotOf
<1>10. \A v, s : Holds(f, v, s) <=> Holds(Frame, v, s) /\ s < floor
  <2>1. \A v, s : Holds(f, v, s) => Holds(Frame, v, s) /\ s < floor
    BY <1>4, <1>5, <1>7, <1>8, <1>9 DEF Holds
  <2>2. \A v, s : Holds(Frame, v, s) /\ s < floor => Holds(f, v, s)
    BY <1>4, <1>5, <1>7, <1>8, <1>9 DEF Holds
  <2>3. QED
    BY <2>1, <2>2
<1>11. \A v, s : HoldsCaptured(Frame, v, s) /\ s < floor => HoldsCaptured(f, v, s)
  BY <1>4, <1>5, <1>7, <1>8, <1>9 DEF HoldsCaptured
<1>12. \A v, s : BelowTop(v, s) => s < floor
  <2>1. \A v, s : BelowTop(v, s) => s \in Nat /\ s < Frame.slots
    BY <1>1, TopApart
  <2>2. QED
    BY <1>2, <1>3, <2>1
<1>13. ASSUME NEW v, NEW s, HoldsCaptured(Frame, v, s), ~ (s < floor)
       PROVE  \E i \in CapturedAfter(keep) : SlotOf(Frame, i) = s
  <2>1. PICK i \in 2 .. Len(Frame.locals) :
          SlotOf(Frame, i) = s /\ Frame.locals[i].captured
    BY <1>13 DEF HoldsCaptured
  <2>2. i \notin 2 .. keep
    BY <1>9, <1>13, <2>1
  <2>3. i \in keep + 1 .. Len(Frame.locals)
    BY <1>2, <1>3, <2>1, <2>2
  <2>4. QED
    BY <2>1, <2>3 DEF CapturedAfter
<1> HIDE DEF floor
<1>14. \A v, s : InScope(v, s)' <=> InScope(v, s) /\ s < floor
  BY <1>1, <1>6, <1>10, <1>12, TopApart
<1>15. \A v, s : Marked(v, s) /\ s < floor => Marked(v, s)'
  BY <1>1, <1>6, <1>11, TopApart
<1>16. \A v, s : Marked(v, s) /\ ~ (s < floor) =>
         \E i \in CapturedAfter(keep) : SlotOf(Frame, i) = s
  BY <1>1, <1>12, <1>13, TopApart
<1>17. QED
  BY <1>6, <1>14, <1>15, <1>16 DEF floor

(* close_upvalue closes exactly the upvalues from the slot on.             *)
LEMMA CloseEffect ==
  ASSUME IInv, NEW slot \in Nat, NEW m, CloseUpvalue(slot, m), NEW u \in DOMAIN upvalues
  PROVE  IF upvalues[u].location >= slot
         THEN /\ upvalues'[u].location = Self
              /\ upvalues'[u].closed = m[upvalues[u].location]
         ELSE upvalues'[u] = upvalues[u]
<1>1. PICK k \in 0 .. Len(open) :
        /\ ClosesFirst(k, slot)
        /\ upvalues' = [t \in DOMAIN upvalues |->
             IF \E i \in 1 .. k : open[i] = t
             THEN [location |-> Self, closed |-> m[upvalues[t].location]]
             ELSE upvalues[t]]
  BY DEF CloseUpvalue
<1>2. /\ TypeOK /\ OpenListSorted /\ open \in Seq(DOMAIN upvalues)
      /\ Len(open) \in Nat /\ DOMAIN open = 1 .. Len(open)
  BY LenProperties DEF IInv, TypeOK
<1>3. \A i \in DOMAIN open : open[i] \in DOMAIN upvalues /\ upvalues[open[i]].location \in Int
  BY <1>2, ElementOfSeq, LocationType
<1>4. upvalues[u].location >= slot <=> \E i \in 1 .. k : open[i] = u
  <2>1. ASSUME NEW i \in 1 .. k, open[i] = u PROVE upvalues[u].location >= slot
    BY <1>1, <2>1 DEF ClosesFirst
  <2>2. ASSUME upvalues[u].location >= slot PROVE \E i \in 1 .. k : open[i] = u
    <3>1. upvalues[u].location # Self
      BY <2>2 DEF Self
    <3>2. PICK i \in DOMAIN open : open[i] = u
      BY <1>2, <3>1 DEF OpenListSorted
    <3>3. i \in Int /\ i >= 1 /\ i <= Len(open) /\ k \in Int
      BY <1>2
    <3>4. CASE i <= k
      BY <3>2, <3>3, <3>4
    <3>5. CASE k < i
      <4>1. k + 1 \in DOMAIN open /\ k < Len(open)
        BY <1>2, <3>3, <3>5
      <4>2. upvalues[open[k + 1]].location < slot
        BY <1>1, <4>1 DEF ClosesFirst
      <4>3. k + 1 < i => upvalues[open[k + 1]].location > upvalues[open[i]].location
        BY <1>2, <4>1 DEF OpenListSorted
      <4>4. k + 1 = i \/ k + 1 < i
        BY <3>3, <3>5
      <4>5. upvalues[open[k + 1]].location \in Int /\ upvalues[open[i]].location \in Int
        BY <1>3, <4>1
      <4>6. QED
        BY <2>2, <3>2, <4>2, <4>3, <4>4, <4>5
    <3>6. QED
      BY <3>3, <3>4, <3>5
  <2>3. QED
    BY <2>1, <2>2
<1>5. QED
  BY <1>1, <1>4

LEMMA EndScopeDrops ==
  ASSUME IInv, ClosureInv, Exits \subseteq {"scope"}, EndScope
  PROVE  \E floor \in Nat : Drops(floor)
<1>2. /\ Idle /\ Frame.depth > 1 /\ UNCHANGED <<mem, building, closures, nvars>>
      /\ TypeOK /\ StackMatchesLocals
  BY DEF EndScope, IInv
<1>3. PICK keep \in 1 .. Len(Frame.locals) :
        /\ CapturedAfter(keep) \subseteq {Len(Frame.locals)} \/ CapturedAfter(keep) = {}
        /\ SetFrame([Frame EXCEPT !.depth = @ - 1, !.locals = SubSeq(@, 1, keep)])
        /\ IF CapturedAfter(keep) # {}
           THEN CloseUpvalue(top - 1, mem)
           ELSE UNCHANGED <<upvalues, open>>
  BY DEF EndScope
<1>4. /\ Frame.slots \in Nat /\ Len(Frame.locals) \in Nat \ {0} /\ top \in Nat
      /\ top = Frame.slots + Len(Frame.locals) /\ Frame.depth \in 1 .. MaxDepth
  BY <1>2, FrameLayout DEF Idle, TypeOK
<1>5. PICK floor : floor = Frame.slots + keep
  OBVIOUS
<1>6. floor \in Nat /\ keep \in Nat /\ keep <= Len(Frame.locals)
  BY <1>4, <1>5
<1>7. Frame.depth - 1 \in 1 .. MaxDepth
  BY <1>2, <1>4
<1>8. /\ FramesClimb' /\ FramesRunClosures'
      /\ \A v, s : InScope(v, s)' <=> InScope(v, s) /\ s < floor
      /\ \A v, s : Marked(v, s) /\ s < floor => Marked(v, s)'
      /\ \A v, s : Marked(v, s) /\ ~ (s < floor) =>
           \E i \in CapturedAfter(keep) : SlotOf(Frame, i) = s
  BY <1>2, <1>3, <1>5, <1>7, DropEffect
<1>9. ASSUME NEW v, NEW u, Caught(v, u)
      PROVE  IF upvalues[u].location >= floor
             THEN /\ upvalues'[u].location = Self
                  /\ upvalues'[u].closed = mem[upvalues[u].location]
             ELSE upvalues'[u] = upvalues[u]
  <2>1. u \in DOMAIN upvalues /\ upvalues[u].location \in Int
    BY <1>2, <1>9, CaughtRange, LocationType DEF ClosureInv
  <2>2. ASSUME upvalues[u].location >= floor
        PROVE  CapturedAfter(keep) # {} /\ upvalues[u].location >= top - 1
    <3>1. upvalues[u].location # Self
      BY <1>6, <2>2 DEF Self
    <3>2. Marked(v, upvalues[u].location)
      BY <1>9, <3>1, Relations
    <3>3. PICK i \in CapturedAfter(keep) : SlotOf(Frame, i) = upvalues[u].location
      BY <1>6, <1>8, <2>1, <2>2, <3>2
    <3>4. i = Len(Frame.locals)
      BY <1>3, <3>3
    <3>5. QED
      BY <1>4, <3>3, <3>4 DEF SlotOf
  <2>3. CASE CapturedAfter(keep) # {}
    <3>1. PICK i \in CapturedAfter(keep) : TRUE
      BY <2>3
    <3>2. i = Len(Frame.locals) /\ keep + 1 <= i
      BY <1>3, <1>4, <1>6, <3>1 DEF CapturedAfter
    <3>3. floor <= top - 1 /\ top - 1 \in Nat
      BY <1>4, <1>5, <1>6, <3>2
    <3>4. IF upvalues[u].location >= top - 1
          THEN /\ upvalues'[u].location = Self
               /\ upvalues'[u].closed = mem[upvalues[u].location]
          ELSE upvalues'[u] = upvalues[u]
      BY <1>3, <2>1, <2>3, <3>3, CloseEffect
    <3>5. upvalues[u].location >= top - 1 => upvalues[u].location >= floor
      BY <1>4, <1>6, <2>1, <3>3
    <3>6. QED
      BY <2>2, <3>4, <3>5
  <2>4. CASE CapturedAfter(keep) = {}
    BY <1>3, <2>2, <2>4
  <2>5. QED
    BY <2>3, <2>4
<1>10. \A v, u : Caught(v, u)' <=> Caught(v, u)
  BY <1>2, SameCaptures
<1>11. QED
  BY <1>2, <1>6, <1>8, <1>9, <1>10 DEF Drops

LEMMA EndScopeKeepsClosures ==
  ASSUME IInv, ClosureInv, Exits \subseteq {"scope"}, EndScope PROVE ClosureInv'
  BY EndScopeDrops, EndScopeKeeps, DroppingKeeps

LEMMA LoopExitDrops ==
  ASSUME IInv, ClosureInv, Exits \subseteq {"scope"}, NEW d \in OuterDepths, LoopExit(d)
  PROVE  \E floor \in Nat : Drops(floor)
<1>2. /\ Idle /\ UNCHANGED <<mem, upvalues, open, building, closures, nvars>>
      /\ TypeOK /\ StackMatchesLocals
  BY DEF LoopExit, IInv
<1>3. PICK keep \in 1 .. Len(Frame.locals) :
        /\ CapturedAfter(keep) = {}
        /\ SetFrame([Frame EXCEPT !.depth = d, !.locals = SubSeq(@, 1, keep)])
  BY DEF LoopExit
<1>4. /\ Frame.slots \in Nat /\ Len(Frame.locals) \in Nat \ {0}
      /\ Frame.depth \in 1 .. MaxDepth
  BY <1>2, FrameLayout DEF Idle
<1>5. d \in 1 .. MaxDepth
  <2>1. d \in 1 .. Frame.depth - 1
    BY <1>2 DEF Idle, OuterDepths
  <2>2. QED
    BY <1>4, <2>1
<1>6. PICK floor : floor = Frame.slots + keep
  OBVIOUS
<1>7. floor \in Nat
  BY <1>4, <1>6
<1>8. /\ FramesClimb' /\ FramesRunClosures'
      /\ \A v, s : InScope(v, s)' <=> InScope(v, s) /\ s < floor
      /\ \A v, s : Marked(v, s) /\ s < floor => Marked(v, s)'
      /\ \A v, s : Marked(v, s) /\ ~ (s < floor) =>
           \E i \in CapturedAfter(keep) : SlotOf(Frame, i) = s
  BY <1>2, <1>3, <1>5, <1>6, DropEffect
<1>9. ASSUME NEW v, NEW u, Caught(v, u)
      PROVE  ~ (upvalues[u].location >= floor)
  <2>1. upvalues[u].location \in Int
    BY <1>2, <1>9, CaughtRange, LocationType DEF ClosureInv
  <2>2. SUFFICES ASSUME upvalues[u].location >= floor PROVE FALSE
    OBVIOUS
  <2>3. upvalues[u].location # Self
    BY <1>7, <2>2 DEF Self
  <2>4. Marked(v, upvalues[u].location)
    BY <1>9, <2>3, Relations
  <2>5. QED
    BY <1>3, <1>7, <1>8, <2>1, <2>2, <2>4
<1>10. \A v, u : Caught(v, u)' <=> Caught(v, u)
  BY <1>2, SameCaptures
<1>11. QED
  BY <1>2, <1>7, <1>8, <1>9, <1>10 DEF Drops

LEMMA LoopExitKeepsClosures ==
  ASSUME IInv, ClosureInv, Exits \subseteq {"scope"}, NEW d \in OuterDepths, LoopExit(d)
  PROVE  ClosureInv'
  BY LoopExitDrops, LoopExitKeeps, DroppingKeeps

(* A call declares its parameters.                                         *)
LEMMA CallEffect ==
  ASSUME IInv, ClosureInv, NEW c \in closures, NEW args \in Arguments, Call(c, args)
  PROVE  /\ FramesClimb' /\ FramesRunClosures'
         /\ \A v, s : InScope(v, s)' <=>
              \/ InScope(v, s)
              \/ \E j \in 1 .. Len(args) : v = nvars + j /\ s = top + j
         /\ \A v, s : Marked(v, s) => Marked(v, s)'
         /\ \A s \in 0 .. Limit - 1 : mem'[s] = mem[s]
         /\ \A j \in 1 .. Len(args) : mem'[top + j] = args[j]
         /\ Len(args) \in Nat /\ Limit = top /\ top \in Nat
         /\ \A j \in 1 .. Len(args) : args[j] \in Values
<1> DEFINE ls == <<Callee>> \o [i \in 1 .. Len(args) |-> Local(nvars + i, 1)]
           f == CallFrame(top, ls, c)
<1>1. TypeOK /\ StackMatchesLocals /\ FramesClimb /\ FramesRunClosures
  BY DEF IInv, ClosureInv
<1>2. /\ Idle /\ nvars + Len(args) <= MaxVariables /\ Room(1 + Len(args))
      /\ mem' = [s \in Slots |->
           IF s = top THEN Fun
           ELSE IF s \in top + 1 .. top + Len(args) THEN args[s - top] ELSE mem[s]]
      /\ nvars' = nvars + Len(args)
      /\ frames' = Append(frames, f)
      /\ UNCHANGED <<upvalues, open, building, closures>>
  BY DEF Call
<1>3. Len(args) \in Nat /\ \A i \in 1 .. Len(args) : args[i] \in Values
  <2>1. CASE args = << >>
    BY <2>1
  <2>2. ASSUME NEW x \in Values, args = <<x>>
        PROVE  Len(args) \in Nat /\ \A i \in 1 .. Len(args) : args[i] \in Values
    BY <2>2
  <2>3. QED
    BY <2>1, <2>2 DEF Arguments
<1>4. PICK n : n = Len(args)
  OBVIOUS
<1>5. /\ top \in Nat /\ top \in Slots /\ Limit = top /\ nvars \in Nat
      /\ c \in Captures(DOMAIN upvalues)
  BY <1>1, <1>2, LimitRange DEF TypeOK, Slots
<1>6. /\ ls \in Seq(LocalRecord) /\ Len(ls) = n + 1
      /\ \A j \in 1 .. n : ls[j + 1] = Local(nvars + j, 1)
  BY <1>2, <1>3, <1>4, <1>5, ArgumentLocals
<1> HIDE DEF ls
<1>7. /\ f.slots = top /\ f.locals = ls /\ f.captures = c
      /\ f \in FrameRecord(DOMAIN upvalues)
  BY <1>5, <1>6 DEF CallFrame, FrameRecord
<1> HIDE DEF f
<1>8. /\ FramesClimb' /\ FramesRunClosures'
      /\ \A v, s : InScope(v, s)' <=> InScope(v, s) \/ Holds(f, v, s)
      /\ \A v, s : Marked(v, s) => Marked(v, s)'
  BY <1>1, <1>2, <1>5, <1>7, PushFrameEffect
<1>9. ASSUME NEW v, NEW s
      PROVE  Holds(f, v, s) <=> \E j \in 1 .. n : v = nvars + j /\ s = top + j
  <2>1. ASSUME NEW j \in 1 .. n
        PROVE  /\ j + 1 \in 2 .. Len(ls) /\ ls[j + 1].var = nvars + j
               /\ SlotOf(f, j + 1) = top + j
    <3>1. j \in Nat /\ j >= 1 /\ j <= n /\ n \in Nat
      BY <1>3, <1>4
    <3>2. j + 1 \in 2 .. Len(ls)
      BY <1>6, <3>1
    <3>3. ls[j + 1].var = nvars + j
      <4>1. ls[j + 1] = Local(nvars + j, 1)
        BY <1>6
      <4>2. Local(nvars + j, 1).var = nvars + j
        BY DEF Local
      <4>3. QED
        BY <4>1, <4>2
    <3>4. SlotOf(f, j + 1) = top + j
      BY <1>5, <1>7, <3>1 DEF SlotOf
    <3>5. QED
      BY <3>2, <3>3, <3>4
  <2>2. ASSUME NEW i \in 2 .. Len(ls)
        PROVE  i - 1 \in 1 .. n /\ ls[i].var = nvars + (i - 1) /\ SlotOf(f, i) = top + (i - 1)
    <3>1. i - 1 \in 1 .. n /\ i = (i - 1) + 1
      BY <1>3, <1>4, <1>6
    <3>2. PICK j \in 1 .. n : j = i - 1
      BY <3>1
    <3>3. ls[i].var = nvars + j /\ SlotOf(f, i) = top + j
      BY <2>1, <3>1, <3>2
    <3>4. QED
      BY <3>1, <3>2, <3>3
  <2>3. QED
    BY <1>7, <2>1, <2>2 DEF Holds
<1>10. \A v, s : InScope(v, s)' <=>
         \/ InScope(v, s)
         \/ \E j \in 1 .. n : v = nvars + j /\ s = top + j
  BY <1>8, <1>9
<1>11. \A s \in 0 .. Limit - 1 : mem'[s] = mem[s]
  <2> SUFFICES ASSUME NEW s \in 0 .. Limit - 1 PROVE mem'[s] = mem[s]
    OBVIOUS
  <2>1. s \in Slots /\ s \in Nat /\ s < top
    BY BelowLimit
  <2>2. s # top /\ s \notin top + 1 .. top + Len(args)
    BY <1>3, <1>5, <2>1
  <2>3. QED
    BY <1>2, <2>1, <2>2
<1>12. ASSUME NEW j \in 1 .. n PROVE mem'[top + j] = args[j]
  <2>1. top + j \in Slots /\ top + j # top /\ top + j \in top + 1 .. top + Len(args)
    BY <1>2, <1>3, <1>4, <1>5 DEF Room, Slots
  <2>2. mem'[top + j] = args[(top + j) - top]
    BY <1>2, <2>1
  <2>3. (top + j) - top = j
    BY <1>3, <1>4, <1>5
  <2>4. QED
    BY <2>2, <2>3
<1>13. QED
  BY <1>3, <1>4, <1>5, <1>8, <1>10, <1>11, <1>12

LEMMA CallKeepsClosures ==
  ASSUME IInv, ClosureInv, NEW c \in closures, NEW args \in Arguments, Call(c, args)
  PROVE  ClosureInv'
<1>1. IInv'
  BY CallKeeps
<1>2. nvars' = nvars + Len(args) /\ UNCHANGED <<upvalues, open, building, closures>>
  BY DEF Call
<1>3. PICK n : n = Len(args)
  OBVIOUS
<1>4. /\ FramesClimb' /\ FramesRunClosures'
      /\ \A v, s : InScope(v, s)' <=>
           \/ InScope(v, s)
           \/ \E j \in 1 .. n : v = nvars + j /\ s = top + j
      /\ \A v, s : Marked(v, s) => Marked(v, s)'
      /\ \A s \in 0 .. Limit - 1 : mem'[s] = mem[s]
      /\ \A j \in 1 .. n : mem'[top + j] # Null
      /\ n \in Nat /\ Limit = top /\ top \in Nat
  <2> HIDE DEF Limit
  <2>1. /\ FramesClimb' /\ FramesRunClosures'
        /\ \A v, s : InScope(v, s)' <=>
             \/ InScope(v, s)
             \/ \E j \in 1 .. Len(args) : v = nvars + j /\ s = top + j
        /\ \A v, s : Marked(v, s) => Marked(v, s)'
        /\ \A s \in 0 .. Limit - 1 : mem'[s] = mem[s]
        /\ \A j \in 1 .. Len(args) : mem'[top + j] = args[j]
        /\ Len(args) \in Nat /\ Limit = top /\ top \in Nat
        /\ \A j \in 1 .. Len(args) : args[j] \in Values
    BY CallEffect
  <2>2. Null \notin Values
    OBVIOUS
  <2>3. QED
    BY <1>3, <2>1, <2>2
<1>5. top \in Int /\ top + 1 >= Limit /\ nvars' = nvars + n
  BY <1>2, <1>3, <1>4
<1>6. \A v, u : Caught(v, u)' => Caught(v, u)
  BY <1>2, SameCaptures
<1> HIDE DEF Limit
<1>7. QED
  BY <1>1, <1>2, <1>4, <1>5, <1>6, DeclaringKeeps

(* A function ends: all its variables go, and the result is pushed.        *)
LEMMA OpReturnDrops ==
  ASSUME IInv, ClosureInv, NEW x \in Results, OpReturn(x)
  PROVE  \E floor \in Nat : Drops(floor)
<1> DEFINE pushed == [mem EXCEPT ![top] = x]
<1>1. /\ TypeOK /\ StackMatchesLocals /\ FramesClimb /\ FramesRunClosures /\ Declared
  BY DEF IInv, ClosureInv
<1>2. /\ frames # << >> /\ CloseUpvalue(Frame.slots, pushed)
      /\ frames' = SubSeq(frames, 1, Len(frames) - 1)
      /\ mem' = IF Len(frames) = 1 THEN pushed ELSE [pushed EXCEPT ![Frame.slots] = x]
      /\ UNCHANGED <<building, closures, nvars>>
  BY DEF OpReturn, Idle
<1>3. PICK floor : floor = Frame.slots
  OBVIOUS
<1>4. floor \in Nat /\ top \in Nat /\ top >= floor /\ mem \in [Slots -> Cells]
  <2>1. /\ Frame.slots \in Nat /\ Len(Frame.locals) \in Nat /\ mem \in [Slots -> Cells]
        /\ top = Frame.slots + Len(Frame.locals)
                   + (IF building.active /\ building.global THEN 1 ELSE 0)
    BY <1>1, <1>2, FrameLayout DEF TypeOK
  <2>2. QED
    BY <1>3, <2>1
<1>5. /\ FramesClimb' /\ FramesRunClosures'
      /\ \A v, s : InScope(v, s)' <=> BelowTop(v, s)
      /\ \A v, s : Marked(v, s)' <=> MarkedBelowTop(v, s)
  BY <1>1, <1>2, PopFrameEffect
<1>6. /\ \A v, s : Holds(Frame, v, s) => s > floor
      /\ \A v, s : HoldsCaptured(Frame, v, s) => Holds(Frame, v, s)
  <2>1. Frame.slots \in Nat /\ Len(Frame.locals) \in Nat
    BY <1>1, <1>2, FrameLayout
  <2>2. QED
    BY <1>3, <2>1, HoldsRange DEF Holds, HoldsCaptured
<1>7. /\ \A v, s : InScope(v, s)' <=> InScope(v, s) /\ s < floor
      /\ \A v, s : Marked(v, s) /\ s < floor => Marked(v, s)'
  <2>1. \A v, s : Holds(Frame, v, s) => ~ (s < floor)
    <3>1. \A v, s : Holds(Frame, v, s) => s \in Nat
      <4>1. Frame.slots \in Nat /\ Len(Frame.locals) \in Nat
        BY <1>1, <1>2, FrameLayout
      <4>2. QED
        BY <4>1, HoldsRange
    <3>2. QED
      BY <1>4, <1>6, <3>1
  <2>2. \A v, s : BelowTop(v, s) => s < floor
    BY <1>1, <1>2, <1>3, TopApart
  <2>3. QED
    BY <1>1, <1>2, <1>5, <1>6, <2>1, <2>2, TopApart
<1>8. \A s \in Slots : s < floor => mem'[s] = mem[s]
  <2>1. \A s \in Slots : s < floor => s # top /\ s # Frame.slots
    BY <1>3, <1>4 DEF Slots
  <2>2. QED
    BY <1>2, <1>4, <2>1
<1>9. ASSUME NEW v, NEW u, Caught(v, u)
      PROVE  IF upvalues[u].location >= floor
             THEN /\ upvalues'[u].location = Self
                  /\ upvalues'[u].closed = mem[upvalues[u].location]
             ELSE upvalues'[u] = upvalues[u]
  <2>1. u \in DOMAIN upvalues /\ upvalues[u].location \in Int
    BY <1>1, <1>9, CaughtRange, LocationType
  <2>2. IF upvalues[u].location >= floor
        THEN /\ upvalues'[u].location = Self
             /\ upvalues'[u].closed = pushed[upvalues[u].location]
        ELSE upvalues'[u] = upvalues[u]
    <3> HIDE DEF pushed
    <3>1. CloseUpvalue(floor, pushed)
      BY <1>2, <1>3
    <3>2. QED
      BY <1>4, <2>1, <3>1, CloseEffect
  <2>3. upvalues[u].location >= floor => pushed[upvalues[u].location] = mem[upvalues[u].location]
    <3>1. SUFFICES ASSUME upvalues[u].location >= floor
                   PROVE  pushed[upvalues[u].location] = mem[upvalues[u].location]
      OBVIOUS
    <3>2. upvalues[u].location # Self
      BY <1>4, <3>1 DEF Self
    <3>3. InScope(v, upvalues[u].location)
      BY <1>9, <3>2, Relations
    <3>4. upvalues[u].location < top
      BY <1>1, <3>3, InScopeRange
    <3>5. upvalues[u].location # top
      BY <1>4, <2>1, <3>4
    <3>6. QED
      BY <1>4, <3>5
  <2>4. QED
    BY <2>2, <2>3
<1>10. \A v, u : Caught(v, u)' <=> Caught(v, u)
  BY <1>2, SameCaptures
<1> HIDE DEF pushed
<1>11. QED
  BY <1>1, <1>2, <1>4, <1>5, <1>7, <1>8, <1>9, <1>10 DEF Drops

LEMMA OpReturnKeepsClosures ==
  ASSUME IInv, ClosureInv, NEW x \in Results, OpReturn(x) PROVE ClosureInv'
  BY OpReturnDrops, OpReturnKeeps, DroppingKeeps

(* The next program starts with nothing in scope, as the last one ended.   *)
LEMMA InterpretEffect ==
  ASSUME IInv, ClosureInv, Exits \subseteq {"scope"}, Interpret
  PROVE  /\ FramesClimb' /\ FramesRunClosures'
         /\ \A v, s : InScope(v, s)' <=> InScope(v, s)
         /\ \A v, s : ~ Marked(v, s)
<1>1. frames = << >> /\ frames' = <<ScriptFrame>>
  BY DEF Interpret
<1>2. \A v, s : ~ InScope(v, s) /\ ~ Marked(v, s)
  BY <1>1 DEF InScope, Marked
<1>3. DOMAIN frames' = {1} /\ frames'[1] = ScriptFrame
  BY <1>1
<1>4. ScriptFrame.captures = NoCaptures /\ ScriptFrame.locals = <<Callee>>
  BY DEF ScriptFrame, CallFrame
<1>5. 2 .. Len(<<Callee>>) = {}
  OBVIOUS
<1>6. \A v, s : ~ Holds(ScriptFrame, v, s)
  BY <1>4, <1>5 DEF Holds
<1>7. \A v, s : ~ InScope(v, s)'
  <2>1. \A v, s : InScope(v, s)' => Holds(ScriptFrame, v, s)
    BY <1>3 DEF InScope, Holds, SlotOf
  <2>2. QED
    BY <1>6, <2>1
<1>8. FramesClimb'
  BY <1>3 DEF FramesClimb
<1>9. FramesRunClosures'
  BY <1>3, <1>4 DEF FramesRunClosures, NoCaptures
<1>10. QED
  BY <1>2, <1>7, <1>8, <1>9

LEMMA InterpretKeepsClosures ==
  ASSUME IInv, ClosureInv, Exits \subseteq {"scope"}, Interpret PROVE ClosureInv'
<1>1. IInv'
  BY InterpretKeeps
<1>2. frames = << >> /\ UNCHANGED <<upvalues, open, building, closures, nvars>>
  BY DEF Interpret
<1>3. \A s \in 0 .. Limit - 1 : mem'[s] = mem[s]
  <2>1. Limit = 0
    BY <1>2 DEF Limit
  <2>2. QED
    BY <2>1
<1>4. /\ FramesClimb' /\ FramesRunClosures'
      /\ \A v, s : InScope(v, s)' <=> InScope(v, s)
      /\ \A v, s : ~ Marked(v, s)
  BY InterpretEffect
<1>5. \A v, u : Caught(v, u)' => Caught(v, u)
  BY <1>2, SameCaptures
<1> HIDE DEF Limit
<1>6. QED
  BY <1>1, <1>2, <1>3, <1>4, <1>5, StayingKeeps

LEMMA InitRelations ==
  ASSUME Init
  PROVE  /\ \A v, s : ~ InScope(v, s)
         /\ \A v, u : ~ Caught(v, u)
<1>1. DOMAIN frames = {1} /\ frames[1] = ScriptFrame
  BY DEF Init
<1>2. ScriptFrame.locals = <<Callee>>
  BY DEF ScriptFrame, CallFrame
<1>3. 2 .. Len(<<Callee>>) = {}
  OBVIOUS
<1>4. \A v, s : ~ InScope(v, s)
  BY <1>1, <1>2, <1>3 DEF InScope, Holds
<1>5. \A v : v \notin DOMAIN NoCaptures
  BY DEF NoCaptures
<1>6. AllCaptures = {NoCaptures}
  BY DEF Init, AllCaptures
<1>7. \A v, u : ~ Caught(v, u)
  BY <1>5, <1>6 DEF Caught
<1>8. QED
  BY <1>4, <1>7

LEMMA InitClosureInv == Init => ClosureInv
<1> SUFFICES ASSUME Init PROVE ClosureInv
  OBVIOUS
<1>1. DOMAIN frames = {1} /\ frames[1] = ScriptFrame
  BY DEF Init
<1>2. ScriptFrame.captures = NoCaptures /\ ScriptFrame.locals = <<Callee>>
  BY DEF ScriptFrame, CallFrame
<1>3. 2 .. Len(<<Callee>>) = {}
  OBVIOUS
<1>4. /\ \A v, s : ~ InScope(v, s)
      /\ \A v, u : ~ Caught(v, u)
  BY InitRelations
<1>5. \A v : v \notin DOMAIN NoCaptures
  BY DEF NoCaptures
<1>6. AllCaptures = {NoCaptures}
  BY DEF Init, AllCaptures
<1>8. FramesClimb
  BY <1>1 DEF FramesClimb
<1>9. FramesRunClosures
  BY <1>1, <1>2 DEF FramesRunClosures
<1>10. Declared
  <2>1. \A n \in DOMAIN frames : 2 .. Len(frames[n].locals) = {}
    BY <1>1, <1>2, <1>3
  <2>2. \A c \in AllCaptures : DOMAIN c = {}
    BY <1>5, <1>6
  <2>3. QED
    BY <2>1, <2>2 DEF Declared
<1>11. OneSlotEach /\ OneUpvalueEach /\ UpvaluesPlaced /\ NeverNull
  BY <1>4 DEF OneSlotEach, OneUpvalueEach, UpvaluesPlaced, NeverNull
<1>12. QED
  BY <1>8, <1>9, <1>10, <1>11 DEF ClosureInv

LEMMA NextKeepsClosures ==
  ASSUME Exits \subseteq {"scope"}
  PROVE  IInv /\ ClosureInv /\ [Next]_vars => ClosureInv'
<1> SUFFICES ASSUME IInv, ClosureInv, [Next]_vars PROVE ClosureInv'
  OBVIOUS
<1>1. CASE UNCHANGED vars
  BY <1>1, StutterKeepsClosures
<1>2. CASE Next
  <2>1. ASSUME NEW x \in Values, Let(x) PROVE ClosureInv'
    BY <2>1, LetKeepsClosures
  <2>2. ASSUME NEW x \in Results, ExpressionStatement(x) PROVE ClosureInv'
    BY <2>2, ExpressionStatementKeepsClosures
  <2>3. ASSUME NEW i \in LocalIndex, NEW x \in Values, SetLocal(i, x) PROVE ClosureInv'
    BY <2>3, SetLocalKeepsClosures
  <2>4. ASSUME NEW v \in Captured, NEW x \in Values, SetUpvalue(v, x) PROVE ClosureInv'
    BY <2>4, SetUpvalueKeepsClosures
  <2>5. CASE BeginScope
    BY <2>5, BeginScopeKeepsClosures
  <2>6. CASE EndScope
    BY <2>6, EndScopeKeepsClosures
  <2>7. ASSUME NEW d \in OuterDepths, LoopExit(d) PROVE ClosureInv'
    BY <2>7, LoopExitKeepsClosures
  <2>8. ASSUME NEW global \in BOOLEAN, OpClosure(global) PROVE ClosureInv'
    BY <2>8, OpClosureKeepsClosures
  <2>9. ASSUME NEW i \in LocalIndex, CaptureLocal(i) PROVE ClosureInv'
    BY <2>9, CaptureLocalKeepsClosures
  <2>10. ASSUME NEW v \in Captured, CopyUpvalue(v) PROVE ClosureInv'
    BY <2>10, CopyUpvalueKeepsClosures
  <2>11. CASE ClosureDone
    BY <2>11, ClosureDoneKeepsClosures
  <2>12. ASSUME NEW i \in LocalIndex, ClosureSkipped(i) PROVE ClosureInv'
    BY <2>12, ClosureSkippedKeepsClosures
  <2>13. ASSUME NEW c \in closures, NEW args \in Arguments, Call(c, args) PROVE ClosureInv'
    BY <2>13, CallKeepsClosures
  <2>14. ASSUME NEW x \in Results, OpReturn(x) PROVE ClosureInv'
    BY <2>14, OpReturnKeepsClosures
  <2>15. CASE Interpret
    BY <2>15, InterpretKeepsClosures
  <2>16. QED
    BY <1>2, <2>1, <2>2, <2>3, <2>4, <2>5, <2>6, <2>7, <2>8, <2>9, <2>10, <2>11,
       <2>12, <2>13, <2>14, <2>15 DEF Next
<1>3. QED
  BY <1>1, <1>2

(* Programs that leave captured locals behind only as the last of a block  *)
(* (or by returning) keep the relations between variables, slots and       *)
(* upvalues in order.                                                      *)
THEOREM ClosuresOwnTheirVariables ==
  ASSUME Exits \subseteq {"scope"} PROVE Spec => [](IInv /\ ClosureInv)
<1>1. Init => IInv /\ ClosureInv
  BY InitIInv, InitClosureInv
<1>2. IInv /\ ClosureInv /\ [Next]_vars => (IInv /\ ClosureInv)'
  BY NextKeeps, NextKeepsClosures
<1>3. QED
  BY <1>1, <1>2, PTL DEF Spec

(* In such programs an open upvalue always points at the slot of the very  *)
(* variable that was captured: no statement leaves one dangling.           *)
THEOREM OpenUpvaluesPoint ==
  ASSUME Exits \subseteq {"scope"} PROVE Spec => []OpenPointsToItsVariable
<1>1. IInv /\ ClosureInv => OpenPointsToItsVariable
  <2> SUFFICES ASSUME IInv, ClosureInv, NEW c \in AllCaptures, NEW v \in DOMAIN c,
                      upvalues[c[v]].location # Self
               PROVE  \E p \in LocalsInScope :
                        VarAt(p) = v /\ SlotAt(p) = upvalues[c[v]].location
    BY DEF OpenPointsToItsVariable
  <2>1. Caught(v, c[v])
    BY DEF Caught
  <2>2. InScope(v, upvalues[c[v]].location)
    BY <2>1, Relations
  <2>a. PICK n \in DOMAIN frames : Holds(frames[n], v, upvalues[c[v]].location)
    BY <2>2 DEF InScope
  <2>3. PICK i \in 2 .. Len(frames[n].locals) :
          frames[n].locals[i].var = v /\ SlotOf(frames[n], i) = upvalues[c[v]].location
    BY <2>a DEF Holds
  <2>4. <<n, i>> \in LocalsInScope
    BY DEF LocalsInScope
  <2>5. VarAt(<<n, i>>) = v /\ SlotAt(<<n, i>>) = upvalues[c[v]].location
    BY <2>3 DEF VarAt, SlotAt
  <2>6. QED
    BY <2>4, <2>5
<1>2. QED
  BY <1>1, ClosuresOwnTheirVariables, PTL

(* In such programs two closures share an upvalue exactly if they captured *)
(* the same variable, however and whenever they captured it.               *)
THEOREM ClosuresShareByVariable ==
  ASSUME Exits \subseteq {"scope"} PROVE Spec => []SharedExactlyByVariable
<1>1. IInv /\ ClosureInv => SharedExactlyByVariable
  <2> SUFFICES ASSUME IInv, ClosureInv, NEW c \in AllCaptures, NEW d \in AllCaptures,
                      NEW v \in DOMAIN c, NEW w \in DOMAIN d
               PROVE  (c[v] = d[w]) <=> (v = w)
    BY DEF SharedExactlyByVariable
  <2>1. Caught(v, c[v]) /\ Caught(w, d[w])
    BY DEF Caught
  <2>2. QED
    BY <2>1, Relations
<1>2. QED
  BY <1>1, ClosuresOwnTheirVariables, PTL

(* In such programs no closure reads null out of a variable: nothing but   *)
(* null-free values was ever stored in one, and what a closure reads is    *)
(* what was stored.                                                        *)
THEOREM ClosuresReadNoNull ==
  ASSUME Exits \subseteq {"scope"} PROVE Spec => []NoClosureReadsNull
<1>1. IInv /\ ClosureInv => NoClosureReadsNull
  <2> SUFFICES ASSUME IInv, ClosureInv, NEW c \in AllCaptures, NEW v \in DOMAIN c
               PROVE  Deref(c[v]) # Null
    BY DEF NoClosureReadsNull
  <2>1. Caught(v, c[v])
    BY DEF Caught
  <2>2. QED
    BY <2>1, Relations DEF Deref
<1>2. QED
  BY <1>1, ClosuresOwnTheirVariables, PTL
-----------------------------------------------------------------------------
(***************************************************************************)
(* The refinement: variables hold what was last assigned to them.          *)
(***************************************************************************)

(* Between two closures nothing is left of the last one built.             *)
NothingHalfBuilt == building.active \/ building.captures = NoCaptures

LEMMA NothingHalfBuiltNext == IInv /\ NothingHalfBuilt /\ [Next]_vars => NothingHalfBuilt'
<1> SUFFICES ASSUME IInv, NothingHalfBuilt, [Next]_vars PROVE NothingHalfBuilt'
  OBVIOUS
<1> USE DEF NothingHalfBuilt
<1>1. \/ UNCHANGED building
      \/ \E global \in BOOLEAN : OpClosure(global)
      \/ \E i \in LocalIndex : CaptureLocal(i)
      \/ \E v \in Captured : CopyUpvalue(v)
      \/ ClosureDone
  BY DEF Next, vars, Let, ExpressionStatement, SetLocal, SetUpvalue, BeginScope, EndScope,
         LoopExit, ClosureSkipped, Call, OpReturn, Interpret
<1>2. CASE UNCHANGED building
  BY <1>2 DEF NoCaptures
<1>3. ASSUME NEW global \in BOOLEAN, OpClosure(global) PROVE NothingHalfBuilt'
  BY <1>3 DEF OpClosure
<1>4. ASSUME NEW i \in LocalIndex, CaptureLocal(i) PROVE NothingHalfBuilt'
  <2>1. building.active /\ building \in [active : BOOLEAN, global : BOOLEAN,
                                         captures : Captures(DOMAIN upvalues)]
    BY <1>4 DEF CaptureLocal, IInv, TypeOK
  <2>2. \E u : building' = [building EXCEPT !.captures = u]
    BY <1>4 DEF CaptureLocal
  <2>3. QED
    BY <2>1, <2>2
<1>5. ASSUME NEW v \in Captured, CopyUpvalue(v) PROVE NothingHalfBuilt'
  BY <1>5 DEF CopyUpvalue, IInv, TypeOK
<1>6. CASE ClosureDone
  BY <1>6 DEF ClosureDone, NoCaptures
<1>7. QED
  BY <1>1, <1>2, <1>3, <1>4, <1>5, <1>6

(* What variable v holds, wherever it lives.                               *)
Has(v, x) ==
  \/ \E s : InScope(v, s) /\ x = mem[s]
  \/ \E u : Caught(v, u) /\ x = Deref(u)

(* The refinement mapping.                                                 *)
View == [v \in Variable |-> ValueOf(v)]

HasIsValueOf ==
  /\ \A v \in Variable : \A x : Has(v, x) => ValueOf(v) = x
  /\ \A v \in Variable :
       (\A x : ~ Has(v, x)) => ValueOf(v) = IF v <= nvars THEN Gone ELSE Unborn
  /\ \A v, x : Has(v, x) => v \in 1 .. nvars /\ x \in Cells

LEMMA InScopeIsLocal ==
  \A v, s : InScope(v, s) <=> \E p \in LocalsInScope : VarAt(p) = v /\ SlotAt(p) = s
<1>1. ASSUME NEW v, NEW s, InScope(v, s)
      PROVE  \E p \in LocalsInScope : VarAt(p) = v /\ SlotAt(p) = s
  <2>1. PICK n \in DOMAIN frames : Holds(frames[n], v, s)
    BY <1>1 DEF InScope
  <2>2. PICK i \in 2 .. Len(frames[n].locals) :
          frames[n].locals[i].var = v /\ SlotOf(frames[n], i) = s
    BY <2>1 DEF Holds
  <2>3. <<n, i>> \in LocalsInScope
    BY DEF LocalsInScope
  <2>4. VarAt(<<n, i>>) = v /\ SlotAt(<<n, i>>) = s
    BY <2>2 DEF VarAt, SlotAt
  <2>5. QED
    BY <2>3, <2>4
<1>2. ASSUME NEW p \in LocalsInScope
      PROVE  InScope(VarAt(p), SlotAt(p))
  <2>1. PICK n \in DOMAIN frames : p \in {<<n, i>> : i \in 2 .. Len(frames[n].locals)}
    BY DEF LocalsInScope
  <2>2. PICK i \in 2 .. Len(frames[n].locals) : p = <<n, i>>
    BY <2>1
  <2>3. p[1] = n /\ p[2] = i
    BY <2>2
  <2>4. QED
    BY <2>3 DEF InScope, Holds, VarAt, SlotAt
<1>3. QED
  BY <1>1, <1>2

LEMMA ValueOfVariable == IInv /\ ClosureInv => HasIsValueOf
<1> SUFFICES ASSUME IInv, ClosureInv PROVE HasIsValueOf
  OBVIOUS
<1>1. TypeOK /\ StackMatchesLocals /\ FramesClimb /\ Declared
  BY DEF IInv, ClosureInv
<1>2. ASSUME NEW v, NEW s, InScope(v, s)
      PROVE  ValueOf(v) = mem[s]
  <2>1. \E p \in LocalsInScope : VarAt(p) = v
    BY <1>2, InScopeIsLocal
  <2>2. PICK p : p = CHOOSE q \in LocalsInScope : VarAt(q) = v
    OBVIOUS
  <2>3. p \in LocalsInScope /\ VarAt(p) = v
    BY <2>1, <2>2
  <2>4. InScope(v, SlotAt(p))
    BY <2>3, InScopeIsLocal
  <2>5. SlotAt(p) = s
    BY <1>2, <2>4, Relations
  <2>6. ValueOf(v) = mem[SlotAt(p)]
    BY <2>1, <2>2 DEF ValueOf
  <2>7. QED
    BY <2>5, <2>6
<1>3. ASSUME NEW v, NEW u, Caught(v, u), \A s : ~ InScope(v, s)
      PROVE  ValueOf(v) = Deref(u)
  <2>1. ~ \E p \in LocalsInScope : VarAt(p) = v
    BY <1>3, InScopeIsLocal
  <2>2. \E c \in AllCaptures : v \in DOMAIN c
    BY <1>3 DEF Caught
  <2>3. PICK c : c = CHOOSE d \in AllCaptures : v \in DOMAIN d
    OBVIOUS
  <2>4. c \in AllCaptures /\ v \in DOMAIN c
    BY <2>2, <2>3
  <2>5. Caught(v, c[v])
    BY <2>4 DEF Caught
  <2>6. c[v] = u
    BY <1>3, <2>5, Relations
  <2>7. ValueOf(v) = Deref(c[v])
    BY <2>1, <2>2, <2>3 DEF ValueOf
  <2>8. QED
    BY <2>6, <2>7
<1>4. ASSUME NEW v, NEW u, Caught(v, u), NEW s, InScope(v, s)
      PROVE  Deref(u) = mem[s]
  <2>1. upvalues[u].location = s /\ s # Self
    BY <1>1, <1>4, Relations, InScopeRange
  <2>2. QED
    BY <2>1 DEF Deref
<1>5. ASSUME NEW v, NEW x, Has(v, x)
      PROVE  ValueOf(v) = x
  BY <1>2, <1>3, <1>4, <1>5 DEF Has
<1>6. ASSUME NEW v \in Variable, \A x : ~ Has(v, x)
      PROVE  ValueOf(v) = IF v <= nvars THEN Gone ELSE Unborn
  <2>1. ~ \E p \in LocalsInScope : VarAt(p) = v
    BY <1>6, InScopeIsLocal DEF Has
  <2>2. ~ \E c \in AllCaptures : v \in DOMAIN c
    BY <1>6 DEF Has, Caught
  <2>3. QED
    BY <2>1, <2>2 DEF ValueOf
<1>7. ASSUME NEW v, NEW x, Has(v, x)
      PROVE  v \in 1 .. nvars /\ x \in Cells
  <2>1. ASSUME NEW s, InScope(v, s) PROVE v \in 1 .. nvars /\ mem[s] \in Cells
    BY <1>1, <2>1, InScopeRange DEF TypeOK
  <2>2. ASSUME NEW u, Caught(v, u) PROVE v \in 1 .. nvars /\ Deref(u) \in Cells
    <3>1. v \in 1 .. nvars /\ u \in DOMAIN upvalues
      BY <1>1, <2>2, CaughtRange
    <3>2. upvalues[u] \in UpvalueRecord
      BY <1>1, <3>1, LocationType
    <3>3. upvalues[u].location \in Slots \cup {Self} /\ upvalues[u].closed \in Cells
      BY <3>2 DEF UpvalueRecord
    <3>4. mem \in [Slots -> Cells]
      BY <1>1 DEF TypeOK
    <3>5. QED
      BY <3>1, <3>3, <3>4 DEF Deref
  <2>3. QED
    BY <1>7, <2>1, <2>2 DEF Has
<1>8. QED
  BY <1>5, <1>6, <1>7 DEF HasIsValueOf

(* The same of the next state.                                             *)
LEMMA ValueOfVariableNext == IInv' /\ ClosureInv' => HasIsValueOf'
  BY ValueOfVariable, PTL
-----------------------------------------------------------------------------
(* The four things a step may do to the variables.                         *)

LEMMA SameView ==
  ASSUME HasIsValueOf, HasIsValueOf', nvars' = nvars,
         \A v, x : Has(v, x)' <=> Has(v, x)
  PROVE  View' = View
<1>1. ASSUME NEW v \in Variable PROVE ValueOf(v)' = ValueOf(v)
  <2>1. CASE \E x : Has(v, x)
    BY <2>1 DEF HasIsValueOf
  <2>2. CASE \A x : ~ Has(v, x)
    BY <2>2 DEF HasIsValueOf
  <2>3. QED
    BY <2>1, <2>2
<1>2. QED
  BY <1>1 DEF View

LEMMA ForgetView ==
  ASSUME HasIsValueOf, HasIsValueOf', nvars' = nvars,
         \A v, x : Has(v, x)' => Has(v, x)
  PROVE  Lexical!Next
<1> DEFINE S == {v \in Variable : (\E x : Has(v, x)) /\ (\A x : ~ Has(v, x)')}
<1>1. ASSUME NEW v \in S PROVE ValueOf(v) # Unborn /\ ValueOf(v)' = Gone
  <2>1. PICK x : Has(v, x)
    OBVIOUS
  <2>2. ValueOf(v) = x /\ v \in 1 .. nvars /\ x \in Cells
    BY <2>1 DEF HasIsValueOf
  <2>3. v <= nvars'
    BY <2>2
  <2>4. ValueOf(v)' = Gone
    BY <2>3 DEF HasIsValueOf
  <2>5. QED
    BY <2>2, <2>4, MarksAssumption
<1>2. ASSUME NEW v \in Variable \ S PROVE ValueOf(v)' = ValueOf(v)
  <2>1. CASE \E x : Has(v, x)'
    BY <2>1 DEF HasIsValueOf
  <2>2. CASE \A x : ~ Has(v, x) /\ ~ Has(v, x)'
    BY <2>2 DEF HasIsValueOf
  <2>3. QED
    BY <2>1, <2>2
<1>3. S \in SUBSET {v \in Variable : View[v] # Unborn}
  BY <1>1 DEF View
<1> HIDE DEF S
<1>4. View' = [v \in Variable |-> IF v \in S THEN Gone ELSE View[v]]
  BY <1>1, <1>2 DEF View
<1>5. Lexical!Forget(S)
  BY <1>4 DEF Lexical!Forget, View
<1>6. QED
  BY <1>3, <1>5 DEF Lexical!Next, View

LEMMA DeclareView ==
  ASSUME HasIsValueOf, HasIsValueOf', nvars \in Nat, nvars' = nvars + 1,
         nvars + 1 \in Variable, NEW y \in Cells,
         \A v, x : Has(v, x)' <=> Has(v, x) \/ (v = nvars + 1 /\ x = y)
  PROVE  Lexical!Next
<1>1. PICK w \in Variable : w = nvars + 1
  OBVIOUS
<1>2. \A x : ~ Has(w, x)
  <2>1. w \notin 1 .. nvars
    BY <1>1
  <2>2. QED
    BY <2>1 DEF HasIsValueOf
<1>3. View[w] = Unborn
  <2>1. ~ (w <= nvars)
    BY <1>1
  <2>2. QED
    BY <1>2, <2>1 DEF HasIsValueOf, View
<1>4. ASSUME NEW v \in Variable
      PROVE  ValueOf(v)' = IF v = w THEN y ELSE ValueOf(v)
  <2>1. CASE v = w
    BY <1>1, <2>1 DEF HasIsValueOf
  <2>2. CASE v # w /\ \E x : Has(v, x)
    BY <2>2 DEF HasIsValueOf
  <2>3. CASE v # w /\ \A x : ~ Has(v, x)
    <3>1. \A x : ~ Has(v, x)'
      BY <1>1, <2>3
    <3>2. v <= nvars' <=> v <= nvars
      BY <1>1, <2>3 DEF Variable
    <3>3. QED
      BY <2>3, <3>1, <3>2 DEF HasIsValueOf
  <2>4. QED
    BY <2>1, <2>2, <2>3
<1>5. View' = [View EXCEPT ![w] = y]
  BY <1>4 DEF View
<1>6. Lexical!Declare(w, y)
  BY <1>3, <1>5 DEF Lexical!Declare, View
<1>7. QED
  BY <1>6 DEF Lexical!Next

LEMMA AssignView ==
  ASSUME HasIsValueOf, HasIsValueOf', nvars' = nvars,
         NEW w \in Variable, NEW z, Has(w, z), NEW y \in Values,
         \A v, x : Has(v, x)' <=> IF v = w THEN x = y ELSE Has(v, x)
  PROVE  Lexical!Next
<1>1. z \in Cells /\ ValueOf(w) = z
  BY DEF HasIsValueOf
<1>2. Has(w, y)'
  OBVIOUS
<1>3. ASSUME NEW v \in Variable
      PROVE  ValueOf(v)' = IF v = w THEN y ELSE ValueOf(v)
  <2>1. CASE v = w
    BY <1>2, <2>1 DEF HasIsValueOf
  <2>2. CASE v # w /\ \E x : Has(v, x)
    BY <2>2 DEF HasIsValueOf
  <2>3. CASE v # w /\ \A x : ~ Has(v, x)
    BY <2>3 DEF HasIsValueOf
  <2>4. QED
    BY <2>1, <2>2, <2>3
<1>4. View' = [View EXCEPT ![w] = y]
  BY <1>3 DEF View
<1>5. View[w] \notin {Unborn, Gone}
  BY <1>1, MarksAssumption DEF View
<1>6. Lexical!Assign(w, y)
  BY <1>4, <1>5 DEF Lexical!Assign, View
<1>7. QED
  BY <1>6 DEF Lexical!Next
-----------------------------------------------------------------------------
(* What the actions do to what the variables hold.                         *)

(* Memory below the limit and the upvalues are as they were.               *)
LEMMA SameDeref ==
  ASSUME IInv, ClosureInv,
         \A s \in 0 .. Limit - 1 : mem'[s] = mem[s],
         \A u \in DOMAIN upvalues : upvalues'[u] = upvalues[u]
  PROVE  /\ \A v, s : InScope(v, s) => mem'[s] = mem[s]
         /\ \A v, u : Caught(v, u) => Deref(u)' = Deref(u)
<1>1. TypeOK /\ StackMatchesLocals /\ FramesClimb /\ Declared
  BY DEF IInv, ClosureInv
<1>2. ASSUME NEW v, NEW s, InScope(v, s) PROVE mem'[s] = mem[s]
  <2>1. Limit \in Nat /\ s \in Nat /\ s < Limit
    BY <1>1, <1>2, InScopeRange, LimitRange
  <2>2. QED
    BY <2>1
<1>3. ASSUME NEW v, NEW u, Caught(v, u) PROVE Deref(u)' = Deref(u)
  <2>1. u \in DOMAIN upvalues
    BY <1>1, <1>3, CaughtRange
  <2>2. upvalues'[u] = upvalues[u]
    BY <2>1
  <2>3. upvalues[u].location # Self => mem'[upvalues[u].location] = mem[upvalues[u].location]
    BY <1>2, <1>3, Relations
  <2>4. QED
    BY <2>2, <2>3 DEF Deref
<1>4. QED
  BY <1>2, <1>3

LEMMA HasSame ==
  ASSUME IInv, ClosureInv,
         \A v, s : InScope(v, s)' <=> InScope(v, s),
         \A v, u : Caught(v, u)' <=> Caught(v, u),
         \A s \in 0 .. Limit - 1 : mem'[s] = mem[s],
         \A u \in DOMAIN upvalues : upvalues'[u] = upvalues[u]
  PROVE  \A v, x : Has(v, x)' <=> Has(v, x)
<1>1. /\ \A v, s : InScope(v, s) => mem'[s] = mem[s]
      /\ \A v, u : Caught(v, u) => Deref(u)' = Deref(u)
  BY SameDeref
<1>2. QED
  BY <1>1 DEF Has

LEMMA HasDeclared ==
  ASSUME IInv, ClosureInv, NEW w, NEW t, NEW y, mem'[t] = y,
         \A v, s : InScope(v, s)' <=> InScope(v, s) \/ (v = w /\ s = t),
         \A v, u : Caught(v, u)' <=> Caught(v, u),
         \A s \in 0 .. Limit - 1 : mem'[s] = mem[s],
         \A u \in DOMAIN upvalues : upvalues'[u] = upvalues[u]
  PROVE  \A v, x : Has(v, x)' <=> Has(v, x) \/ (v = w /\ x = y)
<1>1. /\ \A v, s : InScope(v, s) => mem'[s] = mem[s]
      /\ \A v, u : Caught(v, u) => Deref(u)' = Deref(u)
  BY SameDeref
<1>2. QED
  BY <1>1 DEF Has

LEMMA HasDropped ==
  ASSUME IInv, ClosureInv, NEW floor \in Nat, Drops(floor)
  PROVE  \A v, x : Has(v, x)' => Has(v, x)
<1>1. TypeOK /\ StackMatchesLocals /\ FramesClimb /\ Declared
  BY DEF IInv, ClosureInv
<1>2. ASSUME NEW v, NEW s, InScope(v, s)' PROVE Has(v, mem'[s])
  <2>1. InScope(v, s) /\ s < floor
    BY <1>2 DEF Drops
  <2>2. mem'[s] = mem[s]
    BY <1>1, <2>1, InScopeRange DEF Drops
  <2>3. QED
    BY <2>1, <2>2 DEF Has
<1>3. ASSUME NEW v, NEW u, Caught(v, u)' PROVE Deref(u)' = Deref(u) /\ Caught(v, u)
  <2>1. Caught(v, u)
    BY <1>3 DEF Drops
  <2>2. upvalues[u].location \in Slots \cup {Self} /\ upvalues[u].location \in Int
    BY <1>1, <2>1, CaughtRange, LocationType
  <2>3. CASE upvalues[u].location >= floor
    <3>1. upvalues'[u].location = Self /\ upvalues'[u].closed = mem[upvalues[u].location]
      BY <2>1, <2>3 DEF Drops
    <3>2. upvalues[u].location # Self
      BY <2>3 DEF Self
    <3>3. QED
      BY <2>1, <3>1, <3>2 DEF Deref
  <2>4. CASE ~ (upvalues[u].location >= floor)
    <3>1. upvalues'[u] = upvalues[u]
      BY <2>1, <2>4 DEF Drops
    <3>2. upvalues[u].location # Self => mem'[upvalues[u].location] = mem[upvalues[u].location]
      BY <2>2, <2>4 DEF Drops
    <3>3. QED
      BY <2>1, <3>1, <3>2 DEF Deref
  <2>5. QED
    BY <2>3, <2>4
<1>4. ASSUME NEW v, NEW x, Has(v, x)' PROVE Has(v, x)
  <2>1. CASE \E s : InScope(v, s)' /\ x = mem'[s]
    BY <1>2, <2>1
  <2>2. CASE \E u : Caught(v, u)' /\ x = Deref(u)'
    BY <1>3, <2>2 DEF Has
  <2>3. QED
    BY <1>4, <2>1, <2>2 DEF Has
<1>5. QED
  BY <1>4

(* A value is stored in the slot of a variable in scope.                   *)
LEMMA HasStored ==
  ASSUME IInv, ClosureInv, NEW w, NEW slot, InScope(w, slot), NEW y,
         mem' = [mem EXCEPT ![top] = y, ![slot] = y],
         UNCHANGED <<frames, upvalues, building, closures>>
  PROVE  \A v, x : Has(v, x)' <=> IF v = w THEN x = y ELSE Has(v, x)
<1>1. TypeOK /\ StackMatchesLocals /\ FramesClimb /\ Declared
  BY DEF IInv, ClosureInv
<1>2. /\ \A v, s : InScope(v, s)' <=> InScope(v, s)
      /\ \A v, u : Caught(v, u)' <=> Caught(v, u)
  BY SameFrames, SameCaptures
<1>3. slot \in Slots /\ mem \in [Slots -> Cells] /\ top \in Nat
  BY <1>1, InScopeRange DEF TypeOK
<1>4. mem'[slot] = y
  BY <1>3
<1>5. ASSUME NEW v, NEW s, InScope(v, s)
      PROVE  /\ v = w => s = slot
             /\ v # w => mem'[s] = mem[s]
  <2>1. s \in Slots /\ s \in Nat /\ s < top
    BY <1>1, <1>5, InScopeRange
  <2>2. (v = w) <=> (s = slot)
    BY <1>5, Relations
  <2>3. s # slot => mem'[s] = mem[s]
    BY <1>3, <2>1
  <2>4. QED
    BY <2>2, <2>3
<1>6. ASSUME NEW v, NEW u, Caught(v, u)
      PROVE  Deref(u)' = IF v = w THEN y ELSE Deref(u)
  <2>1. upvalues' = upvalues
    OBVIOUS
  <2>2. CASE v = w
    <3>1. upvalues[u].location = slot /\ slot # Self
      BY <1>1, <1>6, <2>2, Relations, InScopeRange
    <3>2. QED
      BY <1>4, <2>1, <2>2, <3>1 DEF Deref
  <2>3. CASE v # w
    <3>0. upvalues[u].location # Self => InScope(v, upvalues[u].location)
      BY <1>6, Relations
    <3>1. upvalues[u].location # Self => mem'[upvalues[u].location] = mem[upvalues[u].location]
      BY <1>5, <2>3, <3>0
    <3>2. QED
      BY <2>1, <2>3, <3>1 DEF Deref
  <2>4. QED
    BY <2>2, <2>3
<1>7. ASSUME NEW v, NEW x
      PROVE  Has(v, x)' <=> IF v = w THEN x = y ELSE Has(v, x)
  <2>1. Has(v, x)' <=> \/ \E s : InScope(v, s) /\ x = mem'[s]
                       \/ \E u : Caught(v, u) /\ x = Deref(u)'
    BY <1>2 DEF Has
  <2>2. CASE v = w
    BY <1>4, <1>5, <1>6, <2>1, <2>2
  <2>3. CASE v # w
    BY <1>5, <1>6, <2>1, <2>3 DEF Has
  <2>4. QED
    BY <2>2, <2>3
<1>8. QED
  BY <1>7

(* A value is stored in a closed upvalue.                                  *)
LEMMA HasStoredClosed ==
  ASSUME IInv, ClosureInv, NEW w, NEW t, Caught(w, t), upvalues[t].location = Self, NEW y,
         mem' = [mem EXCEPT ![top] = y],
         upvalues' = [upvalues EXCEPT ![t].closed = y],
         UNCHANGED <<frames, building, closures>>
  PROVE  \A v, x : Has(v, x)' <=> IF v = w THEN x = y ELSE Has(v, x)
<1>1. TypeOK /\ StackMatchesLocals /\ FramesClimb /\ Declared
  BY DEF IInv, ClosureInv
<1>2. /\ \A v, s : InScope(v, s)' <=> InScope(v, s)
      /\ \A v, u : Caught(v, u)' <=> Caught(v, u)
  BY SameFrames, SameCaptures
<1>3. \A s : ~ InScope(w, s)
  <2>1. \A s : InScope(w, s) => s # Self
    BY <1>1, InScopeRange
  <2>2. QED
    BY <2>1, Relations
<1>4. ASSUME NEW v, NEW s, InScope(v, s) PROVE mem'[s] = mem[s]
  <2>1. s \in Slots /\ s \in Nat /\ s < top /\ top \in Nat
    BY <1>1, <1>4, InScopeRange DEF TypeOK
  <2>2. s # top /\ mem \in [Slots -> Cells]
    BY <1>1, <2>1 DEF TypeOK
  <2>3. QED
    BY <2>1, <2>2
<1>5. ASSUME NEW v, NEW u, Caught(v, u)
      PROVE  Deref(u)' = IF v = w THEN y ELSE Deref(u)
  <2> DEFINE r == [upvalues[t] EXCEPT !.closed = y]
  <2>1. t \in DOMAIN upvalues /\ u \in DOMAIN upvalues
    BY <1>1, <1>5, CaughtRange
  <2>2. (v = w) <=> (u = t)
    BY <1>5, Relations
  <2>3. upvalues[t] \in UpvalueRecord
    BY <1>1, <2>1, LocationType
  <2>4. r.location = Self /\ r.closed = y
    BY <2>3 DEF UpvalueRecord
  <2>5. upvalues' = [upvalues EXCEPT ![t] = r]
    OBVIOUS
  <2> HIDE DEF r
  <2>6. upvalues'[u] = IF u = t THEN r ELSE upvalues[u]
    BY <2>1, <2>5
  <2>7. CASE v = w
    BY <2>2, <2>4, <2>6, <2>7 DEF Deref
  <2>8. CASE v # w
    <3>1. upvalues[u].location # Self => mem'[upvalues[u].location] = mem[upvalues[u].location]
      BY <1>4, <1>5, Relations
    <3>2. upvalues'[u] = upvalues[u]
      BY <2>2, <2>6, <2>8
    <3>3. /\ upvalues'[u].location = upvalues[u].location
          /\ upvalues'[u].closed = upvalues[u].closed
      BY <3>2
    <3>4. Deref(u)' = Deref(u)
      BY <3>1, <3>3 DEF Deref
    <3>5. QED
      BY <2>8, <3>4
  <2>9. QED
    BY <2>7, <2>8
<1>6. ASSUME NEW v, NEW x
      PROVE  Has(v, x)' <=> IF v = w THEN x = y ELSE Has(v, x)
  <2>1. Has(v, x)' <=> \/ \E s : InScope(v, s) /\ x = mem'[s]
                       \/ \E u : Caught(v, u) /\ x = Deref(u)'
    BY <1>2 DEF Has
  <2>2. CASE v = w
    BY <1>3, <1>5, <2>1, <2>2
  <2>3. CASE v # w
    BY <1>4, <1>5, <2>1, <2>3 DEF Has
  <2>4. QED
    BY <2>2, <2>3
<1>7. QED
  BY <1>6

(* Captures are only added to while a closure is built.                    *)
LEMMA WithCaptureKeeps ==
  ASSUME NEW v, NEW u, v \notin DOMAIN building.captures,
         closures' = closures, building'.captures = WithCapture(v, u)
  PROVE  \A w, t : Caught(w, t)' <=> Caught(w, t) \/ (w = v /\ t = u)
<1>1. AllCaptures' = closures \cup {WithCapture(v, u)}
  BY DEF AllCaptures
<1>2. /\ DOMAIN WithCapture(v, u) = DOMAIN building.captures \cup {v}
      /\ WithCapture(v, u)[v] = u
      /\ \A w \in DOMAIN building.captures : WithCapture(v, u)[w] = building.captures[w]
  BY DEF WithCapture
<1>3. QED
  BY <1>1, <1>2 DEF Caught, AllCaptures
-----------------------------------------------------------------------------
(* Every step is a step of the variables, or changes none of them.         *)

LEMMA ViewKept ==
  ASSUME IInv, ClosureInv, IInv', ClosureInv', nvars' = nvars,
         \A v, s : InScope(v, s)' <=> InScope(v, s),
         \A v, u : Caught(v, u)' <=> Caught(v, u),
         \A s \in 0 .. Limit - 1 : mem'[s] = mem[s],
         \A u \in DOMAIN upvalues : upvalues'[u] = upvalues[u]
  PROVE  View' = View
<1>1. HasIsValueOf /\ HasIsValueOf'
  BY ValueOfVariable, ValueOfVariableNext
<1>2. \A v, x : Has(v, x)' <=> Has(v, x)
  <2> HIDE DEF Limit
  <2>1. QED
    BY HasSame
<1>3. QED
  BY <1>1, <1>2, SameView

LEMMA ViewDeclares ==
  ASSUME IInv, ClosureInv, IInv', ClosureInv', nvars' = nvars + 1,
         NEW w, w = nvars + 1, NEW t, NEW y \in Cells, mem'[t] = y,
         \A v, s : InScope(v, s)' <=> InScope(v, s) \/ (v = w /\ s = t),
         \A v, u : Caught(v, u)' <=> Caught(v, u),
         \A s \in 0 .. Limit - 1 : mem'[s] = mem[s],
         \A u \in DOMAIN upvalues : upvalues'[u] = upvalues[u]
  PROVE  Lexical!Next
<1>1. HasIsValueOf /\ HasIsValueOf'
  BY ValueOfVariable, ValueOfVariableNext
<1>2. nvars \in Nat /\ nvars + 1 \in Variable
  <2>1. nvars \in 0 .. MaxVariables /\ nvars' \in 0 .. MaxVariables
    BY DEF IInv, TypeOK
  <2>2. QED
    BY <2>1 DEF Variable
<1>3. \A v, x : Has(v, x)' <=> Has(v, x) \/ (v = w /\ x = y)
  <2> HIDE DEF Limit
  <2>1. QED
    BY HasDeclared
<1>4. QED
  BY <1>1, <1>2, <1>3, DeclareView

LEMMA ViewForgets ==
  ASSUME IInv, ClosureInv, IInv', ClosureInv', NEW floor \in Nat, Drops(floor)
  PROVE  Lexical!Next
<1>1. HasIsValueOf /\ HasIsValueOf'
  BY ValueOfVariable, ValueOfVariableNext
<1>2. nvars' = nvars
  BY DEF Drops
<1>3. QED
  BY <1>1, <1>2, HasDropped, ForgetView

(* The value on top of the stack is none of a variable's.                  *)
LEMMA TopIsFree ==
  ASSUME IInv, NEW x, mem' = [mem EXCEPT ![top] = x]
  PROVE  \A s \in 0 .. Limit - 1 : mem'[s] = mem[s]
<1> SUFFICES ASSUME NEW s \in 0 .. Limit - 1 PROVE mem'[s] = mem[s]
  OBVIOUS
<1>1. s \in Slots /\ s \in Nat /\ s < top
  BY BelowLimit
<1>2. top \in Nat
  BY DEF IInv, TypeOK
<1>3. s # top
  BY <1>1, <1>2
<1>4. QED
  BY <1>1, <1>3 DEF IInv, TypeOK

LEMMA ExpressionStatementMaps ==
  ASSUME IInv, ClosureInv, IInv', ClosureInv', NEW x \in Results, ExpressionStatement(x)
  PROVE  View' = View
<1>1. /\ UNCHANGED <<top, frames, upvalues, open, building, closures, nvars>>
      /\ mem' = [mem EXCEPT ![top] = x]
  BY DEF ExpressionStatement
<1>2. \A s \in 0 .. Limit - 1 : mem'[s] = mem[s]
  BY <1>1, TopIsFree
<1>3. QED
  BY <1>1, <1>2, SameFrames, SameCaptures, ViewKept

LEMMA BeginScopeMaps ==
  ASSUME IInv, ClosureInv, IInv', ClosureInv', BeginScope PROVE View' = View
<1>1. \A v, s : InScope(v, s)' <=> InScope(v, s)
  BY BeginScopeEffect
<1>2. UNCHANGED <<mem, upvalues, building, closures, nvars>>
  BY DEF BeginScope
<1>3. QED
  BY <1>1, <1>2, SameCaptures, ViewKept

LEMMA ClosureSkippedMaps ==
  ASSUME IInv, ClosureInv, IInv', ClosureInv', NEW i \in LocalIndex, ClosureSkipped(i)
  PROVE  View' = View
<1>1. /\ SetFrame([Frame EXCEPT !.locals[i].captured = TRUE])
      /\ UNCHANGED <<mem, top, upvalues, open, building, closures, nvars>>
  BY DEF ClosureSkipped
<1>2. \A v, s : InScope(v, s)' <=> InScope(v, s)
  BY <1>1, MarkEffect
<1>3. QED
  BY <1>1, <1>2, SameCaptures, ViewKept

(* A local is declared with a value.                                       *)
LEMMA DeclareLocalMaps ==
  ASSUME IInv, ClosureInv, IInv', ClosureInv', Idle, nvars < MaxVariables, DeclareLocal,
         NEW x \in Cells, mem' = [mem EXCEPT ![top] = x], nvars' = nvars + 1,
         \A s \in 0 .. Limit - 1 : mem'[s] = mem[s],
         \A v, u : Caught(v, u)' <=> Caught(v, u), UNCHANGED <<upvalues, closures>>
  PROVE  Lexical!Next
<1>1. PICK t : t = top
  OBVIOUS
<1>2. /\ top \in Slots /\ top \in Nat /\ mem \in [Slots -> Cells] /\ mem'[t] = x
  BY <1>1 DEF IInv, TypeOK, Slots
<1>a. PICK w : w = nvars + 1
  OBVIOUS
<1>3. \A v, s : InScope(v, s)' <=> InScope(v, s) \/ (v = w /\ s = t)
  <2>1. \A v, s : InScope(v, s)' <=>
          \/ InScope(v, s)
          \/ \E j \in 1 .. 1 : v = nvars + j /\ s = top - 1 + j
    BY DeclareLocalEffect
  <2>2. \A v, s : (v = w /\ s = t)
                    <=> \E j \in 1 .. 1 : v = nvars + j /\ s = top - 1 + j
    BY <1>1, <1>2, <1>a
  <2>3. QED
    BY <2>1, <2>2
<1> HIDE DEF Limit
<1>4. QED
  BY <1>2, <1>a, <1>3, ViewDeclares

LEMMA LetMaps ==
  ASSUME IInv, ClosureInv, IInv', ClosureInv', NEW x \in Values, Let(x) PROVE Lexical!Next
<1>1. /\ Idle /\ Room(1) /\ nvars < MaxVariables /\ DeclareLocal
      /\ mem' = [mem EXCEPT ![top] = x] /\ nvars' = nvars + 1
      /\ UNCHANGED <<upvalues, open, building, closures>>
  BY DEF Let
<1>2. \A s \in 0 .. Limit - 1 : mem'[s] = mem[s]
  BY <1>1, TopIsFree
<1>3. \A v, u : Caught(v, u)' <=> Caught(v, u)
  BY <1>1, SameCaptures
<1>4. QED
  BY <1>1, <1>2, <1>3, DeclareLocalMaps DEF Cells

LEMMA OpClosureMaps ==
  ASSUME IInv, ClosureInv, IInv', ClosureInv', NothingHalfBuilt,
         NEW global \in BOOLEAN, OpClosure(global)
  PROVE  Lexical!Next \/ View' = View
<1>1. /\ Idle /\ mem' = [mem EXCEPT ![top] = Fun]
      /\ UNCHANGED <<upvalues, open, closures>>
      /\ building' = [active |-> TRUE, global |-> global, captures |-> NoCaptures]
      /\ IF global
         THEN UNCHANGED <<frames, nvars>>
         ELSE nvars < MaxVariables /\ nvars' = nvars + 1 /\ DeclareLocal
  BY DEF OpClosure
<1>2. \A v, u : Caught(v, u)' <=> Caught(v, u)
  <2>1. building.captures = NoCaptures /\ building'.captures = NoCaptures
    BY <1>1 DEF NothingHalfBuilt, Idle
  <2>2. AllCaptures' = AllCaptures
    BY <1>1, <2>1 DEF AllCaptures
  <2>3. QED
    BY <2>2 DEF Caught
<1>3. \A s \in 0 .. Limit - 1 : mem'[s] = mem[s]
  BY <1>1, TopIsFree
<1>4. CASE global
  BY <1>1, <1>2, <1>3, <1>4, SameFrames, ViewKept
<1>5. CASE ~ global
  <2>1. Fun \in Cells
    BY DEF Cells
  <2>2. QED
    BY <1>1, <1>2, <1>3, <1>5, <2>1, DeclareLocalMaps
<1>6. QED
  BY <1>4, <1>5

LEMMA ClosureDoneMaps ==
  ASSUME IInv, ClosureInv, IInv', ClosureInv', ClosureDone PROVE View' = View
<1>1. /\ closures' = closures \cup {building.captures}
      /\ building' = [active |-> FALSE, global |-> FALSE, captures |-> NoCaptures]
      /\ UNCHANGED <<mem, frames, upvalues, open, nvars>>
  BY DEF ClosureDone
<1>2. \A v, u : Caught(v, u)' <=> Caught(v, u)
  <2>1. \A v : v \notin DOMAIN NoCaptures
    BY DEF NoCaptures
  <2>2. AllCaptures' = AllCaptures \cup {NoCaptures}
    BY <1>1 DEF AllCaptures
  <2>3. QED
    BY <2>1, <2>2 DEF Caught
<1>3. QED
  BY <1>1, <1>2, SameFrames, ViewKept

LEMMA CopyUpvalueMaps ==
  ASSUME IInv, ClosureInv, IInv', ClosureInv', NEW v \in Captured, CopyUpvalue(v)
  PROVE  View' = View
<1>1. /\ v \notin DOMAIN building.captures
      /\ building' = [building EXCEPT !.captures = WithCapture(v, Frame.captures[v])]
      /\ UNCHANGED <<mem, top, frames, upvalues, open, closures, nvars>>
  BY DEF CopyUpvalue
<1>2. PICK u : u = Frame.captures[v]
  OBVIOUS
<1>3. Caught(v, u)
  BY <1>2, FrameCatches
<1>4. building'.captures = WithCapture(v, u)
  BY <1>1, <1>2 DEF IInv, TypeOK
<1>5. \A w, t : Caught(w, t)' <=> Caught(w, t) \/ (w = v /\ t = u)
  BY <1>1, <1>4, WithCaptureKeeps
<1>6. \A w, t : Caught(w, t)' <=> Caught(w, t)
  BY <1>3, <1>5
<1>7. QED
  BY <1>1, <1>6, SameFrames, ViewKept

(* Whether the upvalue was there or is new, it points at the slot of the   *)
(* variable, which is in scope.                                            *)
LEMMA CaptureLocalMaps ==
  ASSUME IInv, ClosureInv, IInv', ClosureInv', NEW i \in LocalIndex, CaptureLocal(i)
  PROVE  View' = View
<1>1. PICK v : v = Frame.locals[i].var
  OBVIOUS
<1>2. PICK slot : slot = SlotOf(Frame, i)
  OBVIOUS
<1>3. /\ v \notin DOMAIN building.captures
      /\ SetFrame([Frame EXCEPT !.locals[i].captured = TRUE])
      /\ UNCHANGED <<mem, top, closures, nvars>>
  BY <1>1 DEF CaptureLocal
<1>4. \E pos \in 1 .. Len(open) + 1 :
        IF pos <= Len(open) /\ upvalues[open[pos]].location = slot
        THEN /\ building' = [building EXCEPT !.captures = WithCapture(v, open[pos])]
             /\ UNCHANGED <<upvalues, open>>
        ELSE /\ LinkIn(slot, pos)
             /\ building' = [building EXCEPT !.captures =
                               WithCapture(v, Len(upvalues) + 1)]
  BY <1>1, <1>2 DEF CaptureLocal
<1>5. /\ \A w, s : InScope(w, s)' <=> InScope(w, s)
      /\ InScope(v, slot)
  BY <1>1, <1>2, <1>3, MarkEffect
<1>6. /\ upvalues \in Seq(UpvalueRecord) /\ Len(upvalues) \in Nat
      /\ DOMAIN upvalues = 1 .. Len(upvalues)
  BY LenProperties DEF IInv, TypeOK
<1>7. PICK u : /\ building' = [building EXCEPT !.captures = WithCapture(v, u)]
               /\ upvalues'[u].location = slot
               /\ \A t \in DOMAIN upvalues : upvalues'[t] = upvalues[t]
  <2>1. PICK pos \in 1 .. Len(open) + 1 :
          IF pos <= Len(open) /\ upvalues[open[pos]].location = slot
          THEN /\ building' = [building EXCEPT !.captures = WithCapture(v, open[pos])]
               /\ UNCHANGED <<upvalues, open>>
          ELSE /\ LinkIn(slot, pos)
               /\ building' = [building EXCEPT !.captures =
                                 WithCapture(v, Len(upvalues) + 1)]
    BY <1>4
  <2>2. CASE pos <= Len(open) /\ upvalues[open[pos]].location = slot
    BY <2>1, <2>2
  <2>3. CASE ~ (pos <= Len(open) /\ upvalues[open[pos]].location = slot)
    <3> DEFINE rec == [location |-> slot, closed |-> Null]
    <3>1. upvalues' = Append(upvalues, rec)
      BY <2>1, <2>3 DEF LinkIn
    <3>2. rec.location = slot
      OBVIOUS
    <3> HIDE DEF rec
    <3>3. /\ \A t \in DOMAIN upvalues : upvalues'[t] = upvalues[t]
          /\ upvalues'[Len(upvalues) + 1].location = slot
      BY <1>6, <3>1, <3>2
    <3>4. QED
      BY <2>1, <2>3, <3>3
  <2>4. QED
    BY <2>2, <2>3
<1>8. building'.captures = WithCapture(v, u)
  BY <1>7 DEF IInv, TypeOK
<1>9. \A w, t : Caught(w, t)' <=> Caught(w, t) \/ (w = v /\ t = u)
  BY <1>3, <1>8, WithCaptureKeeps
<1>10. /\ \A w, s : InScope(w, s) => mem'[s] = mem[s]
       /\ \A w, t : Caught(w, t) => Deref(t)' = Deref(t)
  BY <1>3, <1>7, SameDeref
<1>11. Deref(u)' = mem[slot]
  <2>1. slot # Self
    BY <1>5, InScopeRange DEF IInv, ClosureInv
  <2>2. QED
    BY <1>3, <1>7, <2>1 DEF Deref
<1>12. \A w, x : Has(w, x)' <=> Has(w, x)
  BY <1>3, <1>5, <1>9, <1>10, <1>11 DEF Has
<1>13. HasIsValueOf /\ HasIsValueOf'
  BY ValueOfVariable, ValueOfVariableNext
<1>14. QED
  BY <1>3, <1>12, <1>13, SameView

LEMMA CallMaps ==
  ASSUME IInv, ClosureInv, IInv', ClosureInv',
         NEW c \in closures, NEW args \in Arguments, Call(c, args)
  PROVE  Lexical!Next \/ View' = View
<1>1. nvars' = nvars + Len(args) /\ UNCHANGED <<upvalues, open, building, closures>>
  BY DEF Call
<1>2. /\ \A v, s : InScope(v, s)' <=>
           \/ InScope(v, s)
           \/ \E j \in 1 .. Len(args) : v = nvars + j /\ s = top + j
      /\ \A s \in 0 .. Limit - 1 : mem'[s] = mem[s]
      /\ \A j \in 1 .. Len(args) : mem'[top + j] = args[j]
      /\ \A j \in 1 .. Len(args) : args[j] \in Values
  BY CallEffect
<1> HIDE DEF Limit
<1>3. \A v, u : Caught(v, u)' <=> Caught(v, u)
  BY <1>1, SameCaptures
<1>4. CASE args = << >>
  <2>1. Len(args) = 0 /\ 1 .. Len(args) = {}
    BY <1>4
  <2>2. nvars' = nvars
    BY <1>1, <2>1 DEF IInv, TypeOK
  <2>3. \A v, s : InScope(v, s)' <=> InScope(v, s)
    BY <1>2, <2>1
  <2>4. QED
    BY <1>1, <1>2, <1>3, <2>2, <2>3, ViewKept
<1>5. ASSUME NEW y \in Values, args = <<y>>
      PROVE  Lexical!Next
  <2>1. Len(args) = 1 /\ 1 .. Len(args) = {1} /\ args[1] = y
    BY <1>5
  <2>2. PICK w : w = nvars + 1
    OBVIOUS
  <2>3. PICK t : t = top + 1
    OBVIOUS
  <2>4. nvars' = nvars + 1 /\ mem'[t] = y /\ y \in Cells
    BY <1>1, <1>2, <2>1, <2>3 DEF Cells
  <2>5. \A v, s : InScope(v, s)' <=> InScope(v, s) \/ (v = w /\ s = t)
    BY <1>2, <2>1, <2>2, <2>3
  <2>6. QED
    BY <1>1, <1>2, <1>3, <2>2, <2>4, <2>5, ViewDeclares
<1>6. args = << >> \/ \E y \in Values : args = <<y>>
  BY DEF Arguments
<1>7. QED
  BY <1>4, <1>5, <1>6

(* An assignment through a slot, or through an open upvalue, which points  *)
(* at one.                                                                 *)
LEMMA StoreMaps ==
  ASSUME IInv, ClosureInv, IInv', ClosureInv', NEW w, NEW slot, InScope(w, slot),
         NEW y \in Values, mem' = [mem EXCEPT ![top] = y, ![slot] = y],
         UNCHANGED <<frames, upvalues, building, closures, nvars>>
  PROVE  Lexical!Next
<1>1. HasIsValueOf /\ HasIsValueOf'
  BY ValueOfVariable, ValueOfVariableNext
<1>2. w \in Variable
  BY InScopeRange DEF IInv, ClosureInv
<1>3. Has(w, mem[slot])
  BY DEF Has
<1>4. \A v, x : Has(v, x)' <=> IF v = w THEN x = y ELSE Has(v, x)
  BY HasStored
<1>5. PICK z : z = mem[slot]
  OBVIOUS
<1>6. QED
  BY <1>1, <1>2, <1>3, <1>4, <1>5, AssignView

LEMMA SetLocalMaps ==
  ASSUME IInv, ClosureInv, IInv', ClosureInv',
         NEW i \in LocalIndex, NEW x \in Values, SetLocal(i, x)
  PROVE  Lexical!Next
<1>1. PICK v : v = Frame.locals[i].var
  OBVIOUS
<1>2. PICK slot : slot = SlotOf(Frame, i)
  OBVIOUS
<1>3. /\ mem' = [mem EXCEPT ![top] = x, ![slot] = x]
      /\ UNCHANGED <<top, frames, upvalues, open, building, closures, nvars>>
  BY <1>2 DEF SetLocal
<1>4. InScope(v, slot)
  <2>1. frames # << >> /\ i \in 2 .. Len(Frame.locals)
    BY DEF LocalIndex
  <2>2. Len(frames) \in DOMAIN frames
    BY <2>1, FrameType DEF IInv
  <2>3. QED
    BY <1>1, <1>2, <2>1, <2>2 DEF InScope, Holds, Frame
<1>5. QED
  BY <1>3, <1>4, StoreMaps

LEMMA SetUpvalueMaps ==
  ASSUME IInv, ClosureInv, IInv', ClosureInv',
         NEW v \in Captured, NEW x \in Values, SetUpvalue(v, x)
  PROVE  Lexical!Next
<1>1. PICK u : u = Frame.captures[v]
  OBVIOUS
<1>2. Caught(v, u)
  BY <1>1, FrameCatches
<1>3. /\ IF upvalues[u].location = Self
         THEN /\ mem' = [mem EXCEPT ![top] = x]
              /\ upvalues' = [upvalues EXCEPT ![u].closed = x]
         ELSE /\ mem' = [mem EXCEPT ![top] = x, ![upvalues[u].location] = x]
              /\ UNCHANGED upvalues
      /\ UNCHANGED <<top, frames, open, building, closures, nvars>>
  BY <1>1 DEF SetUpvalue
<1>4. CASE upvalues[u].location # Self
  <2>1. PICK slot : slot = upvalues[u].location
    OBVIOUS
  <2>2. InScope(v, slot)
    BY <1>2, <1>4, <2>1, Relations
  <2>3. mem' = [mem EXCEPT ![top] = x, ![slot] = x] /\ UNCHANGED upvalues
    BY <1>3, <1>4, <2>1
  <2>4. QED
    BY <1>3, <2>2, <2>3, StoreMaps
<1>5. CASE upvalues[u].location = Self
  <2>1. HasIsValueOf /\ HasIsValueOf'
    BY ValueOfVariable, ValueOfVariableNext
  <2>2. v \in Variable
    BY <1>2, CaughtRange DEF IInv, ClosureInv
  <2>3. PICK z : z = Deref(u)
    OBVIOUS
  <2>4. Has(v, z)
    BY <1>2, <2>3 DEF Has
  <2>5. \A w, y : Has(w, y)' <=> IF w = v THEN y = x ELSE Has(w, y)
    BY <1>2, <1>3, <1>5, HasStoredClosed
  <2>6. QED
    BY <1>3, <2>1, <2>2, <2>4, <2>5, AssignView
<1>6. QED
  BY <1>4, <1>5

LEMMA InterpretMaps ==
  ASSUME IInv, ClosureInv, IInv', ClosureInv', Exits \subseteq {"scope"}, Interpret
  PROVE  View' = View
<1>1. frames = << >> /\ UNCHANGED <<upvalues, open, building, closures, nvars>>
  BY DEF Interpret
<1>2. \A v, s : InScope(v, s)' <=> InScope(v, s)
  BY InterpretEffect
<1>3. \A s \in 0 .. Limit - 1 : mem'[s] = mem[s]
  <2>1. Limit = 0
    BY <1>1 DEF Limit
  <2>2. QED
    BY <2>1
<1>4. QED
  BY <1>1, <1>2, <1>3, SameCaptures, ViewKept

LEMMA InitMaps == Init => Lexical!Init
<1> SUFFICES ASSUME Init PROVE Lexical!Init
  OBVIOUS
<1>1. HasIsValueOf
  BY InitIInv, InitClosureInv, ValueOfVariable
<1>2. /\ \A v, s : ~ InScope(v, s)
      /\ \A v, u : ~ Caught(v, u)
  BY InitRelations
<1>3. ASSUME NEW v \in Variable PROVE ValueOf(v) = Unborn
  <2>1. nvars = 0 /\ ~ (v <= nvars)
    BY DEF Init, Variable
  <2>2. \A x : ~ Has(v, x)
    BY <1>2 DEF Has
  <2>3. QED
    BY <1>1, <2>1, <2>2 DEF HasIsValueOf
<1>4. QED
  BY <1>3 DEF Lexical!Init

LEMMA NextMaps ==
  ASSUME Exits \subseteq {"scope"}
  PROVE  IInv /\ ClosureInv /\ NothingHalfBuilt /\ IInv' /\ ClosureInv' /\ [Next]_vars
           => [Lexical!Next]_View
<1> SUFFICES ASSUME IInv, ClosureInv, NothingHalfBuilt, IInv', ClosureInv', [Next]_vars
             PROVE  Lexical!Next \/ View' = View
  OBVIOUS
<1> DEFINE Mapped == Lexical!Next \/ View' = View
<1>1. CASE UNCHANGED vars
  <2>1. UNCHANGED <<mem, frames, upvalues, building, closures, nvars>>
    BY <1>1 DEF vars
  <2>2. QED
    BY <2>1, SameFrames, SameCaptures, ViewKept
<1>2. CASE Next
  <2>1. ASSUME NEW x \in Values, Let(x) PROVE Mapped
    BY <2>1, LetMaps
  <2>2. ASSUME NEW x \in Results, ExpressionStatement(x) PROVE Mapped
    BY <2>2, ExpressionStatementMaps
  <2>3. ASSUME NEW i \in LocalIndex, NEW x \in Values, SetLocal(i, x) PROVE Mapped
    BY <2>3, SetLocalMaps
  <2>4. ASSUME NEW v \in Captured, NEW x \in Values, SetUpvalue(v, x) PROVE Mapped
    BY <2>4, SetUpvalueMaps
  <2>5. CASE BeginScope
    BY <2>5, BeginScopeMaps
  <2>6. CASE EndScope
    BY <2>6, EndScopeDrops, ViewForgets
  <2>7. ASSUME NEW d \in OuterDepths, LoopExit(d) PROVE Mapped
    BY <2>7, LoopExitDrops, ViewForgets
  <2>8. ASSUME NEW global \in BOOLEAN, OpClosure(global) PROVE Mapped
    BY <2>8, OpClosureMaps
  <2>9. ASSUME NEW i \in LocalIndex, CaptureLocal(i) PROVE Mapped
    BY <2>9, CaptureLocalMaps
  <2>10. ASSUME NEW v \in Captured, CopyUpvalue(v) PROVE Mapped
    BY <2>10, CopyUpvalueMaps
  <2>11. CASE ClosureDone
    BY <2>11, ClosureDoneMaps
  <2>12. ASSUME NEW i \in LocalIndex, ClosureSkipped(i) PROVE Mapped
    BY <2>12, ClosureSkippedMaps
  <2>13. ASSUME NEW c \in closures, NEW args \in Arguments, Call(c, args) PROVE Mapped
    BY <2>13, CallMaps
  <2>14. ASSUME NEW x \in Results, OpReturn(x) PROVE Mapped
    BY <2>14, OpReturnDrops, ViewForgets
  <2>15. CASE Interpret
    BY <2>15, InterpretMaps
  <2>16. QED
    BY <1>2, <2>1, <2>2, <2>3, <2>4, <2>5, <2>6, <2>7, <2>8, <2>9, <2>10, <2>11,
       <2>12, <2>13, <2>14, <2>15 DEF Next
<1>3. QED
  BY <1>1, <1>2

(* The stack, the frames and the upvalue objects of such programs          *)
(* implement variables: each keeps the value it was last assigned, through *)
(* its slot or through any closure, for as long as it can be reached.      *)
THEOREM VariablesAreImplemented ==
  ASSUME Exits \subseteq {"scope"} PROVE Spec => ImplementsLexicalVariables
<1>1. Init => Lexical!Init /\ NothingHalfBuilt
  <2>1. Init => NothingHalfBuilt
    BY DEF Init, NothingHalfBuilt
  <2>2. QED
    BY <2>1, InitMaps
<1>2. Spec => [](IInv /\ ClosureInv)
  BY ClosuresOwnTheirVariables
<1>3. IInv /\ NothingHalfBuilt /\ [Next]_vars => NothingHalfBuilt'
  BY NothingHalfBuiltNext
<1>4. IInv /\ ClosureInv /\ NothingHalfBuilt /\ IInv' /\ ClosureInv' /\ [Next]_vars
        => [Lexical!Next]_View
  BY NextMaps
<1>5. QED
  BY <1>1, <1>2, <1>3, <1>4, PTL DEF Spec, ImplementsLexicalVariables, Lexical!Spec, View
===============================================================================
