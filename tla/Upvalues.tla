------------------------------ MODULE Upvalues ------------------------------
(***************************************************************************)
(* Local variables and closures of the virtual machine: the value stack,   *)
(* the call frames, the upvalue objects and the list of open upvalues      *)
(* (vm.cpp, object.cpp), driven by the instruction sequences the compiler  *)
(* emits for declarations, scopes, loops, calls and returns (compiler.cpp).*)
(*                                                                         *)
(* A behaviour is one execution of some program: at each step the program  *)
(* does any statement the language has.  A step is the whole instruction   *)
(* sequence of the statement, except op_closure, whose loop over the       *)
(* upvalues is one step per iteration.                                     *)
(***************************************************************************)
EXTENDS Integers, FiniteSets, SequencesExt

CONSTANTS
  Values,        \* the data a program stores, as opposed to Fun and Null
  Fun, Null,     \* a closure, and null
  Results,       \* what expression statements and functions evaluate to
  StackSize,     \* bound: slots of the stack's storage
  MaxFrames,     \* bound: call depth
  MaxDepth,      \* bound: nesting of scopes in a function
  MaxVariables,  \* bound: variables declared in a run
  MaxUpvalues,   \* bound: upvalue objects created in a run
  Exits          \* how the programs considered leave captured locals behind

(* Besides "return", which every program may use: "scope", the end of a    *)
(* block whose only captured local, if any, is its last one; "buried", the *)
(* end of any block; "jump", a break or continue out of a block with       *)
(* captured locals; "error", a runtime error after which the REPL          *)
(* interprets the next line on the same vm.                                *)
ExitKinds == {"scope", "buried", "jump", "error"}

ASSUME ConstantsAssumption ==
  /\ StackSize \in Nat /\ StackSize > 1
  /\ MaxFrames \in Nat \ {0}
  /\ MaxDepth \in Nat \ {0}
  /\ MaxVariables \in Nat
  /\ MaxUpvalues \in Nat
  /\ Exits \subseteq ExitKinds
  /\ Results \subseteq Values \cup {Fun, Null}
  /\ Fun # Null
  /\ Fun \notin Values
  /\ Null \notin Values

VARIABLES
  mem,       \* stack::m_storeage: popped slots keep what they held
  top,       \* stack::m_top
  frames,    \* m_call_frames, with what the compiler knows of each function
  upvalues,  \* the upvalue objects, in order of creation
  open,      \* m_open_upvalues: the linked list, its head first
  building,  \* the closure op_closure is filling in
  closures,  \* every closure created: any of them may be called later
  nvars      \* variables declared so far

vars == <<mem, top, frames, upvalues, open, building, closures, nvars>>

Slots == 0 .. StackSize - 1
Cells == Values \cup {Fun, Null}
Variable == 1 .. MaxVariables
NoVariable == 0  \* what local 0, the callee, is

(* upvalue_object::location points into the stack or at its own "closed".  *)
Self == -1

NoCaptures == [v \in {} |-> 0]

Frame == frames[Len(frames)]

-----------------------------------------------------------------------------
(* Mutants: what the definitions below would be with a bug.  No action uses *)
(* them.                                                                    *)

ScanPastEqual(slot, pos) ==
  /\ \A i \in 1 .. pos - 1 : upvalues[open[i]].location >= slot
  /\ pos <= Len(open) => upvalues[open[pos]].location < slot

ScanOnlyHead(slot, pos) == pos = 1

ClosesOnlyHead(k, slot) ==
  k = IF open # << >> /\ upvalues[open[1]].location >= slot THEN 1 ELSE 0

ClosesAbove(k, slot) ==
  /\ \A i \in 1 .. k : upvalues[open[i]].location > slot
  /\ k < Len(open) => upvalues[open[k + 1]].location <= slot

PopsOneTooMany(keep) == Len(Frame.locals) - keep + 1

NothingCapturedAfter(keep) == {}

-----------------------------------------------------------------------------
(* What the code looks up. *)

SlotOf(frame, i) == frame.slots + i - 1

(* op_get_upvalue: *upvalue->location. *)
Deref(u) ==
  IF upvalues[u].location = Self
  THEN upvalues[u].closed
  ELSE mem[upvalues[u].location]

(* n more values fit, and after them the temporary of an expression.       *)
Room(n) == top + n < StackSize

Idle == frames # << >> /\ ~building.active

CallFrame(slots, locals, captures) ==
  [slots |-> slots, depth |-> 1, locals |-> locals, captures |-> captures]

Local(v, depth) == [var |-> v, depth |-> depth, captured |-> FALSE]

Callee == Local(NoVariable, 0)

(* vm::capture_value stops its walk along the open list before the first   *)
(* entry that is not above the slot.                                       *)
ScanStopsAt(slot, pos) ==
  /\ \A i \in 1 .. pos - 1 : upvalues[open[i]].location > slot
  /\ pos <= Len(open) => upvalues[open[pos]].location <= slot

(* A new upvalue of the slot is linked in before that entry.               *)
LinkIn(slot, pos) ==
  /\ upvalues' = Append(upvalues, [location |-> slot, closed |-> Null])
  /\ open' = InsertAt(open, pos, Len(upvalues) + 1)

(* vm::close_upvalue takes entries off the head while they are at or above *)
(* the slot: it closes the first k.                                        *)
ClosesFirst(k, slot) ==
  /\ \A i \in 1 .. k : upvalues[open[i]].location >= slot
  /\ k < Len(open) => upvalues[open[k + 1]].location < slot

(* A mutant of CloseUpvalue: the head of the list is not moved on.         *)
CloseWithoutUnlinking(slot, m) ==
  \E k \in 0 .. Len(open) :
    /\ ClosesFirst(k, slot)
    /\ UNCHANGED open
    /\ upvalues' = [u \in DOMAIN upvalues |->
         IF \E i \in 1 .. k : open[i] = u
         THEN [location |-> Self, closed |-> m[upvalues[u].location]]
         ELSE upvalues[u]]

(* Closing copies the value out of the stack, as memory m has it.          *)
CloseUpvalue(slot, m) ==
  \E k \in 0 .. Len(open) :
    /\ ClosesFirst(k, slot)
    /\ open' = SubSeq(open, k + 1, Len(open))
    /\ upvalues' = [u \in DOMAIN upvalues |->
         IF \E i \in 1 .. k : open[i] = u
         THEN [location |-> Self, closed |-> m[upvalues[u].location]]
         ELSE upvalues[u]]

(* The locals of the current function declared deeper than d: the suffix   *)
(* after the first "keep".                                                 *)
DeeperThan(d, keep) ==
  /\ \A i \in 1 .. keep : Frame.locals[i].depth <= d
  /\ \A i \in keep + 1 .. Len(Frame.locals) : Frame.locals[i].depth > d

(* emit_pops: the operand of the op_pop_n that drops them.                 *)
Pops(keep) == Len(Frame.locals) - keep

CapturedAfter(keep) ==
  {i \in keep + 1 .. Len(Frame.locals) : Frame.locals[i].captured}

SetFrame(frame) == frames' = [frames EXCEPT ![Len(frames)] = frame]

DeclareLocal ==
  SetFrame([Frame EXCEPT !.locals = Append(@, Local(nvars + 1, Frame.depth))])

-----------------------------------------------------------------------------
ScriptFrame == CallFrame(0, <<Callee>>, NoCaptures)

Init ==
  /\ mem = [s \in Slots |-> IF s = 0 THEN Fun ELSE Null]
  /\ top = 1
  /\ frames = <<ScriptFrame>>
  /\ upvalues = << >>
  /\ open = << >>
  /\ building = [active |-> FALSE, global |-> FALSE, captures |-> NoCaptures]
  /\ closures = {}
  /\ nvars = 0

(* "let": the value is pushed and its slot becomes the variable.           *)
Let(x) ==
  /\ Idle /\ Room(1) /\ nvars < MaxVariables
  /\ mem' = [mem EXCEPT ![top] = x]
  /\ top' = top + 1
  /\ nvars' = nvars + 1
  /\ DeclareLocal
  /\ UNCHANGED <<upvalues, open, building, closures>>

(* An expression statement: its value is pushed and popped.                *)
ExpressionStatement(x) ==
  /\ Idle
  /\ mem' = [mem EXCEPT ![top] = x]
  /\ UNCHANGED <<top, frames, upvalues, open, building, closures, nvars>>

(* op_set_local writes the value on top of the stack into the slot.        *)
SetLocal(i, x) ==
  /\ Idle
  /\ mem' = [mem EXCEPT ![top] = x, ![SlotOf(Frame, i)] = x]
  /\ UNCHANGED <<top, frames, upvalues, open, building, closures, nvars>>

(* op_set_upvalue writes it through the upvalue of the running closure.    *)
SetUpvalue(v, x) ==
  LET u == Frame.captures[v] IN
  /\ Idle
  /\ IF upvalues[u].location = Self
     THEN /\ mem' = [mem EXCEPT ![top] = x]
          /\ upvalues' = [upvalues EXCEPT ![u].closed = x]
     ELSE /\ mem' = [mem EXCEPT ![top] = x, ![upvalues[u].location] = x]
          /\ UNCHANGED upvalues
  /\ UNCHANGED <<top, frames, open, building, closures, nvars>>

BeginScope ==
  /\ Idle /\ Frame.depth < MaxDepth
  /\ SetFrame([Frame EXCEPT !.depth = @ + 1])
  /\ UNCHANGED <<mem, top, upvalues, open, building, closures, nvars>>

(* end_scope and clean_scope_garbage: op_close_upvalue for each captured   *)
(* local, always of the slot on top of the stack, then one op_pop_n.       *)
EndScope ==
  /\ Idle /\ Frame.depth > 1
  /\ \E keep \in 1 .. Len(Frame.locals) :
       /\ DeeperThan(Frame.depth - 1, keep)
       /\ \/ "buried" \in Exits
          \/ "scope" \in Exits /\ CapturedAfter(keep) \subseteq {Len(Frame.locals)}
          \/ CapturedAfter(keep) = {}
       /\ SetFrame([Frame EXCEPT !.depth = @ - 1, !.locals = SubSeq(@, 1, keep)])
       /\ top' = top - Pops(keep)
       /\ IF CapturedAfter(keep) # {}
          THEN CloseUpvalue(top - 1, mem)
          ELSE UNCHANGED <<upvalues, open>>
  /\ UNCHANGED <<mem, building, closures, nvars>>

(* break and continue: pop_locals emits the op_pop_n and no                *)
(* op_close_upvalue, then the jump lands at the depth d of the loop.       *)
LoopExit(d) ==
  /\ Idle
  /\ \E keep \in 1 .. Len(Frame.locals) :
       /\ DeeperThan(d, keep)
       /\ "jump" \in Exits \/ CapturedAfter(keep) = {}
       /\ SetFrame([Frame EXCEPT !.depth = d, !.locals = SubSeq(@, 1, keep)])
       /\ top' = top - Pops(keep)
  /\ UNCHANGED <<mem, upvalues, open, building, closures, nvars>>

(* op_closure pushes the closure.  The name a local "fu" declares is in    *)
(* scope in its own body; op_define_global pops that of a "glob fu".       *)
OpClosure(global) ==
  /\ Idle /\ Room(1)
  /\ mem' = [mem EXCEPT ![top] = Fun]
  /\ top' = top + 1
  /\ building' = [active |-> TRUE, global |-> global, captures |-> NoCaptures]
  /\ IF global
     THEN UNCHANGED <<frames, nvars>>
     ELSE /\ nvars < MaxVariables
          /\ nvars' = nvars + 1
          /\ DeclareLocal
  /\ UNCHANGED <<upvalues, open, closures>>

WithCapture(v, u) ==
  [w \in DOMAIN building.captures \cup {v} |->
     IF w = v THEN u ELSE building.captures[w]]

(* The next upvalue is a local of the running function: vm::capture_value  *)
(* reuses the open upvalue of its slot or links a new one in.              *)
CaptureLocal(i) ==
  LET v == Frame.locals[i].var
      slot == SlotOf(Frame, i)
  IN
  /\ building.active /\ v \notin DOMAIN building.captures
  /\ SetFrame([Frame EXCEPT !.locals[i].captured = TRUE])
  /\ \E pos \in 1 .. Len(open) + 1 :
       /\ ScanStopsAt(slot, pos)
       /\ IF pos <= Len(open) /\ upvalues[open[pos]].location = slot
          THEN /\ building' = [building EXCEPT !.captures = WithCapture(v, open[pos])]
               /\ UNCHANGED <<upvalues, open>>
          ELSE /\ Len(upvalues) < MaxUpvalues
               /\ LinkIn(slot, pos)
               /\ building' = [building EXCEPT !.captures =
                                 WithCapture(v, Len(upvalues) + 1)]
  /\ UNCHANGED <<mem, top, closures, nvars>>

(* The next upvalue is one of the running closure's own.                   *)
CopyUpvalue(v) ==
  /\ building.active /\ v \notin DOMAIN building.captures
  /\ building' = [building EXCEPT !.captures = WithCapture(v, Frame.captures[v])]
  /\ UNCHANGED <<mem, top, frames, upvalues, open, closures, nvars>>

ClosureDone ==
  /\ building.active
  /\ closures' = closures \cup {building.captures}
  /\ building' = [active |-> FALSE, global |-> FALSE, captures |-> NoCaptures]
  /\ top' = IF building.global THEN top - 1 ELSE top
  /\ UNCHANGED <<mem, frames, upvalues, open, nvars>>

(* The declaration of a nested function is compiled, which marks the local *)
(* captured, but lies on a branch that is not taken.                       *)
ClosureSkipped(i) ==
  /\ Idle
  /\ SetFrame([Frame EXCEPT !.locals[i].captured = TRUE])
  /\ UNCHANGED <<mem, top, upvalues, open, building, closures, nvars>>

(* op_call: the callee and the arguments are on the stack, and become the  *)
(* first locals of the frame closure_object::call_impl pushes.             *)
Call(c, args) ==
  /\ Idle /\ Len(frames) < MaxFrames
  /\ Room(1 + Len(args)) /\ nvars + Len(args) <= MaxVariables
  /\ mem' = [s \in Slots |->
       IF s = top THEN Fun
       ELSE IF s \in top + 1 .. top + Len(args) THEN args[s - top] ELSE mem[s]]
  /\ top' = top + 1 + Len(args)
  /\ nvars' = nvars + Len(args)
  /\ frames' = Append(frames, CallFrame(top,
       <<Callee>> \o [i \in 1 .. Len(args) |-> Local(nvars + i, 1)], c))
  /\ UNCHANGED <<upvalues, open, building, closures>>

(* op_return: the result is popped, the frame's upvalues are closed and    *)
(* its slots dropped, and the result goes where the callee was.  The       *)
(* caller is an expression statement, which pops it.                       *)
OpReturn(x) ==
  LET pushed == [mem EXCEPT ![top] = x] IN
  /\ Idle
  /\ CloseUpvalue(Frame.slots, pushed)
  /\ top' = Frame.slots
  /\ frames' = SubSeq(frames, 1, Len(frames) - 1)
  /\ mem' = IF Len(frames) = 1 THEN pushed ELSE [pushed EXCEPT ![Frame.slots] = x]
  /\ UNCHANGED <<building, closures, nvars>>

(* vm::interpret of the next line: the frames and the stack start afresh,  *)
(* the open list stays.                                                    *)
Interpret ==
  /\ frames = << >> \/ ("error" \in Exits /\ Idle)
  /\ mem' = [mem EXCEPT ![0] = Fun]
  /\ top' = 1
  /\ frames' = <<ScriptFrame>>
  /\ UNCHANGED <<upvalues, open, building, closures, nvars>>

-----------------------------------------------------------------------------
LocalIndex == IF frames = << >> THEN {} ELSE 2 .. Len(Frame.locals)

Captured == IF frames = << >> THEN {} ELSE DOMAIN Frame.captures

OuterDepths == IF frames = << >> THEN {} ELSE 1 .. Frame.depth - 1

Arguments == {<< >>} \cup {<<x>> : x \in Values}

Next ==
  \/ \E x \in Values : Let(x)
  \/ \E x \in Results : ExpressionStatement(x)
  \/ \E i \in LocalIndex, x \in Values : SetLocal(i, x)
  \/ \E v \in Captured, x \in Values : SetUpvalue(v, x)
  \/ BeginScope
  \/ EndScope
  \/ \E d \in OuterDepths : LoopExit(d)
  \/ \E global \in BOOLEAN : OpClosure(global)
  \/ \E i \in LocalIndex : CaptureLocal(i)
  \/ \E v \in Captured : CopyUpvalue(v)
  \/ ClosureDone
  \/ \E i \in LocalIndex : ClosureSkipped(i)
  \/ \E c \in closures, args \in Arguments : Call(c, args)
  \/ \E x \in Results : OpReturn(x)
  \/ Interpret

Spec == Init /\ [][Next]_vars

-----------------------------------------------------------------------------
(***************************************************************************)
(* Properties                                                              *)
(***************************************************************************)
Captures(ids) == UNION {[S -> ids] : S \in SUBSET (Variable \cup {NoVariable})}

LocalRecord ==
  [var : Variable \cup {NoVariable}, depth : 0 .. MaxDepth, captured : BOOLEAN]

FrameRecord(ids) ==
  [slots : Slots, depth : 1 .. MaxDepth, locals : Seq(LocalRecord),
   captures : Captures(ids)]

UpvalueRecord == [location : Slots \cup {Self}, closed : Cells]

(* Every variable has its type; the stack keeps a slot for a temporary.    *)
TypeOK ==
  /\ mem \in [Slots -> Cells]
  /\ top \in 0 .. StackSize - 1
  /\ frames \in Seq(FrameRecord(DOMAIN upvalues))
  /\ upvalues \in Seq(UpvalueRecord)
  /\ open \in Seq(DOMAIN upvalues)
  /\ building \in [active : BOOLEAN, global : BOOLEAN,
                   captures : Captures(DOMAIN upvalues)]
  /\ closures \subseteq Captures(DOMAIN upvalues)
  /\ nvars \in 0 .. MaxVariables

(* The compiler's index of a local is its slot, counted from the frame's   *)
(* first: the frames lie back to back on the stack, each exactly as long   *)
(* as the locals the compiler has in scope at that point, and between two  *)
(* statements nothing else is left on top of the last one.                 *)
StackMatchesLocals ==
  /\ building.active => frames # << >>
  /\ \A n \in DOMAIN frames :
       /\ frames[n].locals # << >> /\ frames[n].locals[1].depth = 0
       /\ frames[n].slots =
            IF n = 1 THEN 0 ELSE frames[n - 1].slots + Len(frames[n - 1].locals)
  /\ top = IF frames = << >> THEN 0
           ELSE Frame.slots + Len(Frame.locals)
                  + (IF building.active /\ building.global THEN 1 ELSE 0)

(* The open list is what capture_value's walk and close_upvalue's loop     *)
(* take it for: strictly descending by slot, so that one slot never has    *)
(* two open upvalues, and made of exactly the upvalues not closed yet.     *)
OpenListSorted ==
  /\ \A i, j \in DOMAIN open :
       i < j => upvalues[open[i]].location > upvalues[open[j]].location
  /\ \A u \in DOMAIN upvalues :
       (upvalues[u].location # Self) <=> \E i \in DOMAIN open : open[i] = u

(* The slot of a local that is in scope in some frame.                     *)
LocalsInScope ==
  UNION {{<<n, i>> : i \in 2 .. Len(frames[n].locals)} : n \in DOMAIN frames}

VarAt(p) == frames[p[1]].locals[p[2]].var

SlotAt(p) == SlotOf(frames[p[1]], p[2])

(* The closures, the one being built included.                             *)
AllCaptures == closures \cup {building.captures}

(* An upvalue a closure captured a variable with and that is still open    *)
(* points at the slot of that very variable, which is still in scope: the  *)
(* stack never drops a variable without closing its upvalue.               *)
OpenPointsToItsVariable ==
  \A c \in AllCaptures : \A v \in DOMAIN c :
    upvalues[c[v]].location # Self =>
      \E p \in LocalsInScope :
        VarAt(p) = v /\ SlotAt(p) = upvalues[c[v]].location

(* Closures that capture the same variable share one upvalue, however and  *)
(* whenever they captured it, and those that capture different variables   *)
(* never do.                                                               *)
SharedExactlyByVariable ==
  \A c, d \in AllCaptures : \A v \in DOMAIN c, w \in DOMAIN d :
    (c[v] = d[w]) <=> (v = w)

(* No variable is ever given null by these programs, so no closure may     *)
(* read null out of one.                                                   *)
NoClosureReadsNull ==
  \A c \in AllCaptures : \A v \in DOMAIN c : Deref(c[v]) # Null

(* A closed upvalue owns its variable for good: it is never linked or      *)
(* pointed into the stack again, whatever happens to the stack.            *)
ClosedForGood ==
  [][\A u \in DOMAIN upvalues :
       upvalues[u].location = Self =>
         /\ upvalues'[u].location = Self
         /\ \A i \in DOMAIN open' : open'[i] # u]_vars

-----------------------------------------------------------------------------
(***************************************************************************)
(* Refinement: the stack, the frames and the upvalues implement variables. *)
(***************************************************************************)
CONSTANTS Unborn, Gone

ASSUME MarksAssumption == Unborn \notin Cells /\ Gone \notin Cells

ValueOf(v) ==
  IF \E p \in LocalsInScope : VarAt(p) = v
  THEN mem[SlotAt(CHOOSE p \in LocalsInScope : VarAt(p) = v)]
  ELSE IF \E c \in AllCaptures : v \in DOMAIN c
  THEN Deref((CHOOSE c \in AllCaptures : v \in DOMAIN c)[v])
  ELSE IF v <= nvars THEN Gone ELSE Unborn

Lexical == INSTANCE LexicalVariables WITH
  Variables <- Variable,
  val <- [v \in Variable |-> ValueOf(v)]

(* A variable keeps its value until it is assigned, through its slot or    *)
(* through any closure, for as long as it can be reached.                  *)
ImplementsLexicalVariables == Lexical!Spec
=============================================================================
