----------------------------- MODULE CallsProofs ----------------------------
(***************************************************************************)
(* Proofs about Calls: in every program, every value and every table stays *)
(* of its type, the frames divide the stack, no instruction reaches below  *)
(* its frame, what a class has inherited is what its superclass has, and   *)
(* the machine implements DynamicDispatch.                                 *)
(***************************************************************************)
EXTENDS Calls, SequenceLemmas

(***************************************************************************)
(* The inductive invariant                                                 *)
(***************************************************************************)
(* The values there are when the classes of K are declared and n instances *)
(* made: every closure among them was declared outside a class, since a    *)
(* method is only ever called, or bound to an instance.                    *)
ClassValues(K) == {Class(c) : c \in K \cup {"string", "closure"}}

Closures(K) ==
  [k : {"closure"}, kind : FunctionKinds, owner : UserClasses \cup {""},
   name : FunctionNames, arity : Nat,
   super : {Null} \cup ClassValues(K)]

Instances(n) == {Instance(i) : i \in 1 .. n}

BoundMethods(K, n) ==
  [k : {"bound"}, receiver : Instances(n),
   method : Closures(K) \cup {Native("clone")}]

Values(K, n) ==
  {Null, Number, Bool, String, Native("clock"), Native("srand")}
    \cup ClassValues(K) \cup GlobalFunctions \cup Instances(n)
    \cup BoundMethods(K, n)

HeapObjects(K, n) == [class : K, fields : [Names -> Values(K, n) \cup {Absent}]]

(* What a class can have in its table of operations, its own or inherited: *)
(* never the native that calls a class, and no native as constructor.      *)
OperationNatives ==
  {Native(n) : n \in {"instance print", "string plus", "string equal",
    "string print", "closure equal", "closure call", "closure print"}}

OperationTables(K) ==
  {operations \in [Slots -> Closures(K) \cup {Null} \cup OperationNatives] :
     operations["ctor"] \notin OperationNatives}

Tables(K) ==
  [type : Int, methods : [Names -> Closures(K) \cup {Absent, Native("clone")}],
   operations : OperationTables(K),
   conversions : SUBSET [type : Int, method : Closures(K)]]

CallFrames(K) == [function : Closures(K), slots : Nat, top : Int]

Made == {c \in UserClasses : graph[c].made}

ValuesInv ==
  /\ stack \in Seq(Values(Made, Len(heap)))
  /\ heap \in Seq(HeapObjects(Made, Len(heap)))
  /\ frames \in Seq(CallFrames(Made))
  /\ classes \in [UserClasses -> Tables(Made)]
  /\ status \in {"running", "ok", "error", "undefined"}
  /\ stage \in {"class", "inherit", "get", "members"}
  /\ decls \in Seq(ClassDeclarations)
  /\ lines \in Seq(Lines)
  /\ values \subseteq Mentionable

(* Of a frame whose function can say "super", the receiver is an instance. *)
(* Framing relates a frame to the next one; that it lies below every later *)
(* one would need induction along the frames, and is kept instead.         *)
FramesInv ==
  status = "running" =>
    /\ frames # << >>
    /\ Framing
    /\ \A i, j \in DOMAIN frames : i <= j => frames[i].slots <= frames[j].slots
    /\ \A i \in DOMAIN frames :
         frames[i].function.super # Null => stack[frames[i].slots + 1].k = "instance"

(* The stack while a line declares its classes.                            *)
BelowTheClass ==
  IF Declared.super = Absent THEN <<Script>> ELSE <<Script, Declared.super>>

DeclarationInv ==
  status = "running" =>
    /\ decls # << >> => Len(frames) = 1 /\ frames[1].function = Script
    /\ stage # "class" => decls # << >> /\ graph[Declared.class].made
    /\ stage = "inherit" => Declared.super # Absent
    /\ stage \in {"get", "members"} =>
         Declared.super \in {Absent} \cup ClassValues(Made)
    /\ decls # << >> /\ stage \in {"class", "inherit"} => stack = <<Script>>
    /\ stage = "get" => stack = BelowTheClass
    /\ stage = "members" => stack = Append(BelowTheClass, Class(Declared.class))

Parents == UserClasses \cup {"", "string", "closure"}

Declarations(K) ==
  [made : BOOLEAN, parent : Parents, type : Int,
   methods : [Names -> Closures(K) \cup {Absent}],
   operations : [Slots -> Closures(K) \cup {Null}],
   conversions : SUBSET [type : Int, method : Closures(K)]]

(* A class that is not declared has nothing, one that is being declared is *)
(* nobody's superclass, and what it has before op_inherit is "clone".      *)
GraphInv ==
  /\ graph \in [UserClasses -> Declarations(Made)]
  /\ \A c \in UserClasses :
       /\ ~graph[c].made =>
            graph[c].methods = NoMethods /\ graph[c].parent \notin UserClasses
       /\ graph[c].parent \in UserClasses => graph[graph[c].parent].made
  /\ status = "running" /\ stage # "class" =>
       \A c \in UserClasses : graph[c].parent # Declared.class
  /\ status = "running" /\ stage = "inherit" =>
       /\ graph[Declared.class].methods = NoMethods
       /\ classes[Declared.class].methods = InstanceMethods
       /\ Declared.super # Class(Declared.class)

IInv ==
  ValuesInv /\ FramesInv /\ DeclarationInv /\ GraphInv /\ MethodsAreNearest

(***************************************************************************)
(* Values                                                                  *)
(***************************************************************************)
(* Declaring a class or making an instance leaves all values what they     *)
(* were.                                                                   *)
LEMMA ValuesMonotonic ==
  ASSUME NEW K, NEW K2, K \subseteq K2,
         NEW n \in Nat, NEW n2 \in Nat, n <= n2
  PROVE  /\ Closures(K) \subseteq Closures(K2)
         /\ ClassValues(K) \subseteq ClassValues(K2)
         /\ CallFrames(K) \subseteq CallFrames(K2)
         /\ Values(K, n) \subseteq Values(K2, n2)
         /\ HeapObjects(K, n) \subseteq HeapObjects(K2, n2)
         /\ Tables(K) \subseteq Tables(K2)
<1>1. ClassValues(K) \subseteq ClassValues(K2)
  BY DEF ClassValues
<1>2. Closures(K) \subseteq Closures(K2)
  BY <1>1 DEF Closures
<1>3. CallFrames(K) \subseteq CallFrames(K2)
  BY <1>2 DEF CallFrames
<1>4. Instances(n) \subseteq Instances(n2)
  BY DEF Instances
<1>5. BoundMethods(K, n) \subseteq BoundMethods(K2, n2)
  BY <1>2, <1>4 DEF BoundMethods
<1>6. Values(K, n) \subseteq Values(K2, n2)
  BY <1>1, <1>4, <1>5 DEF Values
<1>7. HeapObjects(K, n) \subseteq HeapObjects(K2, n2)
  BY <1>6 DEF HeapObjects
<1>8. OperationTables(K) \subseteq OperationTables(K2)
  BY <1>2 DEF OperationTables
<1>9. Tables(K) \subseteq Tables(K2)
  BY <1>2, <1>8 DEF Tables
<1>10. QED
  BY <1>1, <1>2, <1>3, <1>6, <1>7, <1>9

(* What a value is by its kind.                                            *)
LEMMA ValueKinds ==
  ASSUME NEW K, NEW n \in Nat, NEW v \in Values(K, n)
  PROVE  /\ v.k \in {"null", "number", "bool", "string", "class", "closure",
                     "native", "instance", "bound"}
         /\ v.k = "class" => v.class \in K \cup {"string", "closure"}
                            /\ v \in ClassValues(K)
         /\ v.k = "closure" => v \in GlobalFunctions
         /\ v.k = "native" => v.name \in {"clock", "srand"}
         /\ v.k = "instance" => v.i \in 1 .. n /\ v \in Instances(n)
<1> USE DEF Null, Number, Bool, String, Native, Class, Instance
<1>1. CASE v \in {Null, Number, Bool, String, Native("clock"), Native("srand")}
  BY <1>1
<1>2. CASE v \in ClassValues(K)
  BY <1>2 DEF ClassValues
<1>3. CASE v \in GlobalFunctions
  BY <1>3 DEF GlobalFunctions
<1>4. CASE v \in Instances(n)
  BY <1>4 DEF Instances
<1>5. CASE v \in BoundMethods(K, n)
  BY <1>5 DEF BoundMethods
<1>6. QED
  BY <1>1, <1>2, <1>3, <1>4, <1>5 DEF Values

(***************************************************************************)
(* Machines                                                                *)
(***************************************************************************)
IsMachine(m) ==
  m \in [stack : Seq(Values(Made, Len(m.heap))), frames : Seq(CallFrames(Made)),
         heap : Seq(HeapObjects(Made, Len(m.heap))),
         status : {"running", "error", "undefined"}]

(* Where the operands of the running frame begin.                          *)
Floor == Base + 1 + Running.arity

(* The instruction has got as far as m, in the frame it began in, and has  *)
(* touched nothing below its operands.                                     *)
KeepsFloor(m) ==
  Len(m.stack) >= Floor /\ \A i \in 1 .. Floor : m.stack[i] = stack[i]

KeepsFrames(m) ==
  /\ \A i \in 1 .. Len(frames) - 1 : m.frames[i] = frames[i]
  /\ m.frames[Len(frames)].function = Running
  /\ m.frames[Len(frames)].slots = Base

InFrame(m) ==
  /\ IsMachine(m) /\ m.status = "running"
  /\ KeepsFloor(m) /\ KeepsFrames(m) /\ Len(m.frames) = Len(frames)

(* It can call something with argc arguments, and has found where.         *)
Ready(m, argc) == InFrame(m) /\ argc \in Nat /\ Len(m.stack) > Floor + argc

Prepared(m, argc) == Ready(m, argc) /\ CurrentTop(m) = Len(m.stack) - argc - 1

(* It has called a function.                                               *)
Entered(m) ==
  LET entered == m.frames[Len(frames) + 1]
  IN  /\ IsMachine(m) /\ m.status = "running"
      /\ KeepsFloor(m) /\ KeepsFrames(m) /\ Len(m.frames) = Len(frames) + 1
      /\ m.frames[Len(frames)].top = entered.slots
      /\ Floor <= entered.slots
      /\ entered.slots + 1 + entered.function.arity <= Len(m.stack)
      /\ entered.function.super # Null =>
           m.stack[entered.slots + 1].k = "instance"

(* How an instruction can end.                                             *)
Outcome(m) ==
  IsMachine(m) /\ (m.status = "running" => InFrame(m) \/ Entered(m))

LEMMA FrameFacts ==
  ASSUME IInv, status = "running"
  PROVE  /\ Len(frames) \in Nat \ {0} /\ Len(stack) \in Nat
         /\ Running \in Closures(Made) /\ Running.arity \in Nat
         /\ Base \in Nat /\ Floor \in Nat /\ Base < Floor /\ Floor <= Len(stack)
         /\ Running.super # Null => This.k = "instance"
<1>1. frames \in Seq(CallFrames(Made)) /\ frames # << >> /\ Len(stack) \in Nat
  BY LenProperties DEF IInv, ValuesInv, FramesInv
<1>2. Len(frames) \in Nat \ {0} /\ DOMAIN frames = 1 .. Len(frames)
  BY <1>1, EmptySeq, LenProperties
<1>3. frames[Len(frames)] \in CallFrames(Made)
  BY <1>1, <1>2, ElementOfSeq
<1>4. Running \in Closures(Made) /\ Base \in Nat /\ Running.arity \in Nat
  BY <1>3 DEF Running, Base, CallFrames, Closures
<1>5. Len(frames) \in DOMAIN frames
  BY <1>2
<1>6. End(Len(frames)) = Len(stack)
  BY <1>2 DEF End
<1>7. Base + 1 + Running.arity <= Len(stack)
  BY <1>5, <1>6 DEF IInv, FramesInv, Framing, Base, Running
<1>8. Running.super # Null => This.k = "instance"
  BY <1>5 DEF IInv, FramesInv, Running, This, Base
<1>9. QED
  BY <1>1, <1>2, <1>4, <1>7, <1>8 DEF Floor

LEMMA MachineFacts ==
  ASSUME NEW m, IsMachine(m)
  PROVE  /\ m.stack \in Seq(Values(Made, Len(m.heap)))
         /\ m.frames \in Seq(CallFrames(Made))
         /\ m.heap \in Seq(HeapObjects(Made, Len(m.heap)))
         /\ Len(m.stack) \in Nat /\ Len(m.frames) \in Nat /\ Len(m.heap) \in Nat
         /\ \A i \in 1 .. Len(m.stack) : m.stack[i] \in Values(Made, Len(m.heap))
<1>1. /\ m.stack \in Seq(Values(Made, Len(m.heap)))
      /\ m.frames \in Seq(CallFrames(Made))
      /\ m.heap \in Seq(HeapObjects(Made, Len(m.heap)))
  BY DEF IsMachine
<1>2. QED
  BY <1>1, LenProperties, ElementOfSeq

(* The machine before an instruction.                                      *)
LEMMA MachineInFrame ==
  ASSUME IInv, status = "running"
  PROVE  /\ InFrame(Machine)
         /\ Machine.stack = stack /\ Machine.frames = frames
         /\ Machine.heap = heap /\ Machine.status = status
<1>1. /\ Machine.stack = stack /\ Machine.frames = frames
      /\ Machine.heap = heap /\ Machine.status = status
  BY DEF Machine
<1>2. IsMachine(Machine)
  BY <1>1 DEF IsMachine, Machine, IInv, ValuesInv
<1>3. QED
  BY <1>1, <1>2, FrameFacts DEF InFrame, KeepsFloor, KeepsFrames, Running, Base

LEMMA StoppedIsOutcome ==
  ASSUME NEW m, IsMachine(m)
  PROVE  Outcome(RuntimeError(m)) /\ Outcome(Undefined(m))
  BY DEF IsMachine, RuntimeError, Undefined, Outcome

LEMMA PushInFrame ==
  ASSUME IInv, status = "running", NEW m, InFrame(m),
         NEW v \in Values(Made, Len(m.heap))
  PROVE  /\ InFrame(Push(m, v)) /\ Push(m, v).heap = m.heap
         /\ Len(Push(m, v).stack) = Len(m.stack) + 1
         /\ \A i \in 1 .. Len(m.stack) : Push(m, v).stack[i] = m.stack[i]
         /\ Push(m, v).stack[Len(m.stack) + 1] = v
<1> DEFINE p == Push(m, v)
<1>1. IsMachine(m)
  BY DEF InFrame
<1>2. /\ p.stack = Append(m.stack, v) /\ p.frames = m.frames
      /\ p.heap = m.heap /\ p.status = m.status
  BY <1>1 DEF Push, IsMachine
<1>3. /\ Append(m.stack, v) \in Seq(Values(Made, Len(m.heap)))
      /\ Len(Append(m.stack, v)) = Len(m.stack) + 1
      /\ \A i \in 1 .. Len(m.stack) : Append(m.stack, v)[i] = m.stack[i]
      /\ Append(m.stack, v)[Len(m.stack) + 1] = v
  BY <1>1, MachineFacts, AppendProperties
<1>4. IsMachine(p)
  BY <1>1, <1>2, <1>3 DEF IsMachine, Push
<1>5. KeepsFloor(p)
  BY <1>1, <1>2, <1>3, FrameFacts, MachineFacts DEF InFrame, KeepsFloor
<1>6. QED
  BY <1>2, <1>3, <1>4, <1>5 DEF InFrame, KeepsFrames

LEMMA PopInFrame ==
  ASSUME IInv, status = "running", NEW m, InFrame(m), NEW n \in Nat,
         Len(m.stack) >= Floor + n
  PROVE  /\ InFrame(Pop(m, n)) /\ Pop(m, n).heap = m.heap
         /\ Len(Pop(m, n).stack) = Len(m.stack) - n
         /\ \A i \in 1 .. Len(m.stack) - n : Pop(m, n).stack[i] = m.stack[i]
<1> DEFINE p == Pop(m, n)
           s == SubSeq(m.stack, 1, Len(m.stack) - n)
<1>1. IsMachine(m)
  BY DEF InFrame
<1>2. /\ p.stack = s /\ p.frames = m.frames
      /\ p.heap = m.heap /\ p.status = m.status
  BY <1>1 DEF Pop, IsMachine
<1>3. Len(m.stack) - n \in 0 .. Len(m.stack)
  BY <1>1, FrameFacts, MachineFacts
<1>4. /\ s \in Seq(Values(Made, Len(m.heap))) /\ Len(s) = Len(m.stack) - n
      /\ \A i \in 1 .. Len(m.stack) - n : s[i] = m.stack[i]
  BY <1>1, <1>3, MachineFacts, TakePrefix
<1> HIDE DEF s
<1>5. IsMachine(p)
  BY <1>1, <1>2, <1>4 DEF IsMachine, Pop, s
<1>6. KeepsFloor(p)
  BY <1>1, <1>2, <1>3, <1>4, FrameFacts, MachineFacts DEF InFrame, KeepsFloor
<1>7. QED
  BY <1>2, <1>4, <1>5, <1>6 DEF InFrame, KeepsFrames

LEMMA SetTopReady ==
  ASSUME IInv, status = "running", NEW m, NEW n, Ready(m, n),
         NEW v \in Values(Made, Len(m.heap))
  PROVE  /\ Ready(SetTop(m, n, v), n) /\ SetTop(m, n, v).heap = m.heap
         /\ Top(SetTop(m, n, v), n) = v
         /\ Len(SetTop(m, n, v).stack) = Len(m.stack)
<1> DEFINE p == SetTop(m, n, v)
           s == [m.stack EXCEPT ![Len(m.stack) - n] = v]
<1>1. IsMachine(m) /\ n \in Nat /\ Len(m.stack) > Floor + n
  BY DEF Ready, InFrame
<1>2. /\ p.stack = s /\ p.frames = m.frames
      /\ p.heap = m.heap /\ p.status = m.status
  BY <1>1 DEF SetTop, IsMachine
<1>3. Len(m.stack) - n \in 1 .. Len(m.stack) /\ Len(m.stack) - n > Floor
  BY <1>1, FrameFacts, MachineFacts
<1>4. /\ s \in Seq(Values(Made, Len(m.heap))) /\ Len(s) = Len(m.stack)
      /\ \A i \in 1 .. Len(m.stack) :
           s[i] = IF i = Len(m.stack) - n THEN v ELSE m.stack[i]
  BY <1>1, <1>3, MachineFacts, ExceptSeq
<1> HIDE DEF s
<1>5. IsMachine(p)
  BY <1>1, <1>2, <1>4 DEF IsMachine, SetTop, s
<1>6. KeepsFloor(p)
  <2>1. \A i \in 1 .. Floor : i \in 1 .. Len(m.stack) /\ i # Len(m.stack) - n
    BY <1>3, FrameFacts, <1>1, MachineFacts
  <2>2. QED
    BY <1>1, <1>2, <1>3, <1>4, <2>1 DEF Ready, InFrame, KeepsFloor
<1>7. Top(p, n) = v
  BY <1>2, <1>3, <1>4 DEF Top
<1>8. QED
  BY <1>1, <1>2, <1>4, <1>5, <1>6, <1>7 DEF Ready, InFrame, KeepsFrames

LEMMA NewInstanceInFrame ==
  ASSUME IInv, status = "running", NEW m, InFrame(m),
         NEW object \in HeapObjects(Made, Len(m.heap))
  PROVE  LET made == NewInstance(m, object) IN
         /\ InFrame(made) /\ made.stack = m.stack
         /\ Newest(made) \in Values(Made, Len(made.heap))
         /\ Newest(made).k = "instance"
<1> DEFINE made == NewInstance(m, object)
           h == Append(m.heap, object)
           n == Len(m.heap)
<1>1. IsMachine(m) /\ n \in Nat
  BY MachineFacts DEF InFrame
<1>2. /\ made.stack = m.stack /\ made.frames = m.frames
      /\ made.heap = h /\ made.status = m.status
  BY <1>1 DEF NewInstance, IsMachine
<1>3. h \in Seq(HeapObjects(Made, n)) /\ Len(h) = n + 1
  BY <1>1, MachineFacts, AppendProperties
<1>4. /\ Values(Made, n) \subseteq Values(Made, n + 1)
      /\ HeapObjects(Made, n) \subseteq HeapObjects(Made, n + 1)
  BY <1>1, ValuesMonotonic
<1>5. h \in Seq(HeapObjects(Made, n + 1))
  BY <1>3, <1>4, SeqMonotonic
<1>6. m.stack \in Seq(Values(Made, n + 1))
  BY <1>1, <1>4, MachineFacts, SeqMonotonic
<1>7. IsMachine(made)
  BY <1>1, <1>2, <1>3, <1>5, <1>6 DEF IsMachine, NewInstance
<1>8. Newest(made) = Instance(n + 1) /\ Len(made.heap) = n + 1
  BY <1>2, <1>3 DEF Newest
<1>9. Instance(n + 1) \in Values(Made, n + 1) /\ Instance(n + 1).k = "instance"
  BY <1>1 DEF Values, Instances, Instance
<1>10. QED
  BY <1>2, <1>7, <1>8, <1>9 DEF InFrame, KeepsFloor, KeepsFrames

(* The place of a call is known, and so are its receiver and arguments.    *)
LEMMA PrepareReady ==
  ASSUME IInv, status = "running", NEW m, NEW argc, Ready(m, argc)
  PROVE  LET p == PrepareCallFrame(m, argc) IN
         /\ Prepared(p, argc) /\ p.stack = m.stack /\ p.heap = m.heap
         /\ Receiver(p) = Top(m, argc)
<1> DEFINE p == PrepareCallFrame(m, argc)
           t == Len(m.stack) - argc - 1
           fs == [m.frames EXCEPT ![Len(m.frames)].top = t]
           last == m.frames[Len(frames)]
<1>1. /\ IsMachine(m) /\ argc \in Nat /\ Len(m.stack) > Floor + argc
      /\ Len(m.frames) = Len(frames)
  BY DEF Ready, InFrame
<1>2. /\ p.stack = m.stack /\ p.frames = fs
      /\ p.heap = m.heap /\ p.status = m.status
  BY <1>1 DEF PrepareCallFrame, IsMachine
<1>3. t \in Int /\ Len(m.stack) \in Nat /\ Len(frames) \in 1 .. Len(frames)
  BY <1>1, MachineFacts, FrameFacts
<1>4. last \in CallFrames(Made)
  BY <1>1, <1>3, MachineFacts, ElementOfSeq
<1>5. [last EXCEPT !.top = t] \in CallFrames(Made)
  BY <1>3, <1>4 DEF CallFrames
<1>6. fs = [m.frames EXCEPT ![Len(frames)] = [last EXCEPT !.top = t]]
  BY <1>1
<1>7. /\ fs \in Seq(CallFrames(Made)) /\ Len(fs) = Len(frames)
      /\ \A i \in 1 .. Len(frames) :
           fs[i] = IF i = Len(frames) THEN [last EXCEPT !.top = t] ELSE m.frames[i]
  BY <1>1, <1>3, <1>5, <1>6, MachineFacts, ExceptSeq
<1>8. /\ fs[Len(frames)].top = t /\ fs[Len(frames)].function = last.function
      /\ fs[Len(frames)].slots = last.slots
  BY <1>3, <1>4, <1>7 DEF CallFrames
<1> HIDE DEF fs
<1>9. IsMachine(p)
  BY <1>1, <1>2, <1>7 DEF IsMachine, PrepareCallFrame, fs
<1>10. KeepsFrames(p)
  BY <1>2, <1>3, <1>7, <1>8 DEF Ready, InFrame, KeepsFrames
<1>11. CurrentTop(p) = t
  BY <1>2, <1>7, <1>8 DEF CurrentTop
<1>12. Receiver(p) = Top(m, argc)
  <2>1. t + 1 = Len(m.stack) - argc
    BY <1>1, <1>3
  <2>2. QED
    BY <1>2, <1>11, <2>1 DEF Receiver, Top
<1>13. QED
  BY <1>1, <1>2, <1>7, <1>9, <1>10, <1>11, <1>12
     DEF Prepared, Ready, InFrame, KeepsFloor

LEMMA TopType ==
  ASSUME IInv, status = "running", NEW m, InFrame(m), NEW n \in Nat,
         Len(m.stack) > Floor + n
  PROVE  Top(m, n) \in Values(Made, Len(m.heap)) /\ Len(m.stack) - n > Floor
<1>1. IsMachine(m)
  BY DEF InFrame
<1>2. Len(m.stack) - n \in 1 .. Len(m.stack) /\ Len(m.stack) - n > Floor
  BY <1>1, FrameFacts, MachineFacts
<1>3. QED
  BY <1>1, <1>2, MachineFacts DEF Top

LEMMA ArgumentsType ==
  ASSUME IInv, status = "running", NEW m, NEW argc, Prepared(m, argc)
  PROVE  /\ Arguments(m, argc) \in Seq(Values(Made, Len(m.heap)))
         /\ Len(Arguments(m, argc)) = argc
         /\ Receiver(m) = Top(m, argc)
         /\ Receiver(m) \in Values(Made, Len(m.heap))
<1>1. /\ IsMachine(m) /\ InFrame(m) /\ argc \in Nat /\ Len(m.stack) > Floor + argc
      /\ CurrentTop(m) = Len(m.stack) - argc - 1
  BY DEF Prepared, Ready, InFrame
<1>2. Len(m.stack) \in Nat /\ Floor \in Nat
  BY <1>1, MachineFacts, FrameFacts
<1> DEFINE k == Len(m.stack) - argc
<1>3. k \in 0 .. Len(m.stack) /\ CurrentTop(m) + 1 = k
      /\ CurrentTop(m) + 2 = k + 1 /\ CurrentTop(m) + 1 + argc = Len(m.stack)
      /\ Len(m.stack) - k = argc
  BY <1>1, <1>2
<1>4. Arguments(m, argc) = SubSeq(m.stack, k + 1, Len(m.stack))
  BY <1>3 DEF Arguments
<1>5. /\ Arguments(m, argc) \in Seq(Values(Made, Len(m.heap)))
      /\ Len(Arguments(m, argc)) = argc
  BY <1>1, <1>3, <1>4, MachineFacts, DropPrefix
<1>6. Receiver(m) = Top(m, argc)
  BY <1>3 DEF Receiver, Top
<1>7. QED
  BY <1>1, <1>5, <1>6, TopType

(* push_call_frame: the frame of the function begins where its receiver    *)
(* and its arguments are.                                                  *)
LEMMA StartSubcallOutcome ==
  ASSUME IInv, status = "running", NEW m, NEW f \in Closures(Made),
         Prepared(m, f.arity),
         f.super # Null => Receiver(m).k = "instance"
  PROVE  Outcome(StartSubcall(m, f))
<1> DEFINE p == StartSubcall(m, f)
           entered == Frame(f, CurrentTop(m))
           fs == Append(m.frames, entered)
<1>1. /\ IsMachine(m) /\ InFrame(m) /\ f.arity \in Nat
      /\ Len(m.stack) > Floor + f.arity
      /\ CurrentTop(m) = Len(m.stack) - f.arity - 1
      /\ Len(m.frames) = Len(frames)
  BY DEF Prepared, Ready, InFrame
<1>2. CASE ~(Len(m.frames) < MaxFrames)
  BY <1>1, <1>2, StoppedIsOutcome DEF StartSubcall
<1>3. CASE Len(m.frames) < MaxFrames
  <2>1. /\ p.stack = m.stack /\ p.frames = fs
        /\ p.heap = m.heap /\ p.status = m.status
    BY <1>1, <1>3 DEF StartSubcall, IsMachine
  <2>2. CurrentTop(m) \in Nat /\ Floor <= CurrentTop(m) /\ Len(m.stack) \in Nat
        /\ Len(frames) \in Nat \ {0} /\ CurrentTop(m) + 1 + f.arity <= Len(m.stack)
    BY <1>1, MachineFacts, FrameFacts
  <2>3. /\ entered \in CallFrames(Made) /\ entered.slots = CurrentTop(m)
        /\ entered.function = f
    BY <2>2 DEF Frame, CallFrames
  <2>4. /\ fs \in Seq(CallFrames(Made)) /\ Len(fs) = Len(frames) + 1
        /\ \A i \in 1 .. Len(frames) : fs[i] = m.frames[i]
        /\ fs[Len(frames) + 1] = entered
    BY <1>1, <2>3, MachineFacts, AppendProperties
  <2> HIDE DEF fs, entered
  <2>5. IsMachine(p)
    BY <1>1, <1>3, <2>1, <2>4 DEF IsMachine, StartSubcall, fs, entered
  <2>6. KeepsFrames(p) /\ KeepsFloor(p)
    BY <1>1, <2>1, <2>2, <2>4 DEF InFrame, KeepsFrames, KeepsFloor
  <2>7. p.frames[Len(frames)].top = entered.slots
    <3>1. Len(frames) \in 1 .. Len(frames)
      BY <2>2
    <3>2. p.frames[Len(frames)] = m.frames[Len(m.frames)]
      BY <1>1, <2>1, <2>4, <3>1
    <3>3. QED
      BY <2>3, <3>2 DEF CurrentTop
  <2>8. f.super # Null => p.stack[entered.slots + 1].k = "instance"
    BY <2>1, <2>3 DEF Receiver
  <2>9. Entered(p)
    BY <1>1, <2>1, <2>2, <2>3, <2>4, <2>5, <2>6, <2>7, <2>8 DEF Entered, InFrame
  <2>10. QED
    BY <2>5, <2>9 DEF Outcome
<1>4. QED
  BY <1>2, <1>3

(* The result takes the place of what was called and its arguments.        *)
LEMMA ReturnValueOutcome ==
  ASSUME IInv, status = "running", NEW m, NEW argc, Prepared(m, argc),
         NEW v \in Values(Made, Len(m.heap))
  PROVE  Outcome(ReturnValue(m, v))
<1> DEFINE p == ReturnValue(m, v)
           rest == SubSeq(m.stack, 1, CurrentTop(m))
           s == Append(rest, v)
<1>1. /\ IsMachine(m) /\ InFrame(m) /\ argc \in Nat /\ Len(m.stack) > Floor + argc
      /\ CurrentTop(m) = Len(m.stack) - argc - 1
  BY DEF Prepared, Ready, InFrame
<1>2. CurrentTop(m) \in 0 .. Len(m.stack) /\ Floor <= CurrentTop(m)
      /\ Floor \in Nat /\ CurrentTop(m) \in Nat
  BY <1>1, MachineFacts, FrameFacts
<1>3. /\ rest \in Seq(Values(Made, Len(m.heap))) /\ Len(rest) = CurrentTop(m)
      /\ \A i \in 1 .. CurrentTop(m) : rest[i] = m.stack[i]
  BY <1>1, <1>2, MachineFacts, TakePrefix
<1>4. /\ p.stack = s /\ p.frames = m.frames
      /\ p.heap = m.heap /\ p.status = m.status
  BY <1>1 DEF ReturnValue, IsMachine
<1> HIDE DEF rest
<1>5. /\ s \in Seq(Values(Made, Len(m.heap))) /\ Len(s) = CurrentTop(m) + 1
      /\ \A i \in 1 .. CurrentTop(m) : s[i] = rest[i]
  BY <1>3, AppendProperties
<1> HIDE DEF s
<1>6. IsMachine(p)
  BY <1>1, <1>4, <1>5 DEF IsMachine, ReturnValue, s, rest
<1>7. KeepsFloor(p)
  <2>1. Len(p.stack) >= Floor
    BY <1>2, <1>4, <1>5
  <2>2. ASSUME NEW i \in 1 .. Floor PROVE p.stack[i] = stack[i]
    <3>1. i \in 1 .. CurrentTop(m)
      BY <1>2
    <3>2. p.stack[i] = m.stack[i]
      BY <1>3, <1>4, <1>5, <3>1
    <3>3. QED
      BY <1>1, <3>2 DEF InFrame, KeepsFloor
  <2>3. QED
    BY <2>1, <2>2 DEF KeepsFloor
<1>8. InFrame(p)
  BY <1>1, <1>4, <1>6, <1>7 DEF InFrame, KeepsFrames
<1>9. QED
  BY <1>6, <1>8 DEF Outcome

(***************************************************************************)
(* What is looked up, and what natives return                              *)
(***************************************************************************)
LEMMA NativeResultType ==
  ASSUME NEW K, NEW n \in Nat, NEW name, NEW this, NEW args \in Seq(Values(K, n)),
         NativeResult(name, this, args).outcome = "value"
  PROVE  NativeResult(name, this, args).value \in Values(K, n)
<1> DEFINE Fine(r) == r.outcome = "value" => r.value \in Values(K, n)
<1>1. {Null, Bool, Number, String} \subseteq Values(K, n)
  BY DEF Values
<1>2. Fine(Refuses) /\ Fine(Misreads) /\ Fine(Returns(Bool)) /\ Fine(Returns(Null))
      /\ Fine(Returns(Number)) /\ Fine(Returns(String))
  BY <1>1 DEF Refuses, Misreads, Returns
<1>3. Fine(StringPlus(this, args[1]))
  BY <1>2 DEF StringPlus
<1>4. Fine(StringEqual(this, args[1]))
  BY <1>2 DEF StringEqual
<1>5. Fine(ClosureEqual(this, args[1]))
  BY <1>2 DEF ClosureEqual
<1>6. Fine(StringCall(args))
  BY <1>2 DEF StringCall
<1>7. Fine(ClosureCall(args))
  <2>1. CASE Len(args) = 1 /\ HasTypeOf(args[1], "closure")
    <3>1. args[1] \in Values(K, n)
      BY <2>1, ElementOfSeq
    <3>2. QED
      BY <2>1, <3>1 DEF ClosureCall, Returns
  <2>2. CASE ~(Len(args) = 1 /\ HasTypeOf(args[1], "closure"))
    BY <1>2, <2>2 DEF ClosureCall
  <2>3. QED
    BY <2>1, <2>2
<1>8. Fine(ClockNative(args)) /\ Fine(SrandNative(args)) /\ Fine(Prints(name, this))
  BY <1>2 DEF ClockNative, SrandNative, Prints
<1> HIDE DEF Fine
<1>9. Fine(NativeResult(name, this, args))
  BY <1>2, <1>3, <1>4, <1>5, <1>6, <1>7, <1>8 DEF NativeResult, ClassEqual
<1>10. QED
  BY <1>9 DEF Fine

LEMMA OperationNativeNames ==
  ASSUME NEW o \in OperationNatives
  PROVE  o.k = "native" /\ o.name \notin {"clone", "class call"}
<1>1. PICK n \in {"instance print", "string plus", "string equal",
                  "string print", "closure equal", "closure call",
                  "closure print"} : o = Native(n)
  BY DEF OperationNatives
<1>2. n \notin {"clone", "class call"}
  BY <1>1
<1>3. QED
  BY <1>1, <1>2 DEF Native

LEMMA Kinds ==
  /\ Null.k = "null" /\ Absent.k = "absent"
  /\ Number.k = "number" /\ Bool.k = "bool" /\ String.k = "string"
  /\ \A n : Native(n).k = "native" /\ Native(n).name = n
  /\ \A i : Instance(i).k = "instance" /\ Instance(i).i = i
  /\ \A c : Class(c).k = "class" /\ Class(c).class = c
  /\ \A K : \A f \in Closures(K) : f.k = "closure" /\ f.arity \in Nat
  BY DEF Null, Absent, Number, Bool, String, Native, Instance, Class, Closures

(* The tables of the built-in meta classes.                                *)
LEMMA MetaOperationsType ==
  ASSUME NEW c \in DOMAIN CallOfMeta, NEW slot \in Slots
  PROVE  LET o == BuiltinOperations(c)[slot] IN
         /\ o.k \in {"null", "native"} /\ (o.k = "null" => o = Null)
         /\ o.k = "native" =>
              /\ o.name # "clone"
              /\ o.name = "class call" => slot = "call" /\ c = "class"
<1>1. /\ DOMAIN CallOfMeta = {"class", "string meta", "closure meta"}
      /\ CallOfMeta["class"] = Native("class call")
      /\ CallOfMeta["string meta"] = Native("string meta call")
      /\ CallOfMeta["closure meta"] = Native("closure meta call")
  BY DEF CallOfMeta
<1>2. BuiltinOperations(c) =
        [NoOperations EXCEPT !["equal"] = Native("class equal"),
                             !["call"] = CallOfMeta[c],
                             !["print"] = Native("class print")]
  BY <1>1 DEF BuiltinOperations
<1>3. /\ slot = "equal" => BuiltinOperations(c)[slot] = Native("class equal")
      /\ slot = "call" => BuiltinOperations(c)[slot] = CallOfMeta[c]
      /\ slot = "print" => BuiltinOperations(c)[slot] = Native("class print")
      /\ slot \notin {"equal", "call", "print"} => BuiltinOperations(c)[slot] = Null
  BY <1>2 DEF NoOperations, Slots
<1>4. QED
  <2> DEFINE o == BuiltinOperations(c)[slot]
  <2> HIDE DEF o
  <2>1. CASE slot \in {"equal", "print"}
    <3>1. o \in {Native("class equal"), Native("class print")}
      BY <1>3, <2>1 DEF o
    <3>2. o.k = "native" /\ o.name \in {"class equal", "class print"}
      BY <3>1, Kinds
    <3>3. QED
      BY <3>2 DEF o
  <2>2. CASE slot = "call"
    <3>1. o = CallOfMeta[c]
      BY <1>3, <2>2 DEF o
    <3>2. /\ o.k = "native" /\ o.name # "clone"
          /\ o.name = "class call" => c = "class"
      <4>1. CASE c = "class"
        <5>1. o = Native("class call")
          BY <1>1, <3>1, <4>1
        <5>2. QED
          BY <4>1, <5>1 DEF Native
      <4>2. CASE c = "string meta"
        <5>1. o = Native("string meta call")
          BY <1>1, <3>1, <4>2
        <5>2. QED
          BY <4>2, <5>1 DEF Native
      <4>3. CASE c = "closure meta"
        <5>1. o = Native("closure meta call")
          BY <1>1, <3>1, <4>3
        <5>2. QED
          BY <4>3, <5>1 DEF Native
      <4>4. QED
        BY <1>1, <4>1, <4>2, <4>3
    <3>3. QED
      BY <2>2, <3>2 DEF o
  <2>3. CASE slot \notin {"equal", "print", "call"}
    <3>1. o = Null
      BY <1>3, <2>3 DEF o
    <3>2. QED
      BY <3>1, Kinds DEF o
  <2>4. QED
    BY <2>1, <2>2, <2>3

(* The tables of the other built-in classes.                               *)
NativeTables ==
  {operations \in [Slots -> {Null} \cup OperationNatives] :
     operations["ctor"] = Null}

LEMMA BuiltinOperationsType ==
  ASSUME NEW c, c \notin DOMAIN CallOfMeta
  PROVE  BuiltinOperations(c) \in NativeTables
<1> DEFINE Fine == NativeTables
<1> USE DEF NativeTables
<1>1. NoOperations \in Fine
  BY DEF NoOperations, Slots
<1>2. DOMAIN CallOfMeta = {"class", "string meta", "closure meta"}
      /\ CallOfMeta["class"] = Native("class call")
      /\ CallOfMeta["string meta"] = Native("string meta call")
      /\ CallOfMeta["closure meta"] = Native("closure meta call")
  BY DEF CallOfMeta
<1>3. ASSUME NEW f \in Fine, NEW s, s # "ctor", NEW o \in OperationNatives
      PROVE  [f EXCEPT ![s] = o] \in Fine
  <2>1. f \in [Slots -> {Null} \cup OperationNatives] /\ f["ctor"] = Null
    BY <1>3
  <2>2. [f EXCEPT ![s] = o] \in [Slots -> {Null} \cup OperationNatives]
    BY <1>3, <2>1
  <2>3. "ctor" \in DOMAIN f
    BY <2>1 DEF Slots
  <2>4. [f EXCEPT ![s] = o]["ctor"] = Null
    BY <1>3, <2>1, <2>3
  <2>5. QED
    BY <2>2, <2>4
<1>4. /\ BuiltinOperations("instance") \in Fine
      /\ BuiltinOperations("string") \in Fine
  <2>1. BuiltinOperations("instance") =
          [NoOperations EXCEPT !["print"] = Native("instance print")]
    BY <1>2 DEF BuiltinOperations
  <2>2. BuiltinOperations("string") =
          [[[NoOperations EXCEPT !["plus"] = Native("string plus")]
              EXCEPT !["equal"] = Native("string equal")]
              EXCEPT !["print"] = Native("string print")]
    BY <1>2 DEF BuiltinOperations
  <2>3. {Native("instance print"), Native("string plus"),
         Native("string equal"), Native("string print")} \subseteq OperationNatives
    BY DEF OperationNatives
  <2> DEFINE plus == [NoOperations EXCEPT !["plus"] = Native("string plus")]
             equal == [plus EXCEPT !["equal"] = Native("string equal")]
  <2> HIDE DEF Fine
  <2>4. plus \in Fine
    BY <1>1, <1>3, <2>3
  <2> HIDE DEF plus
  <2>5. equal \in Fine
    BY <1>3, <2>3, <2>4
  <2> HIDE DEF equal
  <2>6. [equal EXCEPT !["print"] = Native("string print")] \in Fine
    BY <1>3, <2>3, <2>5
  <2>7. [NoOperations EXCEPT !["print"] = Native("instance print")] \in Fine
    BY <1>1, <1>3, <2>3
  <2>8. QED
    BY <2>1, <2>2, <2>6, <2>7 DEF plus, equal
<1>5. BuiltinOperations("closure") \in Fine
  <2>1. BuiltinOperations("closure") =
          [[[NoOperations EXCEPT !["equal"] = Native("closure equal")]
              EXCEPT !["call"] = Native("closure call")]
              EXCEPT !["print"] = Native("closure print")]
    BY <1>2 DEF BuiltinOperations
  <2>2. {Native("closure equal"), Native("closure call"),
         Native("closure print")} \subseteq OperationNatives
    BY DEF OperationNatives
  <2> DEFINE equal == [NoOperations EXCEPT !["equal"] = Native("closure equal")]
             call == [equal EXCEPT !["call"] = Native("closure call")]
  <2> HIDE DEF Fine
  <2>3. equal \in Fine
    BY <1>1, <1>3, <2>2
  <2> HIDE DEF equal
  <2>4. call \in Fine
    BY <1>3, <2>2, <2>3
  <2> HIDE DEF call
  <2>5. [call EXCEPT !["print"] = Native("closure print")] \in Fine
    BY <1>3, <2>2, <2>4
  <2>6. QED
    BY <2>1, <2>5 DEF equal, call
<1>6. c \notin DOMAIN CallOfMeta => BuiltinOperations(c) \in Fine
  <2>1. CASE c \in {"instance", "string", "closure"}
    BY <2>1, <1>4, <1>5
  <2>2. CASE c \notin {"instance", "string", "closure"} /\ c \notin DOMAIN CallOfMeta
    BY <2>2, <1>1 DEF BuiltinOperations
  <2>3. QED
    BY <2>1, <2>2
<1>7. QED
  BY <1>6

(* A value, or a method: what a call can find operations of.               *)
HasOperations(m, v) ==
  /\ v.k \in {"null", "number", "bool", "string", "class", "closure", "native",
              "instance"}
  /\ v.k = "class" => v.class \in Made \cup {"string", "closure"}
  /\ v.k = "instance" => v.i \in 1 .. Len(m.heap)

LEMMA HeapObjectType ==
  ASSUME IInv, NEW m, IsMachine(m), NEW i \in 1 .. Len(m.heap)
  PROVE  /\ m.heap[i] \in HeapObjects(Made, Len(m.heap))
         /\ m.heap[i].class \in Made /\ m.heap[i].class \in UserClasses
         /\ classes[m.heap[i].class] \in Tables(Made)
<1>1. m.heap[i] \in HeapObjects(Made, Len(m.heap))
  BY MachineFacts, ElementOfSeq
<1>2. m.heap[i].class \in Made
  BY <1>1 DEF HeapObjects
<1>3. m.heap[i].class \in UserClasses
  BY <1>2 DEF Made
<1>4. QED
  BY <1>1, <1>2, <1>3 DEF IInv, ValuesInv

(* Only an instance has operations that are closures, and only a class of  *)
(* the program is called by the native that makes an instance.             *)
IsOperation(o, v, slot) ==
  /\ o.k \in {"null", "closure", "native"}
  /\ o.k = "null" => o = Null
  /\ o.k = "closure" => o \in Closures(Made) /\ v.k = "instance"
  /\ o.k = "native" =>
       /\ o.name # "clone"
       /\ o.name = "class call" =>
            slot = "call" /\ v.k = "class" /\ v.class \in Made

LEMMA OperationType ==
  ASSUME IInv, NEW m, IsMachine(m), NEW v, HasOperations(m, v),
         NEW slot \in Slots
  PROVE  IsOperation(OperationsOf(m, v)[slot], v, slot)
<1> DEFINE o == OperationsOf(m, v)[slot]
<1> USE DEF IsOperation
<1>1. CASE v.k = "instance"
  <2>1. OperationsOf(m, v) = classes[m.heap[v.i].class].operations
    BY <1>1 DEF OperationsOf
  <2>2. classes[m.heap[v.i].class] \in Tables(Made)
    BY <1>1, HeapObjectType DEF HasOperations
  <2>3. o \in Closures(Made) \cup {Null} \cup OperationNatives
    BY <2>1, <2>2 DEF Tables, OperationTables
  <2>4. CASE o \in OperationNatives
    BY <1>1, <2>4, OperationNativeNames
  <2>5. CASE o \in Closures(Made) \cup {Null}
    BY <1>1, <2>5, Kinds
  <2>6. QED
    BY <2>3, <2>4, <2>5
<1>2. ASSUME NEW c, OperationsOf(m, v) = BuiltinOperations(c), v.k # "instance",
             c = "class" => v.k = "class" /\ v.class \in Made
      PROVE  /\ o.k \in {"null", "native"} /\ (o.k = "null" => o = Null)
             /\ o.k = "native" =>
                  /\ o.name # "clone"
                  /\ o.name = "class call" =>
                       slot = "call" /\ v.k = "class" /\ v.class \in Made
  <2>1. CASE c \notin DOMAIN CallOfMeta
    <3>1. BuiltinOperations(c) \in [Slots -> {Null} \cup OperationNatives]
      BY <2>1, BuiltinOperationsType DEF NativeTables
    <3>2. o \in {Null} \cup OperationNatives
      BY <1>2, <3>1
    <3> HIDE DEF o
    <3>3. CASE o \in OperationNatives
      BY <3>3, OperationNativeNames
    <3>4. CASE o = Null
      BY <3>4, Kinds
    <3>5. QED
      BY <3>2, <3>3, <3>4
  <2>2. CASE c \in DOMAIN CallOfMeta
    <3> DEFINE b == BuiltinOperations(c)[slot]
    <3>1. /\ b.k \in {"null", "native"} /\ (b.k = "null" => b = Null)
          /\ b.k = "native" =>
               /\ b.name # "clone"
               /\ b.name = "class call" => slot = "call" /\ c = "class"
      BY <2>2, MetaOperationsType
    <3>2. /\ o = BuiltinOperations(c)[slot]
          /\ c = "class" => v.k = "class" /\ v.class \in Made
      BY <1>2
    <3> HIDE DEF o
    <3>3. QED
      BY <3>1, <3>2
  <2>3. QED
    BY <2>1, <2>2
<1>3. CASE v.k = "class" /\ v.class \in UserClasses
  <2>1. OperationsOf(m, v) = BuiltinOperations("class")
    BY <1>3 DEF OperationsOf
  <2>2. v.class \in Made
    BY <1>3, CallsAssumption DEF HasOperations
  <2>3. QED
    BY <1>2, <1>3, <2>1, <2>2
<1>4. CASE v.k = "class" /\ v.class \notin UserClasses
  <2>1. OperationsOf(m, v) = BuiltinOperations(MetaClass(v.class))
    BY <1>4 DEF OperationsOf
  <2>2. MetaClass(v.class) # "class"
    BY DEF MetaClass
  <2>3. QED
    BY <1>2, <1>4, <2>1, <2>2
<1>5. CASE v.k \notin {"instance", "class"}
  <2>1. OperationsOf(m, v) = BuiltinOperations(v.k)
    BY <1>5 DEF OperationsOf
  <2>2. QED
    BY <1>2, <1>5, <2>1
<1>6. QED
  BY <1>1, <1>3, <1>4, <1>5

LEMMA ValueHasOperations ==
  ASSUME NEW m, IsMachine(m), NEW v \in Values(Made, Len(m.heap)), v.k # "bound"
  PROVE  HasOperations(m, v)
  BY MachineFacts, ValueKinds DEF HasOperations

(***************************************************************************)
(* Calls                                                                   *)
(***************************************************************************)
LEMMA CallClosureOutcome ==
  ASSUME IInv, status = "running", NEW m, NEW f \in Closures(Made), NEW argc,
         Prepared(m, argc), f.super # Null => Receiver(m).k = "instance"
  PROVE  Outcome(CallClosure(m, f, argc))
<1>1. CASE argc = f.arity
  BY <1>1, StartSubcallOutcome DEF CallClosure
<1>2. CASE argc # f.arity
  BY <1>2, StoppedIsOutcome DEF CallClosure, Prepared, Ready, InFrame
<1>3. QED
  BY <1>1, <1>2

(* The new instance takes the place of its class, and what calls the       *)
(* constructor is prepared again.                                          *)
LEMMA CallClassOutcome ==
  ASSUME IInv, status = "running", NEW m, NEW argc, Prepared(m, argc),
         Receiver(m).class \in Made
  PROVE  Outcome(CallClass(m, argc))
<1> DEFINE class == Receiver(m).class
           made == NewInstance(m, [class |-> class, fields |-> NoMethods])
           ctor == classes[class].operations["ctor"]
           placed == SetTop(made, argc, Newest(made))
<1>1. Ready(m, argc) /\ InFrame(m) /\ IsMachine(m) /\ argc \in Nat
  BY DEF Prepared, Ready, InFrame
<1>2. [class |-> class, fields |-> NoMethods] \in HeapObjects(Made, Len(m.heap))
  BY DEF HeapObjects, NoMethods
<1>3. /\ InFrame(made) /\ made.stack = m.stack
      /\ Newest(made) \in Values(Made, Len(made.heap))
      /\ Newest(made).k = "instance"
  BY <1>1, <1>2, NewInstanceInFrame
<1>4. made.frames = m.frames
  BY <1>1 DEF NewInstance, IsMachine
<1>5. Ready(made, argc) /\ Prepared(made, argc)
  BY <1>1, <1>3, <1>4 DEF Prepared, Ready, CurrentTop
<1> HIDE DEF made
<1>6. CASE ctor # Null
  <2>1. ctor \in Closures(Made)
    <3>1. class \in UserClasses
      BY DEF Made
    <3>2. classes[class] \in Tables(Made)
      BY <3>1 DEF IInv, ValuesInv
    <3>3. /\ ctor \in Closures(Made) \cup {Null} \cup OperationNatives
          /\ ctor \notin OperationNatives
      BY <3>2 DEF Tables, OperationTables, Slots
    <3>4. QED
      BY <1>6, <3>3
  <2>2. Ready(placed, argc) /\ Top(placed, argc) = Newest(made)
    BY <1>3, <1>5, SetTopReady
  <2> HIDE DEF placed
  <2>3. LET p == PrepareCallFrame(placed, argc) IN
        Prepared(p, argc) /\ Receiver(p) = Newest(made)
    BY <2>2, PrepareReady
  <2>4. Outcome(CallClosure(PrepareCallFrame(placed, argc), ctor, argc))
    BY <1>3, <2>1, <2>3, CallClosureOutcome
  <2>5. QED
    BY <1>6, <2>4 DEF CallClass, placed, made
<1>7. CASE ctor = Null /\ argc # 0
  BY <1>1, <1>7, StoppedIsOutcome DEF CallClass
<1>8. CASE ctor = Null /\ argc = 0
  <2>1. Outcome(ReturnValue(made, Newest(made)))
    BY <1>3, <1>5, ReturnValueOutcome
  <2>2. QED
    BY <1>8, <2>1 DEF CallClass, made
<1>9. QED
  BY <1>6, <1>7, <1>8

LEMMA CallCloneOutcome ==
  ASSUME IInv, status = "running", NEW m, NEW argc, Prepared(m, argc),
         Receiver(m).k = "instance"
  PROVE  Outcome(CallClone(m, argc))
<1> DEFINE made == NewInstance(m, m.heap[Receiver(m).i])
<1>1. Ready(m, argc) /\ InFrame(m) /\ IsMachine(m)
  BY DEF Prepared, Ready, InFrame
<1>2. Receiver(m).i \in 1 .. Len(m.heap)
  BY <1>1, ArgumentsType, ValueKinds, MachineFacts
<1>3. m.heap[Receiver(m).i] \in HeapObjects(Made, Len(m.heap))
  BY <1>1, <1>2, HeapObjectType
<1>4. /\ InFrame(made) /\ made.stack = m.stack
      /\ Newest(made) \in Values(Made, Len(made.heap))
  BY <1>1, <1>3, NewInstanceInFrame
<1>5. made.frames = m.frames
  BY <1>1 DEF NewInstance, IsMachine
<1>6. Prepared(made, argc)
  BY <1>1, <1>4, <1>5 DEF Prepared, Ready, CurrentTop
<1> HIDE DEF made
<1>7. Outcome(ReturnValue(made, Newest(made)))
  BY <1>4, <1>6, ReturnValueOutcome
<1>8. CASE argc # 0
  BY <1>1, <1>8, StoppedIsOutcome DEF CallClone
<1>9. CASE argc = 0
  BY <1>7, <1>9 DEF CallClone, made
<1>10. QED
  BY <1>8, <1>9

LEMMA CallNativeOutcome ==
  ASSUME IInv, status = "running", NEW m, NEW name, NEW callee, NEW argc,
         Prepared(m, argc),
         name = "class call" => Receiver(m).class \in Made,
         name = "clone" => Receiver(m).k = "instance",
         callee.k = "closure" =>
           callee \in Closures(Made)
             /\ (callee.super # Null => Receiver(m).k = "instance")
  PROVE  Outcome(CallNative(m, name, callee, argc))
<1>1. IsMachine(m) /\ Outcome(Undefined(m)) /\ Outcome(RuntimeError(m))
  BY StoppedIsOutcome DEF Prepared, Ready, InFrame
<1>2. CASE name = "class call"
  BY <1>2, CallClassOutcome DEF CallNative
<1>3. CASE name = "closure call"
  <2>1. CallNative(m, name, callee, argc) =
          IF callee.k = "closure" THEN CallClosure(m, callee, argc) ELSE Undefined(m)
    BY <1>3 DEF CallNative
  <2>2. callee.k = "closure" => Outcome(CallClosure(m, callee, argc))
    BY CallClosureOutcome
  <2>3. QED
    BY <1>1, <2>1, <2>2
<1>4. CASE name = "clone"
  BY <1>4, CallCloneOutcome DEF CallNative
<1>5. CASE name \notin {"class call", "closure call", "clone"}
  <2> DEFINE result == NativeResult(name, Receiver(m), Arguments(m, argc))
  <2>1. CallNative(m, name, callee, argc) = Conclude(m, result)
    BY <1>5 DEF CallNative
  <2>2. result.outcome = "value" => result.value \in Values(Made, Len(m.heap))
    BY <1>1, ArgumentsType, MachineFacts, NativeResultType
  <2> HIDE DEF result
  <2>3. result.outcome = "value" => Outcome(ReturnValue(m, result.value))
    BY <2>2, ReturnValueOutcome
  <2>4. Outcome(Conclude(m, result))
    BY <1>1, <2>3 DEF Conclude
  <2>5. QED
    BY <2>1, <2>4
<1>6. QED
  BY <1>2, <1>3, <1>4, <1>5

(* What can be called with the receiver r: a method's closure only on an   *)
(* instance, everything else on itself.                                    *)
Callable(m, callee, r) ==
  /\ callee.k = "closure" =>
       callee \in Closures(Made) /\ (callee.super # Null => r.k = "instance")
  /\ callee.k = "native" =>
       callee.name # "class call" /\ (callee.name = "clone" => r.k = "instance")
  /\ callee.k \notin {"closure", "native"} =>
       callee = r \/ callee.k = "null"

LEMMA CallValueOutcome ==
  ASSUME IInv, status = "running", NEW m, NEW argc, Ready(m, argc),
         NEW callee, Callable(m, callee, Top(m, argc))
  PROVE  Outcome(CallValue(m, callee, argc))
<1> DEFINE p == PrepareCallFrame(m, argc)
           operation == OperationsOf(p, callee)["call"]
<1>1. IsMachine(m) /\ InFrame(m) /\ argc \in Nat /\ Len(m.stack) > Floor + argc
  BY DEF Ready, InFrame
<1>2. /\ Prepared(p, argc) /\ p.heap = m.heap /\ p.stack = m.stack
      /\ Receiver(p) = Top(m, argc)
  BY PrepareReady
<1> HIDE DEF p
<1>3. IsMachine(p) /\ Outcome(Undefined(p)) /\ Outcome(RuntimeError(p))
  BY <1>2, StoppedIsOutcome DEF Prepared, Ready, InFrame
<1>4. Top(m, argc) \in Values(Made, Len(m.heap))
  BY <1>1, TopType
<1>5. CASE callee.k = "native"
  <2>1. Outcome(CallNative(p, callee.name, callee, argc))
    BY <1>2, <1>5, CallNativeOutcome DEF Callable
  <2>2. CallValue(m, callee, argc) = CallNative(p, callee.name, callee, argc)
    BY <1>5 DEF CallValue, PerformCall, p
  <2>3. QED
    BY <2>1, <2>2
<1>6. CASE ~(callee.k = "native" \/ IsObject(callee))
  BY <1>1, <1>6, StoppedIsOutcome DEF CallValue
<1>7. CASE callee.k = "bound"
  BY <1>3, <1>7 DEF CallValue, PerformCall, IsObject, p
<1>8. CASE IsObject(callee) /\ callee.k \notin {"native", "bound"}
  <2>1. HasOperations(p, callee)
    <3>1. CASE callee.k = "closure"
      BY <3>1 DEF HasOperations
    <3>2. CASE callee.k # "closure"
      <4>1. callee = Top(m, argc)
        BY <1>8, <3>2 DEF Callable, IsObject
      <4>2. QED
        BY <1>1, <1>2, <1>3, <1>4, <1>8, <4>1, ValueHasOperations
    <3>3. QED
      BY <3>1, <3>2
  <2>2. PICK slot \in Slots : slot = "call"
    BY DEF Slots
  <2>3. /\ operation.k \in {"null", "closure", "native"}
        /\ operation.k = "null" => operation = Null
        /\ operation.k = "native" =>
             /\ operation.name # "clone"
             /\ operation.name = "class call" =>
                  callee.k = "class" /\ callee.class \in Made
    <3> DEFINE o == OperationsOf(p, callee)[slot]
    <3>1. IsOperation(o, callee, slot)
      BY <1>3, <2>1, OperationType
    <3>2. o = operation
      BY <2>2
    <3> HIDE DEF o, operation
    <3>3. QED
      BY <3>1, <3>2 DEF IsOperation
  <2> HIDE DEF operation
  <2>4. CallValue(m, callee, argc) = PerformCall(p, callee, argc)
    BY <1>8 DEF CallValue, p
  <2>5. CASE operation = Null
    <3>1. PerformCall(p, callee, argc) = RuntimeError(p)
      <4>1. OperationsOf(p, callee)["call"] = Null
        BY <2>5 DEF operation
      <4>2. QED
        BY <1>8, <4>1, Kinds DEF PerformCall
    <3>2. QED
      BY <1>3, <2>4, <3>1
  <2>6. CASE operation.k = "native"
    <3>1. operation # Null
      BY <2>6, Kinds
    <3>2. PerformCall(p, callee, argc) = CallNative(p, operation.name, callee, argc)
      BY <1>8, <2>6, <3>1 DEF PerformCall, operation
    <3>3. operation.name = "class call" => Receiver(p).class \in Made
      BY <1>2, <1>8, <2>3, <2>6 DEF Callable
    <3>4. callee.k = "closure" =>
            callee \in Closures(Made)
              /\ (callee.super # Null => Receiver(p).k = "instance")
      BY <1>2 DEF Callable
    <3>5. Outcome(CallNative(p, operation.name, callee, argc))
      BY <1>2, <2>3, <2>6, <3>3, <3>4, CallNativeOutcome
    <3>6. QED
      BY <2>4, <3>2, <3>5
  <2>7. CASE operation.k = "closure"
    <3>1. operation # Null /\ operation.k # "native"
      BY <2>7, Kinds
    <3>2. PerformCall(p, callee, argc) = Undefined(p)
      BY <1>8, <3>1 DEF PerformCall, operation
    <3>3. QED
      BY <1>3, <2>4, <3>2
  <2>8. QED
    BY <2>3, <2>5, <2>6, <2>7
<1>9. QED
  BY <1>5, <1>6, <1>7, <1>8

LEMMA StillRunning ==
  ASSUME NEW m, InFrame(m)
  PROVE  IsMachine(m) /\ Outcome(m) /\ Outcome(RuntimeError(m)) /\ Outcome(Undefined(m))
  BY StoppedIsOutcome DEF InFrame, Outcome

LEMMA InvokeFromClassOutcome ==
  ASSUME IInv, status = "running", NEW m, NEW argc, Ready(m, argc),
         Top(m, argc).k = "instance", NEW c, NEW n \in Names
  PROVE  Outcome(InvokeFromClass(m, c, n, argc))
<1> DEFINE method == MethodsOf(c)[n]
<1>1. Outcome(RuntimeError(m))
  BY StillRunning DEF Ready
<1>2. method \in Closures(Made) \cup {Absent, Native("clone")}
  <2>1. CASE c \in UserClasses
    BY <2>1 DEF IInv, ValuesInv, Tables, MethodsOf
  <2>2. CASE c \notin UserClasses
    BY <2>2 DEF MethodsOf, NoMethods
  <2>3. QED
    BY <2>1, <2>2
<1>3. CASE method # Absent
  <2>1. CASE method \in Closures(Made)
    <3>1. method.k = "closure"
      BY <2>1, Kinds
    <3> HIDE DEF method
    <3>2. Callable(m, method, Top(m, argc))
      BY <2>1, <3>1 DEF Callable
    <3>3. QED
      BY <1>3, <3>2, CallValueOutcome DEF InvokeFromClass, method
  <2>2. CASE method = Native("clone")
    <3> HIDE DEF method
    <3>1. method.k = "native" /\ method.name = "clone"
      BY <2>2 DEF Native
    <3>2. Callable(m, method, Top(m, argc))
      BY <3>1 DEF Callable
    <3>3. QED
      BY <1>3, <3>2, CallValueOutcome DEF InvokeFromClass, method
  <2>3. QED
    BY <1>2, <1>3, <2>1, <2>2
<1>4. CASE method = Absent
  BY <1>1, <1>4 DEF InvokeFromClass
<1>5. QED
  BY <1>3, <1>4

(* A value can be called wherever it lies, with itself as receiver.        *)
LEMMA ValueIsCallable ==
  ASSUME NEW m, IsMachine(m), NEW v \in Values(Made, Len(m.heap))
  PROVE  Callable(m, v, v)
<1>1. /\ v.k = "closure" => v \in GlobalFunctions
      /\ v.k = "native" => v.name \in {"clock", "srand"}
  BY MachineFacts, ValueKinds
<1>2. v \in GlobalFunctions => v \in Closures(Made) /\ v.super = Null
  BY DEF GlobalFunctions, Closures, FunctionKinds
<1>3. QED
  BY <1>1, <1>2 DEF Callable

LEMMA InvokeMemberOutcome ==
  ASSUME IInv, status = "running", NEW m, NEW argc, Ready(m, argc), NEW n \in Names
  PROVE  Outcome(InvokeMember(m, n, argc))
<1> DEFINE receiver == Top(m, argc)
           object == m.heap[receiver.i]
           field == object.fields[n]
<1>1. IsMachine(m) /\ InFrame(m) /\ Outcome(RuntimeError(m))
      /\ argc \in Nat /\ Len(m.stack) > Floor + argc
  BY StillRunning DEF Ready
<1>2. CASE receiver.k # "instance"
  BY <1>1, <1>2 DEF InvokeMember
<1>3. CASE receiver.k = "instance"
  <2>1. receiver.i \in 1 .. Len(m.heap)
    BY <1>1, <1>3, TopType, ValueKinds, MachineFacts
  <2>2. object \in HeapObjects(Made, Len(m.heap))
    BY <1>1, <2>1, HeapObjectType
  <2>3. field \in Values(Made, Len(m.heap)) \cup {Absent}
    BY <2>2 DEF HeapObjects
  <2>4. CASE field # Absent
    <3> DEFINE p == SetTop(m, argc, field)
    <3>1. Ready(p, argc) /\ Top(p, argc) = field /\ p.heap = m.heap
      BY <2>3, <2>4, SetTopReady
    <3> HIDE DEF field, p
    <3>2. Callable(p, field, Top(p, argc))
      BY <2>3, <2>4, <3>1, ValueIsCallable DEF Ready, InFrame
    <3>3. Outcome(CallValue(p, field, argc))
      BY <3>1, <3>2, CallValueOutcome
    <3>4. QED
      BY <1>3, <2>4, <3>3 DEF InvokeMember, field, p
  <2>5. CASE field = Absent
    <3>1. Outcome(InvokeFromClass(m, object.class, n, argc))
      BY <1>3, InvokeFromClassOutcome
    <3>2. QED
      BY <1>3, <2>5, <3>1 DEF InvokeMember
  <2>6. QED
    BY <2>4, <2>5
<1>4. QED
  BY <1>2, <1>3

LEMMA BindMethodOutcome ==
  ASSUME IInv, status = "running", NEW m, Ready(m, 0), Top(m, 0).k = "instance",
         NEW c, NEW n \in Names
  PROVE  Outcome(BindMethod(m, c, n))
<1> DEFINE method == MethodsOf(c)[n]
           bound == BoundMethod(Top(m, 0), method)
<1>1. Outcome(RuntimeError(m)) /\ IsMachine(m) /\ InFrame(m) /\ Len(m.stack) > Floor + 0
  BY StillRunning DEF Ready
<1>2. method \in Closures(Made) \cup {Absent, Native("clone")}
  <2>1. CASE c \in UserClasses
    BY <2>1 DEF IInv, ValuesInv, Tables, MethodsOf
  <2>2. CASE c \notin UserClasses
    BY <2>2 DEF MethodsOf, NoMethods
  <2>3. QED
    BY <2>1, <2>2
<1>3. CASE method # Absent
  <2>1. Top(m, 0) \in Instances(Len(m.heap))
    BY <1>1, TopType, ValueKinds, MachineFacts
  <2> HIDE DEF method
  <2>2. bound \in BoundMethods(Made, Len(m.heap))
    BY <1>2, <1>3, <2>1 DEF BoundMethods, BoundMethod
  <2>3. bound \in Values(Made, Len(m.heap))
    BY <2>2 DEF Values
  <2>4. InFrame(SetTop(m, 0, bound))
    BY <2>3, SetTopReady DEF Ready
  <2>5. QED
    BY <1>3, <2>4, StillRunning DEF BindMethod, method
<1>4. CASE method = Absent
  BY <1>1, <1>4 DEF BindMethod
<1>5. QED
  BY <1>3, <1>4

(***************************************************************************)
(* Operators                                                               *)
(***************************************************************************)
LEMMA CallOperationOutcome ==
  ASSUME IInv, status = "running", NEW m, NEW argc, Ready(m, argc),
         IsObject(Top(m, argc)), NEW slot \in Slots, slot # "call"
  PROVE  Outcome(CallOperation(m, Top(m, argc), slot, argc))
<1> DEFINE this == Top(m, argc)
           operation == OperationsOf(m, this)[slot]
<1>1. /\ IsMachine(m) /\ InFrame(m) /\ Outcome(Undefined(m))
      /\ argc \in Nat /\ Len(m.stack) > Floor + argc
  BY StillRunning DEF Ready
<1>2. CASE this.k = "bound"
  BY <1>1, <1>2 DEF CallOperation
<1>3. CASE this.k # "bound"
  <2>1. HasOperations(m, this)
    BY <1>1, <1>3, TopType, ValueHasOperations
  <2>2. IsOperation(operation, this, slot)
    BY <1>1, <2>1, OperationType
  <2> HIDE DEF operation
  <2>3. Callable(m, operation, this)
    BY <2>2 DEF IsOperation, Callable
  <2>4. Outcome(CallValue(m, operation, argc))
    BY <2>3, CallValueOutcome
  <2>5. QED
    BY <1>3, <2>4 DEF CallOperation, operation
<1>4. QED
  BY <1>2, <1>3

(* Two operands are replaced by a value that is not one of the heap's.     *)
LEMMA ReplaceTwoOutcome ==
  ASSUME IInv, status = "running", NEW m, Ready(m, 1),
         NEW v \in {Number, Bool}
  PROVE  Outcome(Push(Pop(m, 2), v)) /\ Outcome(RuntimeError(Pop(m, 2)))
<1>1. InFrame(m) /\ IsMachine(m) /\ Len(m.stack) > Floor + 1
  BY DEF Ready, InFrame
<1>2. Len(m.stack) >= Floor + 2
  BY <1>1, MachineFacts, FrameFacts
<1>3. InFrame(Pop(m, 2))
  BY <1>1, <1>2, PopInFrame
<1>4. v \in Values(Made, Len(Pop(m, 2).heap))
  BY DEF Values
<1>5. InFrame(Push(Pop(m, 2), v))
  BY <1>3, <1>4, PushInFrame
<1>6. QED
  BY <1>3, <1>5, StillRunning

LEMMA NumbersOrOutcome ==
  ASSUME IInv, status = "running", NEW m, Ready(m, 1),
         NEW slot \in Slots, slot # "call", NEW v \in {Number, Bool}
  PROVE  Outcome(NumbersOr(m, slot, v))
<1>1. CASE IsObject(Top(m, 1))
  <2>1. Outcome(CallOperation(m, Top(m, 1), slot, 1))
    BY <1>1, CallOperationOutcome
  <2>2. Top(m, 1) # Number
    BY <1>1, Kinds DEF IsObject
  <2>3. NumbersOr(m, slot, v) = CallOperation(m, Top(m, 1), slot, 1)
    BY <1>1, <2>2 DEF NumbersOr
  <2>4. QED
    BY <2>1, <2>3
<1>2. CASE ~IsObject(Top(m, 1)) /\ Top(m, 1) = Number /\ Top(m, 0) = Number
  BY <1>2, ReplaceTwoOutcome DEF NumbersOr
<1>3. CASE ~IsObject(Top(m, 1)) /\ ~(Top(m, 1) = Number /\ Top(m, 0) = Number)
  BY <1>3, ReplaceTwoOutcome DEF NumbersOr
<1>4. QED
  BY <1>1, <1>2, <1>3

LEMMA PerformEqualityOutcome ==
  ASSUME IInv, status = "running", NEW m, Ready(m, 1)
  PROVE  Outcome(PerformEquality(m))
<1>1. CASE IsObject(Top(m, 1))
  <2>1. PICK slot \in Slots : slot = "equal"
    BY DEF Slots
  <2>2. slot # "call"
    BY <2>1
  <2>3. Outcome(CallOperation(m, Top(m, 1), slot, 1))
    BY <1>1, <2>2, CallOperationOutcome
  <2>4. QED
    BY <1>1, <2>1, <2>3 DEF PerformEquality
<1>2. CASE ~IsObject(Top(m, 1))
  BY <1>2, ReplaceTwoOutcome DEF PerformEquality
<1>3. QED
  BY <1>1, <1>2

LEMMA PerformPrefixOutcome ==
  ASSUME IInv, status = "running", NEW m, Ready(m, 0)
  PROVE  Outcome(PerformPrefix(m))
<1> DEFINE this == Top(m, 0)
<1>1. /\ InFrame(m) /\ IsMachine(m) /\ Outcome(m)
      /\ Len(m.stack) > Floor + 0
  BY StillRunning DEF Ready
<1>2. CASE this = Number
  <2>1. ~IsObject(this)
    BY <1>2, Kinds DEF IsObject
  <2>2. PerformPrefix(m) = m
    BY <1>2, <2>1 DEF PerformPrefix
  <2>3. QED
    BY <1>1, <2>2
<1>3. CASE this # Number /\ IsObject(this)
  <2>1. PICK slot \in Slots : slot = "negate"
    BY DEF Slots
  <2>2. slot # "call"
    BY <2>1
  <2>3. Outcome(CallOperation(m, this, slot, 0))
    BY <1>3, <2>2, CallOperationOutcome
  <2>4. PerformPrefix(m) = CallOperation(m, this, "negate", 0)
    BY <1>3 DEF PerformPrefix
  <2>5. QED
    BY <2>1, <2>3, <2>4
<1>4. CASE this # Number /\ ~IsObject(this)
  <2>1. Len(m.stack) >= Floor + 1
    BY <1>1, MachineFacts, FrameFacts
  <2>2. Outcome(RuntimeError(Pop(m, 1)))
    BY <1>1, <2>1, PopInFrame, StillRunning
  <2>3. QED
    BY <1>4, <2>2 DEF PerformPrefix
<1>5. QED
  BY <1>2, <1>3, <1>4

LEMMA PushOneMore ==
  ASSUME IInv, status = "running", NEW m, Ready(m, 0),
         NEW v \in Values(Made, Len(m.heap))
  PROVE  /\ Ready(Push(m, v), 1) /\ Ready(Push(m, v), 0)
         /\ Top(Push(m, v), 1) = Top(m, 0) /\ Top(Push(m, v), 0) = v
         /\ Push(m, v).heap = m.heap /\ InFrame(Push(m, v))
<1> DEFINE p == Push(m, v)
<1>1. InFrame(m) /\ IsMachine(m) /\ Len(m.stack) > Floor + 0
  BY DEF Ready, InFrame
<1>2. /\ InFrame(p) /\ p.heap = m.heap
      /\ Len(p.stack) = Len(m.stack) + 1
      /\ \A i \in 1 .. Len(m.stack) : p.stack[i] = m.stack[i]
      /\ p.stack[Len(m.stack) + 1] = v
  BY <1>1, PushInFrame
<1> HIDE DEF p
<1>3. Len(m.stack) \in Nat /\ Len(m.stack) >= 1
  BY <1>1, MachineFacts, FrameFacts
<1>4. Len(p.stack) > Floor + 1 /\ Len(p.stack) > Floor + 0
  BY <1>1, <1>2, <1>3, FrameFacts
<1>5. /\ Len(p.stack) - 1 = Len(m.stack) /\ Len(m.stack) - 0 = Len(m.stack)
      /\ Len(p.stack) - 0 = Len(m.stack) + 1 /\ Len(m.stack) \in 1 .. Len(m.stack)
  BY <1>2, <1>3
<1>6. Top(p, 1) = Top(m, 0) /\ Top(p, 0) = v
  BY <1>2, <1>5 DEF Top
<1>7. QED
  BY <1>2, <1>4, <1>6 DEF Ready, p

LEMMA PerformPostfixOutcome ==
  ASSUME IInv, status = "running", NEW m, Ready(m, 0)
  PROVE  Outcome(PerformPostfix(m))
<1> DEFINE this == Top(m, 0)
           p == Push(m, Null)
<1>1. Outcome(RuntimeError(m))
  BY StillRunning DEF Ready
<1>2. CASE IsObject(this)
  <2>1. PICK slot \in Slots : slot = "increment"
    BY DEF Slots
  <2>2. slot # "call"
    BY <2>1
  <2>3. Null \in Values(Made, Len(m.heap))
    BY DEF Values
  <2>4. Ready(p, 1) /\ Top(p, 1) = this
    BY <2>3, PushOneMore
  <2> HIDE DEF p
  <2>5. Outcome(CallOperation(p, this, slot, 1))
    BY <1>2, <2>2, <2>4, CallOperationOutcome
  <2>6. QED
    BY <1>2, <2>1, <2>5 DEF PerformPostfix, p
<1>3. CASE ~IsObject(this)
  BY <1>1, <1>3 DEF PerformPostfix
<1>4. QED
  BY <1>2, <1>3

(* A conversion is a method of the class of what is converted.             *)
LEMMA PerformAsOutcome ==
  ASSUME IInv, status = "running", NEW m, Ready(m, 1)
  PROVE  Outcome(PerformAs(m))
<1> DEFINE lhs == Top(m, 1)
           rhs == Top(m, 0)
           found == {c \in ConversionsOf(m, lhs) : c.type = TypeOf(m, rhs)}
           chosen == CHOOSE c \in found : TRUE
           p == Pop(m, 1)
<1>1. /\ InFrame(m) /\ IsMachine(m) /\ Len(m.stack) > Floor + 1
      /\ Outcome(RuntimeError(m)) /\ Outcome(Undefined(m))
      /\ Outcome(RuntimeError(Pop(m, 2)))
  BY StillRunning, ReplaceTwoOutcome DEF Ready
<1> HIDE DEF found
<1>2. CASE ~IsObject(lhs) \/ ~IsObject(rhs)
  <2>1. ~IsObject(lhs) => lhs.k # "bound"
    BY DEF IsObject
  <2>2. PerformAs(m) = RuntimeError(Pop(m, 2)) \/ (IsObject(rhs) /\ lhs.k = "bound")
    BY <1>2 DEF PerformAs
  <2>3. QED
    BY <1>1, <1>2, <2>1, <2>2 DEF IsObject
<1>3. CASE IsObject(lhs) /\ IsObject(rhs) /\ lhs.k = "bound"
  BY <1>1, <1>3 DEF PerformAs
<1>4. CASE IsObject(lhs) /\ IsObject(rhs) /\ lhs.k # "bound" /\ found = {}
  BY <1>1, <1>4 DEF PerformAs, found
<1>5. CASE IsObject(lhs) /\ IsObject(rhs) /\ lhs.k # "bound" /\ found # {}
  <2>1. PerformAs(m) = CallValue(p, chosen.method, 0)
    BY <1>5 DEF PerformAs, found
  <2>2. chosen \in ConversionsOf(m, lhs)
    BY <1>5 DEF found
  <2>3. lhs.k = "instance"
    BY <2>2 DEF ConversionsOf
  <2>4. lhs.i \in 1 .. Len(m.heap)
    BY <1>1, <2>3, TopType, ValueKinds, MachineFacts
  <2>5. classes[m.heap[lhs.i].class] \in Tables(Made)
    BY <1>1, <2>4, HeapObjectType
  <2>6. chosen.method \in Closures(Made)
    BY <2>2, <2>3, <2>5 DEF ConversionsOf, Tables
  <2>7. /\ InFrame(p) /\ p.heap = m.heap /\ Len(p.stack) = Len(m.stack) - 1
        /\ \A i \in 1 .. Len(m.stack) - 1 : p.stack[i] = m.stack[i]
    <3>1. Len(m.stack) >= Floor + 1
      BY <1>1, MachineFacts, FrameFacts
    <3>2. QED
      BY <1>1, <3>1, PopInFrame
  <2> HIDE DEF p, chosen
  <2>8. Ready(p, 0)
    BY <1>1, <2>7, MachineFacts, FrameFacts DEF Ready
  <2>9. Top(p, 0) = lhs
    <3>1. /\ Len(m.stack) - 1 \in 1 .. Len(m.stack) - 1
          /\ (Len(m.stack) - 1) - 0 = Len(m.stack) - 1
      BY <1>1, MachineFacts, FrameFacts
    <3>2. QED
      BY <2>7, <3>1 DEF Top
  <2>10. chosen.method.k = "closure"
    BY <2>6, Kinds
  <2>11. Callable(p, chosen.method, Top(p, 0))
    BY <2>3, <2>6, <2>9, <2>10 DEF Callable
  <2>12. QED
    BY <2>1, <2>8, <2>11, CallValueOutcome
<1>6. QED
  BY <1>2, <1>3, <1>4, <1>5

LEMMA PerformPrintOutcome ==
  ASSUME IInv, status = "running", NEW m, Ready(m, 0)
  PROVE  Outcome(PerformPrint(m))
<1> DEFINE this == Top(m, 0)
           print == OperationsOf(m, this)["print"]
           pushed == Push(m, this)
           copied == PrepareCallFrame(pushed, 0)
<1>1. /\ InFrame(m) /\ IsMachine(m) /\ Len(m.stack) > Floor + 0
      /\ Outcome(RuntimeError(m)) /\ Outcome(Undefined(m))
  BY StillRunning DEF Ready
<1>2. Len(m.stack) >= Floor + 1
  BY <1>1, MachineFacts, FrameFacts
<1>3. Outcome(Pop(m, 1))
  BY <1>1, <1>2, PopInFrame, StillRunning
<1>4. this \in Values(Made, Len(m.heap))
  BY <1>1, TopType
<1>5. Ready(pushed, 0) /\ InFrame(pushed) /\ Len(pushed.stack) = Len(m.stack) + 1
  BY <1>1, <1>4, PushOneMore, PushInFrame
<1> HIDE DEF pushed
<1>6. InFrame(copied) /\ Len(copied.stack) = Len(m.stack) + 1
  BY <1>5, PrepareReady DEF Prepared, Ready
<1> HIDE DEF copied
<1>7. Len(copied.stack) >= Floor + 2
  BY <1>1, <1>2, <1>6, MachineFacts, FrameFacts
<1>8. Outcome(Pop(copied, 2)) /\ Outcome(Undefined(copied))
  BY <1>6, <1>7, PopInFrame, StillRunning
<1>9. CASE ~IsObject(this)
  <2>1. this.k # "bound"
    BY <1>9 DEF IsObject
  <2>2. PerformPrint(m) = Pop(m, 1)
    BY <1>9, <2>1 DEF PerformPrint
  <2>3. QED
    BY <1>3, <2>2
<1>10. CASE this.k = "bound"
  BY <1>1, <1>10 DEF PerformPrint, IsObject
<1>11. CASE IsObject(this) /\ this.k # "bound" /\ print.k # "native"
  BY <1>1, <1>11 DEF PerformPrint
<1>12. CASE IsObject(this) /\ this.k # "bound" /\ print.k = "native"
  <2>1. PerformPrint(m) =
          IF NativeResult(print.name, Receiver(copied), << >>).outcome = "value"
          THEN Pop(copied, 2) ELSE Undefined(copied)
    BY <1>12 DEF PerformPrint, copied, pushed
  <2>2. QED
    BY <1>8, <2>1
<1>13. QED
  BY <1>9, <1>10, <1>11, <1>12

(***************************************************************************)
(* What an instruction keeps                                               *)
(***************************************************************************)
(* FramesInv of a stack and its frames.                                    *)
EndOf(s, fs, i) == IF i < Len(fs) THEN fs[i + 1].slots ELSE Len(s)

Framed(s, fs) ==
  /\ fs # << >> /\ fs[1].slots = 0
  /\ \A i \in DOMAIN fs :
       /\ fs[i].slots + 1 + fs[i].function.arity <= EndOf(s, fs, i)
       /\ i < Len(fs) => fs[i].top = EndOf(s, fs, i)
  /\ \A i, j \in DOMAIN fs : i <= j => fs[i].slots <= fs[j].slots
  /\ \A i \in DOMAIN fs :
       fs[i].function.super # Null => s[fs[i].slots + 1].k = "instance"

LEMMA FramedNow ==
  ASSUME IInv, status = "running"
  PROVE  Framed(stack, frames)
BY DEF IInv, FramesInv, Framing, End, Framed, EndOf

LEMMA FramedNext ==
  ASSUME status' = "running" => Framed(stack', frames')
  PROVE  FramesInv'
BY DEF FramesInv, Framing, End, Framed, EndOf

(* All frames are at or below the running one, whose receiver lies below   *)
(* its operands.                                                           *)
LEMMA FramesLieBelow ==
  ASSUME IInv, status = "running", NEW i \in 1 .. Len(frames)
  PROVE  /\ frames[i] \in CallFrames(Made)
         /\ frames[i].slots \in Nat /\ frames[i].function.arity \in Nat
         /\ frames[i].slots + 1 \in 1 .. Floor
<1>1. frames \in Seq(CallFrames(Made)) /\ DOMAIN frames = 1 .. Len(frames)
  BY LenProperties DEF IInv, ValuesInv
<1>2. frames[i] \in CallFrames(Made)
  BY <1>1, ElementOfSeq
<1>3. frames[i].slots \in Nat /\ frames[i].function.arity \in Nat
  BY <1>2 DEF CallFrames, Closures
<1>4. Len(frames) \in 1 .. Len(frames) /\ i <= Len(frames)
  BY FrameFacts
<1>5. frames[i].slots <= Base
  BY <1>1, <1>4, FramedNow DEF Framed, Base
<1>6. QED
  BY <1>2, <1>3, <1>5, FrameFacts

LEMMA InFrameFramed ==
  ASSUME IInv, status = "running", NEW m, InFrame(m)
  PROVE  Framed(m.stack, m.frames)
<1> DEFINE n == Len(frames)
           fs == m.frames
<1>1. /\ IsMachine(m) /\ n \in Nat \ {0} /\ Len(fs) = n /\ DOMAIN fs = 1 .. n
      /\ DOMAIN frames = 1 .. n /\ Len(m.stack) \in Nat /\ Floor <= Len(m.stack)
  BY MachineFacts, FrameFacts, LenProperties
     DEF InFrame, KeepsFloor, IInv, ValuesInv
<1>2. /\ \A i \in 1 .. n - 1 : fs[i] = frames[i]
      /\ fs[n].function = Running /\ fs[n].slots = Base
  BY DEF InFrame, KeepsFrames
<1>3. frames[n].function = Running /\ frames[n].slots = Base /\ n \in 1 .. n
  BY <1>1 DEF Running, Base
<1>4. \A i \in 1 .. n :
        fs[i].slots = frames[i].slots /\ fs[i].function = frames[i].function
  BY <1>1, <1>2, <1>3
<1>5. \A i \in 1 .. n : frames[i].slots \in Nat /\ frames[i].slots + 1 \in 1 .. Floor
  BY FramesLieBelow
<1>6. fs # << >> /\ fs[1].slots = 0
  <2>1. frames[1].slots = 0
    BY FramedNow DEF Framed
  <2>2. 1 \in 1 .. n
    BY <1>1
  <2>3. QED
    BY <1>1, <1>4, <2>1, <2>2, EmptySeq
<1>7. ASSUME NEW i \in 1 .. n
      PROVE  /\ fs[i].slots + 1 + fs[i].function.arity <= EndOf(m.stack, fs, i)
             /\ i < n => fs[i].top = EndOf(m.stack, fs, i)
  <2>1. CASE i = n
    BY <1>1, <1>2, <2>1 DEF EndOf, Floor
  <2>2. CASE i < n
    <3>1. i + 1 \in 1 .. n /\ i \in 1 .. n - 1
      BY <1>1, <2>2
    <3>2. EndOf(m.stack, fs, i) = EndOf(stack, frames, i)
      BY <1>1, <1>4, <2>2, <3>1 DEF EndOf
    <3>3. fs[i] = frames[i]
      BY <1>2, <3>1
    <3>4. QED
      BY <1>1, <2>2, <3>2, <3>3, FramedNow DEF Framed
  <2>3. QED
    BY <1>1, <2>1, <2>2
<1>8. \A i, j \in 1 .. n : i <= j => fs[i].slots <= fs[j].slots
  BY <1>1, <1>4, FramedNow DEF Framed
<1>9. ASSUME NEW i \in 1 .. n, fs[i].function.super # Null
      PROVE  m.stack[fs[i].slots + 1].k = "instance"
  <2>1. stack[frames[i].slots + 1].k = "instance"
    BY <1>1, <1>4, <1>9, FramedNow DEF Framed
  <2>2. m.stack[frames[i].slots + 1] = stack[frames[i].slots + 1]
    BY <1>5 DEF InFrame, KeepsFloor
  <2>3. QED
    BY <1>4, <2>1, <2>2
<1>10. QED
  BY <1>1, <1>6, <1>7, <1>8, <1>9 DEF Framed

LEMMA LastTwoOrBelow ==
  ASSUME NEW n \in Nat, NEW i \in 1 .. n + 1
  PROVE  i = n + 1 \/ i = n \/ i < n
  OBVIOUS

LEMMA EnteredFramed ==
  ASSUME IInv, status = "running", NEW m, Entered(m)
  PROVE  Framed(m.stack, m.frames)
<1> DEFINE n == Len(frames)
           fs == m.frames
           entered == fs[n + 1]
<1>1. /\ IsMachine(m) /\ n \in Nat \ {0} /\ Len(fs) = n + 1
      /\ DOMAIN fs = 1 .. n + 1 /\ DOMAIN frames = 1 .. n
      /\ Len(m.stack) \in Nat
  BY MachineFacts, FrameFacts, LenProperties DEF Entered, IInv, ValuesInv
<1>2. /\ \A i \in 1 .. n - 1 : fs[i] = frames[i]
      /\ fs[n].function = Running /\ fs[n].slots = Base
      /\ fs[n].top = entered.slots /\ Floor <= entered.slots
      /\ entered.slots + 1 + entered.function.arity <= Len(m.stack)
      /\ entered.function.super # Null => m.stack[entered.slots + 1].k = "instance"
  BY DEF Entered, KeepsFrames
<1>3. frames[n].function = Running /\ frames[n].slots = Base /\ n \in 1 .. n
  BY <1>1 DEF Running, Base
<1>4. \A i \in 1 .. n :
        fs[i].slots = frames[i].slots /\ fs[i].function = frames[i].function
  BY <1>1, <1>2, <1>3
<1>5. \A i \in 1 .. n : frames[i].slots \in Nat /\ frames[i].slots + 1 \in 1 .. Floor
  BY FramesLieBelow
<1>6. fs # << >> /\ fs[1].slots = 0
  <2>1. frames[1].slots = 0
    BY FramedNow DEF Framed
  <2>2. 1 \in 1 .. n
    BY <1>1
  <2>3. QED
    BY <1>1, <1>4, <2>1, <2>2, EmptySeq
<1>7. entered.slots \in Nat /\ \A i \in 1 .. n : fs[i].slots <= entered.slots
  <2>1. entered \in CallFrames(Made)
    BY <1>1, MachineFacts, ElementOfSeq
  <2>2. entered.slots \in Nat
    BY <2>1 DEF CallFrames
  <2>3. ASSUME NEW i \in 1 .. n PROVE fs[i].slots <= entered.slots
    <3>1. /\ frames[i].slots \in Nat /\ frames[i].slots + 1 <= Floor
          /\ fs[i].slots = frames[i].slots
      BY <1>4, <1>5
    <3>2. Floor <= entered.slots /\ Floor \in Nat
      BY <1>2, FrameFacts
    <3>3. QED
      BY <2>2, <3>1, <3>2
  <2>4. QED
    BY <2>2, <2>3
<1>8. ASSUME NEW i \in 1 .. n + 1
      PROVE  /\ fs[i].slots + 1 + fs[i].function.arity <= EndOf(m.stack, fs, i)
             /\ i < n + 1 => fs[i].top = EndOf(m.stack, fs, i)
  <2>1. CASE i = n + 1
    BY <1>1, <1>2, <2>1 DEF EndOf
  <2>2. CASE i = n
    BY <1>1, <1>2, <2>2 DEF EndOf, Floor
  <2>3. CASE i < n
    <3>1. i + 1 \in 1 .. n /\ i \in 1 .. n - 1
      BY <1>1, <2>3
    <3>2. EndOf(m.stack, fs, i) = EndOf(stack, frames, i)
      BY <1>1, <1>4, <2>3, <3>1 DEF EndOf
    <3>3. fs[i] = frames[i]
      BY <1>2, <3>1
    <3>4. QED
      BY <1>1, <2>3, <3>1, <3>2, <3>3, FramedNow DEF Framed
  <2>4. n \in Nat
    BY <1>1
  <2>5. i = n + 1 \/ i = n \/ i < n
    BY <2>4, LastTwoOrBelow
  <2>6. QED
    BY <2>1, <2>2, <2>3, <2>5
<1>9. \A i, j \in 1 .. n : i <= j => fs[i].slots <= fs[j].slots
  BY <1>1, <1>4, FramedNow DEF Framed
<1>10. \A i, j \in 1 .. n + 1 : i <= j => fs[i].slots <= fs[j].slots
  <2> TAKE i, j \in 1 .. n + 1
  <2> HAVE i <= j
  <2>1. CASE j = n + 1
    BY <1>1, <1>7, <2>1
  <2>2. CASE j \in 1 .. n
    BY <1>1, <1>9, <2>2
  <2>3. QED
    BY <1>1, <2>1, <2>2
<1>11. ASSUME NEW i \in 1 .. n + 1, fs[i].function.super # Null
       PROVE  m.stack[fs[i].slots + 1].k = "instance"
  <2>1. CASE i = n + 1
    BY <1>2, <1>11, <2>1
  <2>2. CASE i \in 1 .. n
    <3>1. stack[frames[i].slots + 1].k = "instance"
      BY <1>1, <1>4, <1>11, <2>2, FramedNow DEF Framed
    <3>2. m.stack[frames[i].slots + 1] = stack[frames[i].slots + 1]
      BY <1>5, <2>2 DEF Entered, KeepsFloor
    <3>3. QED
      BY <1>4, <2>2, <3>1, <3>2
  <2>3. QED
    BY <1>1, <2>1, <2>2
<1>12. QED
  BY <1>1, <1>6, <1>8, <1>10, <1>11 DEF Framed

(* Expressions leave the classes alone.                                    *)
LEMMA SameClasses ==
  ASSUME IInv, UNCHANGED <<classes, graph>>, stage' = "class"
  PROVE  GraphInv' /\ MethodsAreNearest' /\ Made' = Made
<1>1. Made' = Made
  BY DEF Made
<1>2. GraphInv'
  BY <1>1 DEF IInv, GraphInv
<1>3. MethodsAreNearest'
  BY DEF IInv, MethodsAreNearest
<1>4. QED
  BY <1>1, <1>2, <1>3

KeepsCallers ==
  status' = "running" => \A n \in 1 .. Base : n \in DOMAIN stack' /\ stack'[n] = stack[n]

LEMMA OutcomeKeeps ==
  ASSUME IInv, status = "running", stage = "class", decls = << >>,
         UNCHANGED <<classes, graph, lines, values, decls, stage>>,
         NEW m, Outcome(m),
         stack' = m.stack, frames' = m.frames, heap' = m.heap, status' = m.status
  PROVE  IInv' /\ KeepsCallers
<1>1. GraphInv' /\ MethodsAreNearest' /\ Made' = Made
  BY SameClasses
<1>2. IsMachine(m)
  BY DEF Outcome
<1>3. ValuesInv'
  <2>1. /\ m.stack \in Seq(Values(Made, Len(m.heap)))
        /\ m.frames \in Seq(CallFrames(Made))
        /\ m.heap \in Seq(HeapObjects(Made, Len(m.heap)))
        /\ m.status \in {"running", "error", "undefined"}
    BY <1>2 DEF IsMachine
  <2>2. QED
    BY <1>1, <2>1 DEF IInv, ValuesInv
<1>4. FramesInv'
  <2>1. ASSUME m.status = "running" PROVE Framed(m.stack, m.frames)
    BY <2>1, InFrameFramed, EnteredFramed DEF Outcome
  <2>2. status' = "running" => Framed(stack', frames')
    BY <2>1
  <2>3. QED
    BY <2>2, FramedNext
<1>5. DeclarationInv'
  BY DEF DeclarationInv
<1>6. KeepsCallers
  <2>1. ASSUME m.status = "running" PROVE KeepsFloor(m)
    BY <2>1 DEF Outcome, InFrame, Entered
  <2>2. ASSUME m.status = "running", NEW n \in 1 .. Base
        PROVE  n \in DOMAIN stack' /\ stack'[n] = stack[n]
    <3>1. n \in 1 .. Floor /\ n \in 1 .. Len(m.stack)
      BY <1>2, <2>1, <2>2, FrameFacts, MachineFacts DEF KeepsFloor
    <3>2. DOMAIN m.stack = 1 .. Len(m.stack)
      BY <1>2, MachineFacts, LenProperties
    <3>3. QED
      BY <2>1, <2>2, <3>1, <3>2 DEF KeepsFloor
  <2>3. QED
    BY <2>2 DEF KeepsCallers
<1>7. QED
  BY <1>1, <1>3, <1>4, <1>5, <1>6 DEF IInv

(***************************************************************************)
(* Expressions                                                             *)
(***************************************************************************)
AtExpression ==
  /\ stage = "class" /\ decls = << >>
  /\ UNCHANGED <<classes, graph, lines, values, decls, stage>>

LEMMA BecomesKeeps ==
  ASSUME IInv, status = "running", AtExpression, NEW m, Outcome(m), Becomes(m)
  PROVE  IInv' /\ KeepsCallers
BY OutcomeKeeps DEF AtExpression, Becomes

(* What the compiler leaves above the parameters can be taken.             *)
LEMMA OperandsReady ==
  ASSUME IInv, status = "running", NEW n \in Nat, Operands > n
  PROVE  Ready(Machine, n) /\ Len(stack) > Floor + n
<1>1. Len(stack) > Floor + n
  BY FrameFacts DEF Operands, Floor
<1>2. QED
  BY <1>1, MachineInFrame DEF Ready

LEMMA MentionedValues ==
  ASSUME IInv, status = "running", NEW v \in {w \in values : ~Undeclared(w)}
  PROVE  v \in Values(Made, Len(heap))
<1>1. v \in Mentionable
  BY DEF IInv, ValuesInv
<1>2. CASE v \in Literals
  <2>1. v \in GlobalValues
    BY <1>2, ProgramsAssumption
  <2>2. QED
    BY <2>1 DEF GlobalValues, Values, ClassValues
<1>3. CASE v \in {Class(c) : c \in UserClasses}
  <2>1. PICK c \in UserClasses : v = Class(c)
    BY <1>3
  <2>2. graph[c].made
    BY <2>1, Kinds DEF Undeclared
  <2>3. c \in Made
    BY <2>2 DEF Made
  <2>4. QED
    BY <2>1, <2>3 DEF Values, ClassValues
<1>4. QED
  BY <1>1, <1>2, <1>3 DEF Mentionable

LEMMA StackValues ==
  ASSUME IInv, status = "running"
  PROVE  /\ This \in Values(Made, Len(heap))
         /\ Parameters \subseteq Values(Made, Len(heap))
         /\ Running.super \in {Null} \cup ClassValues(Made)
<1>1. \A i \in 1 .. Floor : stack[i] \in Values(Made, Len(heap))
  BY FrameFacts, MachineInFrame, MachineFacts DEF InFrame
<1>2. This \in Values(Made, Len(heap))
  BY <1>1, FrameFacts DEF This
<1>3. ASSUME NEW i \in 1 .. Running.arity
      PROVE  stack[Base + 1 + i] \in Values(Made, Len(heap))
  <2>1. Base + 1 + i \in 1 .. Floor
    BY FrameFacts DEF Floor
  <2>2. QED
    BY <1>1, <2>1
<1>4. QED
  BY <1>2, <1>3, FrameFacts DEF Parameters, Closures

LEMMA MentionKeeps ==
  ASSUME IInv, status = "running", AtExpression, Mention
  PROVE  IInv' /\ KeepsCallers
<1>1. PICK v \in {w \in values : ~Undeclared(w)} \cup Parameters
                   \cup (IF HasThis(Running) THEN {This} ELSE {}) :
        stack' = Append(stack, v)
  BY DEF Mention
<1>2. v \in Values(Made, Len(heap))
  BY <1>1, MentionedValues, StackValues
<1>3. InFrame(Push(Machine, v))
  BY <1>2, MachineInFrame, PushInFrame
<1>4. /\ stack' = Push(Machine, v).stack /\ frames' = Push(Machine, v).frames
      /\ heap' = Push(Machine, v).heap /\ status' = Push(Machine, v).status
  BY <1>1 DEF Mention, Push, Machine
<1>5. QED
  BY <1>3, <1>4, StillRunning, OutcomeKeeps DEF AtExpression

LEMMA BeginSuperKeeps ==
  ASSUME IInv, status = "running", AtExpression, BeginSuper
  PROVE  IInv' /\ KeepsCallers
<1> DEFINE one == Push(Machine, This)
           two == Push(one, Running.super)
<1>1. Running.super \in Values(Made, Len(heap))
  BY StackValues DEF BeginSuper, Values
<1>2. InFrame(one) /\ one.heap = heap
  BY StackValues, MachineInFrame, PushInFrame
<1>3. InFrame(two)
  BY <1>1, <1>2, PushInFrame
<1>4. /\ two.stack = Append(Append(stack, This), Running.super)
      /\ two.frames = frames /\ two.heap = heap /\ two.status = status
  BY DEF Push, Machine
<1>5. stack \o <<This, Running.super>> = Append(Append(stack, This), Running.super)
  <2>1. stack \in Seq(Values(Made, Len(heap))) /\ This \in Values(Made, Len(heap))
    BY StackValues DEF IInv, ValuesInv
  <2>2. QED
    BY <1>1, <2>1
<1>6. stack' = two.stack /\ frames' = two.frames /\ heap' = two.heap
      /\ status' = two.status
  BY <1>4, <1>5 DEF BeginSuper
<1>7. QED
  BY <1>3, <1>6, StillRunning, OutcomeKeeps DEF AtExpression

LEMMA PopKeeps ==
  ASSUME IInv, status = "running", AtExpression, OpPop
  PROVE  IInv' /\ KeepsCallers
<1>1. Len(stack) > Floor + 0
  BY OperandsReady DEF OpPop
<1>2. InFrame(Pop(Machine, 1))
  BY <1>1, MachineInFrame, PopInFrame, FrameFacts
<1>3. /\ stack' = Pop(Machine, 1).stack /\ frames' = Pop(Machine, 1).frames
      /\ heap' = Pop(Machine, 1).heap /\ status' = Pop(Machine, 1).status
  BY DEF OpPop, Pop, Machine, Front
<1>4. QED
  BY <1>2, <1>3, StillRunning, OutcomeKeeps DEF AtExpression

(* A call by "super" goes to the instance whose method is running.         *)
LEMMA WithoutSuper ==
  ASSUME IInv, status = "running", NEW n \in Nat, Operands > n + 1,
         Running.super # Null, Top(Machine, n + 1) = This
  PROVE  /\ Ready(Pop(Machine, 1), n)
         /\ Top(Pop(Machine, 1), n).k = "instance"
<1> DEFINE p == Pop(Machine, 1)
<1>1. Len(stack) > Floor + (n + 1) /\ Len(stack) \in Nat /\ Floor \in Nat
  BY OperandsReady, FrameFacts
<1>2. /\ InFrame(p) /\ Len(p.stack) = Len(stack) - 1
      /\ \A i \in 1 .. Len(stack) - 1 : p.stack[i] = stack[i]
  BY <1>1, MachineInFrame, PopInFrame
<1> HIDE DEF p
<1>3. Ready(p, n)
  BY <1>1, <1>2 DEF Ready
<1>4. Top(p, n) = Top(Machine, n + 1)
  <2>1. Len(p.stack) - n \in 1 .. Len(stack) - 1 /\ Len(p.stack) - n = Len(stack) - (n + 1)
    BY <1>1, <1>2
  <2>2. QED
    BY <1>2, <2>1, MachineInFrame DEF Top
<1>5. QED
  BY <1>3, <1>4, FrameFacts DEF p

LEMMA InvokeSuperKeeps ==
  ASSUME IInv, status = "running", AtExpression, NEW n \in Names,
         NEW argc \in Nat, OpInvokeSuper(n, argc)
  PROVE  IInv' /\ KeepsCallers
<1> DEFINE p == Pop(Machine, 1)
           c == Top(Machine, 0).class
<1>1. Ready(p, argc) /\ Top(p, argc).k = "instance"
  BY WithoutSuper DEF OpInvokeSuper
<1>2. Outcome(InvokeFromClass(p, c, n, argc))
  BY <1>1, InvokeFromClassOutcome
<1>3. Outcome(Undefined(Machine))
  BY MachineInFrame, StillRunning
<1>4. CASE Top(Machine, 0).k = "class"
  <2>1. Becomes(InvokeFromClass(p, c, n, argc))
    BY <1>4 DEF OpInvokeSuper
  <2>2. QED
    BY <1>2, <2>1, BecomesKeeps
<1>5. CASE Top(Machine, 0).k # "class"
  BY <1>3, <1>5, BecomesKeeps DEF OpInvokeSuper
<1>6. QED
  BY <1>4, <1>5

LEMMA GetSuperKeeps ==
  ASSUME IInv, status = "running", AtExpression, NEW n \in Names, OpGetSuper(n)
  PROVE  IInv' /\ KeepsCallers
<1> DEFINE p == Pop(Machine, 1)
           c == Top(Machine, 0).class
<1>1. Ready(p, 0) /\ Top(p, 0).k = "instance"
  <2>1. Operands > 0 + 1 /\ Top(Machine, 0 + 1) = This /\ Running.super # Null
    BY DEF OpGetSuper
  <2>2. QED
    BY <2>1, WithoutSuper
<1>2. Outcome(BindMethod(p, c, n))
  BY <1>1, BindMethodOutcome
<1>3. Becomes(BindMethod(p, c, n))
  BY DEF OpGetSuper
<1>4. QED
  BY <1>2, <1>3, BecomesKeeps

LEMMA GetPropertyKeeps ==
  ASSUME IInv, status = "running", AtExpression, NEW n \in Properties,
         OpGetProperty(n)
  PROVE  IInv' /\ KeepsCallers
<1> DEFINE this == Top(Machine, 0)
           object == heap[this.i]
           field == object.fields[n]
           result == IF this.k # "instance"
                     THEN IF IsObject(this) THEN RuntimeError(Machine)
                          ELSE Undefined(Machine)
                     ELSE IF field # Absent THEN SetTop(Machine, 0, field)
                          ELSE BindMethod(Machine, object.class, n)
<1>1. /\ Ready(Machine, 0) /\ InFrame(Machine) /\ IsMachine(Machine)
      /\ Machine.heap = heap /\ n \in Names
  BY OperandsReady, MachineInFrame, CallsAssumption DEF OpGetProperty, InFrame
<1>2. Outcome(RuntimeError(Machine)) /\ Outcome(Undefined(Machine))
  BY <1>1, StillRunning
<1>3. Outcome(result)
  <2>1. CASE this.k # "instance"
    BY <1>2, <2>1
  <2>2. CASE this.k = "instance" /\ field # Absent
    <3>1. this \in Values(Made, Len(heap))
      BY <1>1, TopType DEF Ready
    <3>2. this.i \in 1 .. Len(heap)
      BY <1>1, <2>2, <3>1, ValueKinds, MachineFacts
    <3>3. object \in HeapObjects(Made, Len(heap))
      BY <1>1, <3>2, HeapObjectType
    <3>4. field \in Values(Made, Len(heap))
      BY <1>1, <2>2, <3>3 DEF HeapObjects
    <3>5. Ready(SetTop(Machine, 0, field), 0)
      BY <1>1, <3>4, SetTopReady
    <3>6. Outcome(SetTop(Machine, 0, field))
      BY <3>5, StillRunning DEF Ready
    <3>7. QED
      BY <2>2, <3>6
  <2>3. CASE this.k = "instance" /\ field = Absent
    <3>1. Outcome(BindMethod(Machine, object.class, n))
      BY <1>1, <2>3, BindMethodOutcome
    <3>2. QED
      BY <2>3, <3>1
  <2>4. QED
    BY <2>1, <2>2, <2>3
<1>4. Becomes(result)
  BY DEF OpGetProperty
<1>5. QED
  BY <1>3, <1>4, BecomesKeeps

(* The field of an instance takes any value.                               *)
LEMMA SetField ==
  ASSUME IInv, status = "running", NEW i \in 1 .. Len(heap), NEW n \in Names,
         NEW v \in Values(Made, Len(heap))
  PROVE  LET h == [Machine EXCEPT !.heap = [@ EXCEPT ![i].fields[n] = v]] IN
         InFrame(h) /\ h.stack = stack /\ Len(h.heap) = Len(heap)
<1> DEFINE object == [heap[i] EXCEPT !.fields[n] = v]
           objects == [heap EXCEPT ![i] = object]
           h == [Machine EXCEPT !.heap = objects]
<1>1. /\ InFrame(Machine) /\ IsMachine(Machine) /\ Machine.heap = heap
      /\ Machine.stack = stack
  BY MachineInFrame DEF InFrame
<1>2. heap \in Seq(HeapObjects(Made, Len(heap)))
      /\ heap[i] \in HeapObjects(Made, Len(heap))
  BY <1>1, HeapObjectType, MachineFacts
<1>3. object \in HeapObjects(Made, Len(heap))
  BY <1>2 DEF HeapObjects
<1>4. objects \in Seq(HeapObjects(Made, Len(heap))) /\ Len(objects) = Len(heap)
  BY <1>2, <1>3, ExceptSeq
<1>5. /\ h.stack = stack /\ h.frames = frames /\ h.heap = objects
      /\ h.status = status
  BY DEF Machine
<1> HIDE DEF objects
<1>6. IsMachine(h)
  BY <1>1, <1>4, <1>5 DEF IsMachine, Machine
<1>7. InFrame(h)
  BY <1>1, <1>5, <1>6, MachineInFrame DEF InFrame, KeepsFloor, KeepsFrames
<1>8. [Machine EXCEPT !.heap = [@ EXCEPT ![i].fields[n] = v]] = h
  BY <1>1 DEF objects
<1>9. QED
  BY <1>4, <1>5, <1>7, <1>8

LEMMA SetPropertyKeeps ==
  ASSUME IInv, status = "running", AtExpression, NEW n \in Properties,
         OpSetProperty(n)
  PROVE  IInv' /\ KeepsCallers
<1> DEFINE this == Top(Machine, 1)
           value == Top(Machine, 0)
           h == [Machine EXCEPT !.heap = [@ EXCEPT ![this.i].fields[n] = value]]
           result == IF this.k # "instance"
                     THEN IF IsObject(this) THEN RuntimeError(Machine)
                          ELSE Undefined(Machine)
                     ELSE Push(Pop(h, 2), value)
<1>1. /\ Ready(Machine, 1) /\ InFrame(Machine) /\ IsMachine(Machine)
      /\ Machine.heap = heap /\ Machine.stack = stack
      /\ n \in Names /\ Len(stack) > Floor + 1
  BY OperandsReady, MachineInFrame, CallsAssumption DEF OpSetProperty, InFrame
<1>2. Outcome(RuntimeError(Machine)) /\ Outcome(Undefined(Machine))
  BY <1>1, StillRunning
<1>3. Len(stack) \in Nat /\ Floor \in Nat /\ Len(stack) > Floor + 0
      /\ Len(stack) >= Floor + 2
  BY <1>1, FrameFacts
<1>4. this \in Values(Made, Len(heap)) /\ value \in Values(Made, Len(heap))
  BY <1>1, <1>3, TopType
<1>5. ASSUME this.k = "instance" PROVE Outcome(Push(Pop(h, 2), value))
  <2>1. this.i \in 1 .. Len(heap)
    BY <1>1, <1>4, <1>5, ValueKinds, MachineFacts
  <2>2. InFrame(h) /\ h.stack = stack /\ Len(h.heap) = Len(heap)
    BY <1>1, <1>4, <2>1, SetField
  <2> HIDE DEF h
  <2>3. InFrame(Pop(h, 2)) /\ Pop(h, 2).heap = h.heap
    BY <1>3, <2>2, PopInFrame
  <2>4. value \in Values(Made, Len(Pop(h, 2).heap))
    BY <1>4, <2>2, <2>3
  <2>5. InFrame(Push(Pop(h, 2), value))
    BY <2>3, <2>4, PushInFrame
  <2>6. QED
    BY <2>5, StillRunning
<1>6. Outcome(result)
  BY <1>2, <1>5
<1>7. Becomes(result)
  BY DEF OpSetProperty
<1>8. QED
  BY <1>6, <1>7, BecomesKeeps

LEMMA InfixKeeps ==
  ASSUME IInv, status = "running", AtExpression, OpInfix
  PROVE  IInv' /\ KeepsCallers
<1>1. Ready(Machine, 1)
  BY OperandsReady DEF OpInfix
<1>2. ASSUME NEW slot \in Arithmetic, Becomes(PerformArithmetic(Machine, slot))
      PROVE  IInv' /\ KeepsCallers
  <2>1. slot \in Slots /\ slot # "call"
    BY DEF Slots, Arithmetic
  <2>2. Outcome(PerformArithmetic(Machine, slot))
    BY <1>1, <2>1, NumbersOrOutcome DEF PerformArithmetic
  <2>3. QED
    BY <1>2, <2>2, BecomesKeeps
<1>3. ASSUME NEW slot \in Updates, Becomes(PerformUpdate(Machine, slot))
      PROVE  IInv' /\ KeepsCallers
  <2>1. slot \in Slots /\ slot # "call"
    BY DEF Slots, Updates
  <2>2. Outcome(PerformUpdate(Machine, slot))
    BY <1>1, <2>1, NumbersOrOutcome DEF PerformUpdate
  <2>3. QED
    BY <1>3, <2>2, BecomesKeeps
<1>4. CASE Becomes(PerformComparison(Machine))
  <2>1. PICK slot \in Slots : slot = "less"
    BY DEF Slots
  <2>2. slot # "call"
    BY <2>1
  <2>3. Outcome(NumbersOr(Machine, slot, Bool))
    BY <1>1, <2>2, NumbersOrOutcome
  <2>4. QED
    BY <1>4, <2>1, <2>3, BecomesKeeps DEF PerformComparison
<1>5. CASE Becomes(PerformEquality(Machine))
  BY <1>1, <1>5, PerformEqualityOutcome, BecomesKeeps
<1>6. QED
  BY <1>2, <1>3, <1>4, <1>5 DEF OpInfix

(* op_return: everything below the frame stays, and the frame before it    *)
(* finds the result where it had put what it called.                       *)
LEMMA ReturnKeeps ==
  ASSUME IInv, status = "running", AtExpression, OpReturn
  PROVE  IInv' /\ KeepsCallers
<1> DEFINE V == Values(Made, Len(heap))
           n == Len(frames)
<1>1. PICK result \in IF IsInitializer(Running) THEN {This}
                      ELSE {Null} \cup (IF Operands > 0 THEN {Top(Machine, 0)} ELSE {}) :
        /\ frames' = Front(frames)
        /\ stack' = IF n = 1 THEN BelowFrame ELSE Append(BelowFrame, result)
        /\ status' = IF n = 1 THEN "ok" ELSE "running"
        /\ UNCHANGED heap
  BY DEF OpReturn
<1>2. result \in V
  <2>1. Operands > 0 => Top(Machine, 0) \in V
    BY OperandsReady, TopType, MachineInFrame
  <2>2. Null \in V
    BY DEF Values
  <2>3. QED
    BY <1>1, <2>1, <2>2, StackValues
<1>3. /\ stack \in Seq(V) /\ frames \in Seq(CallFrames(Made))
      /\ Base \in Nat /\ Base + 1 <= Len(stack) /\ Len(stack) \in Nat
      /\ n \in Nat \ {0} /\ DOMAIN frames = 1 .. n
  BY FrameFacts, LenProperties DEF IInv, ValuesInv
<1>4. /\ BelowFrame \in Seq(V) /\ Len(BelowFrame) = Base
      /\ DOMAIN BelowFrame = 1 .. Base
      /\ \A i \in 1 .. Base : BelowFrame[i] = stack[i]
  <2>1. Base \in 0 .. Len(stack)
    BY <1>3
  <2>2. QED
    BY <1>3, <2>1, TakePrefix DEF BelowFrame
<1>5. /\ Append(BelowFrame, result) \in Seq(V)
      /\ Len(Append(BelowFrame, result)) = Base + 1
      /\ \A i \in 1 .. Base : Append(BelowFrame, result)[i] = stack[i]
      /\ DOMAIN Append(BelowFrame, result) = 1 .. Base + 1
  BY <1>2, <1>3, <1>4, AppendProperties, LenProperties
<1>6. /\ frames' \in Seq(CallFrames(Made)) /\ Len(frames') = n - 1
      /\ DOMAIN frames' = 1 .. n - 1
      /\ \A i \in 1 .. n - 1 : frames'[i] = frames[i]
  <2>1. n - 1 \in 0 .. Len(frames)
    BY <1>3
  <2>2. QED
    BY <1>1, <1>3, <2>1, TakePrefix DEF Front
<1>7. GraphInv' /\ MethodsAreNearest' /\ Made' = Made
  BY SameClasses DEF AtExpression
<1>8. ValuesInv'
  <2>1. stack' \in Seq(V)
    BY <1>1, <1>4, <1>5
  <2>2. QED
    BY <1>1, <1>6, <1>7, <2>1 DEF AtExpression, IInv, ValuesInv
<1>9. FramesInv'
  <2>1. SUFFICES ASSUME status' = "running" PROVE Framed(stack', frames')
    BY FramedNext
  <2>2. n # 1 /\ stack' = Append(BelowFrame, result)
    BY <1>1, <2>1
  <2>3. n - 1 \in Nat \ {0} /\ n \in 1 .. n /\ 1 \in 1 .. n - 1 /\ 1 \in 1 .. n
    BY <1>3, <2>2
  <2>4. \A i \in 1 .. n - 1 :
          /\ i \in 1 .. n /\ i + 1 \in 1 .. n
          /\ frames[i].slots \in Nat /\ frames[i].function.arity \in Nat
    BY <1>3, FramesLieBelow
  <2>5. frames[n].slots = Base
    BY DEF Base
  <2>6. ASSUME NEW i \in 1 .. n - 1
        PROVE  /\ frames[i].slots + 1 + frames[i].function.arity <= frames[i + 1].slots
               /\ frames[i].top = frames[i + 1].slots
               /\ frames[i + 1].slots <= Base
               /\ frames[i].slots + 1 \in 1 .. Base
    <3>1. i < n /\ i + 1 <= n /\ i + 1 \in 1 .. n
      BY <1>3
    <3>2. EndOf(stack, frames, i) = frames[i + 1].slots
      BY <3>1 DEF EndOf
    <3>3. /\ frames[i].slots + 1 + frames[i].function.arity <= frames[i + 1].slots
          /\ frames[i].top = frames[i + 1].slots
          /\ frames[i + 1].slots <= Base
      BY <1>3, <2>3, <2>4, <2>5, <3>1, <3>2, FramedNow DEF Framed
    <3>4. frames[i + 1].slots \in Nat
      BY <3>1, FramesLieBelow
    <3>5. frames[i].slots \in Nat /\ frames[i].function.arity \in Nat
      BY <2>4
    <3>6. Base \in Nat
      BY <1>3
    <3>7. frames[i].slots + 1 \in 1 .. Base
      BY <3>3, <3>4, <3>5, <3>6
    <3>8. QED
      BY <3>3, <3>7
  <2>7. ASSUME NEW i \in 1 .. n - 1
        PROVE  /\ frames'[i].slots + 1 + frames'[i].function.arity
                    <= EndOf(stack', frames', i)
               /\ i < n - 1 => frames'[i].top = EndOf(stack', frames', i)
    <3> DEFINE slots == frames[i].slots
               arity == frames[i].function.arity
    <3>1. frames'[i] = frames[i] /\ slots \in Nat /\ arity \in Nat
      BY <1>6, <2>4
    <3>2. CASE i = n - 1
      <4>1. EndOf(stack', frames', i) = Base + 1
        BY <1>3, <1>5, <1>6, <2>2, <3>2 DEF EndOf
      <4>2. slots + 1 + arity <= Base
        BY <1>3, <2>5, <2>6, <3>2
      <4>3. slots + 1 + arity <= Base + 1
        BY <1>3, <3>1, <4>2
      <4>4. QED
        BY <1>3, <3>1, <3>2, <4>1, <4>3
    <3>3. CASE i < n - 1
      <4>1. i + 1 \in 1 .. n - 1
        BY <1>3, <3>3
      <4>2. frames'[i + 1] = frames[i + 1]
        BY <1>6, <4>1
      <4>3. EndOf(stack', frames', i) = frames[i + 1].slots
        BY <1>6, <3>3, <4>2 DEF EndOf
      <4>4. slots + 1 + arity <= frames[i + 1].slots
            /\ frames[i].top = frames[i + 1].slots
        BY <2>6
      <4>5. QED
        BY <3>1, <4>3, <4>4
    <3>4. QED
      <4>1. i \in Int /\ n - 1 \in Int /\ i <= n - 1
        BY <1>3
      <4>2. i = n - 1 \/ i < n - 1
        BY <4>1
      <4>3. QED
        BY <3>2, <3>3, <4>2
  <2>8. ASSUME NEW i \in 1 .. n - 1, frames'[i].function.super # Null
        PROVE  stack'[frames'[i].slots + 1].k = "instance"
    <3>1. stack[frames[i].slots + 1].k = "instance"
      BY <1>3, <1>6, <2>4, <2>8, FramedNow DEF Framed
    <3>2. frames[i].slots + 1 \in 1 .. Base
      BY <2>6
    <3>3. QED
      BY <1>5, <1>6, <2>2, <3>1, <3>2
  <2>9. frames' # << >> /\ frames'[1].slots = 0
    <3>1. frames[1].slots = 0
      BY FramedNow DEF Framed
    <3>2. QED
      BY <1>6, <2>3, <3>1, EmptySeq
  <2>10. \A i, j \in 1 .. n - 1 : i <= j => frames'[i].slots <= frames'[j].slots
    BY <1>3, <1>6, <2>4, FramedNow DEF Framed
  <2>11. QED
    BY <1>6, <2>7, <2>8, <2>9, <2>10 DEF Framed
<1>10. DeclarationInv'
  BY DEF AtExpression, DeclarationInv
<1>11. KeepsCallers
  BY <1>1, <1>3, <1>5 DEF KeepsCallers
<1>12. QED
  BY <1>7, <1>8, <1>9, <1>10, <1>11 DEF IInv

LEMMA ExpressionKeeps ==
  ASSUME IInv, status = "running", Expression
  PROVE  IInv' /\ KeepsCallers
<1>1. AtExpression
  BY DEF Expression, AtExpression
<1>2. ASSUME NEW argc \in Arities, OpCall(argc) PROVE IInv' /\ KeepsCallers
  <2>1. argc \in Nat /\ Operands > argc
    BY <1>2, CallsAssumption DEF OpCall
  <2>2. Ready(Machine, argc) /\ InFrame(Machine) /\ IsMachine(Machine)
    BY <2>1, OperandsReady DEF Ready, InFrame
  <2>3. Top(Machine, argc) \in Values(Made, Len(Machine.heap))
    BY <2>1, <2>2, TopType DEF Ready
  <2>4. Callable(Machine, Top(Machine, argc), Top(Machine, argc))
    BY <2>2, <2>3, ValueIsCallable
  <2>5. Outcome(CallValue(Machine, Top(Machine, argc), argc))
    BY <2>2, <2>4, CallValueOutcome
  <2>6. QED
    BY <1>1, <1>2, <2>5, BecomesKeeps DEF OpCall
<1>3. ASSUME NEW argc \in Arities, NEW n \in Names, OpInvoke(n, argc)
      PROVE  IInv' /\ KeepsCallers
  <2>1. argc \in Nat /\ Operands > argc
    BY <1>3, CallsAssumption DEF OpInvoke
  <2>2. Outcome(InvokeMember(Machine, n, argc))
    BY <2>1, OperandsReady, InvokeMemberOutcome
  <2>3. QED
    BY <1>1, <1>3, <2>2, BecomesKeeps DEF OpInvoke
<1>4. ASSUME NEW argc \in Arities, NEW n \in Names, OpInvokeSuper(n, argc)
      PROVE  IInv' /\ KeepsCallers
  BY <1>1, <1>4, InvokeSuperKeeps, CallsAssumption
<1>5. CASE OpAs
  BY <1>1, <1>5, OperandsReady, PerformAsOutcome, BecomesKeeps DEF OpAs
<1>6. CASE OpNegate
  BY <1>1, <1>6, OperandsReady, PerformPrefixOutcome, BecomesKeeps DEF OpNegate
<1>7. CASE OpPostincrement
  BY <1>1, <1>7, OperandsReady, PerformPostfixOutcome, BecomesKeeps
     DEF OpPostincrement
<1>8. CASE OpPrint
  BY <1>1, <1>8, OperandsReady, PerformPrintOutcome, BecomesKeeps DEF OpPrint
<1>9. QED
  BY <1>1, <1>2, <1>3, <1>4, <1>5, <1>6, <1>7, <1>8, MentionKeeps, BeginSuperKeeps,
     PopKeeps, GetSuperKeeps, GetPropertyKeeps, SetPropertyKeeps, InfixKeeps,
     ReturnKeeps DEF Expression

(***************************************************************************)
(* Declarations                                                            *)
(***************************************************************************)
LEMMA ArityIsNat == Arities \subseteq Nat /\ 0 \in Nat
  BY CallsAssumption

LEMMA ClosureType ==
  ASSUME NEW kind \in FunctionKinds, NEW owner \in UserClasses \cup {""},
         NEW name \in FunctionNames, NEW arity \in Nat, NEW K,
         NEW super \in {Null} \cup ClassValues(K)
  PROVE  /\ Closure(kind, owner, name, arity, super) \in Closures(K)
         /\ Closure(kind, owner, name, arity, super).k = "closure"
<1> DEFINE f == [k |-> "closure", kind |-> kind, owner |-> owner, name |-> name,
                 arity |-> arity, super |-> super]
<1>1. Closure(kind, owner, name, arity, super) = f
  BY DEF Closure
<1>2. f.k = "closure" /\ f \in Closures(K)
  BY DEF Closures
<1> HIDE DEF f
<1>3. QED
  BY <1>1, <1>2

LEMMA ScriptType ==
  /\ Script \in GlobalFunctions /\ Script.super = Null /\ Script.arity = 0
  /\ \A K, n : Script \in Closures(K) /\ Script \in Values(K, n)
<1>1. Script = [k |-> "closure", kind |-> "script", owner |-> "", name |-> "",
                arity |-> 0, super |-> Null]
  BY DEF Script, Closure
<1>2. Script \in GlobalFunctions /\ Script.super = Null /\ Script.arity = 0
  BY <1>1 DEF GlobalFunctions, FunctionNames
<1>3. \A K : Script \in Closures(K)
  BY <1>1 DEF Closures, FunctionNames, FunctionKinds
<1>4. QED
  BY <1>2, <1>3 DEF Values

(* What is declared, and the one frame it is declared in.                  *)
LEMMA Declaring ==
  ASSUME IInv, status = "running", decls # << >>
  PROVE  /\ Declared \in ClassDeclarations /\ Declared.class \in UserClasses
         /\ Declared.type \in Int /\ Declared.members \in Seq(Members)
         /\ Declared.super \in {Absent} \cup Mentionable
         /\ Tail(decls) \in Seq(ClassDeclarations)
         /\ frames \in Seq(CallFrames(Made)) /\ Len(frames) = 1
         /\ DOMAIN frames = {1} /\ frames[1].function = Script
         /\ frames[1].slots = 0 /\ Base = 0
<1>1. /\ Declared \in ClassDeclarations /\ Tail(decls) \in Seq(ClassDeclarations)
  BY HeadTailProperties DEF Declared, IInv, ValuesInv
<1>2. /\ Declared.class \in UserClasses /\ Declared.type \in Int
      /\ Declared.members \in Seq(Members)
      /\ Declared.super \in {Absent} \cup Mentionable
  <2>1. /\ Declared.class \in UserClasses /\ Declared.type \in Types
        /\ Declared.members \in Seq(Members)
        /\ Declared.super \in {Absent} \cup Mentionable
    BY <1>1 DEF ClassDeclarations
  <2>2. Types \subseteq Nat
    BY CallsAssumption
  <2>3. Declared.type \in Nat
    BY <2>1, <2>2
  <2>4. Declared.type \in Int
    BY <2>3
  <2>5. QED
    BY <2>1, <2>4
<1>3. /\ Len(frames) = 1 /\ frames[1].function = Script
  BY DEF IInv, DeclarationInv
<1>4. frames \in Seq(CallFrames(Made)) /\ DOMAIN frames = {1}
  BY <1>3, LenProperties DEF IInv, ValuesInv
<1>5. frames[1].slots = 0
  BY FramedNow DEF Framed
<1>6. QED
  BY <1>1, <1>2, <1>3, <1>4, <1>5 DEF Base

LEMMA DeclaringFramed ==
  ASSUME IInv, status = "running", decls # << >>,
         frames' = frames, Len(stack') \in Nat \ {0}
  PROVE  FramesInv' /\ KeepsCallers
<1>1. Framed(stack', frames')
  <2>1. /\ frames # << >> /\ Len(frames) = 1 /\ DOMAIN frames = {1}
        /\ frames[1].function = Script /\ frames[1].slots = 0
    BY FramedNow, Declaring DEF Framed
  <2>2. EndOf(stack', frames, 1) = Len(stack')
    BY <2>1 DEF EndOf
  <2>3. Script.super = Null /\ Script.arity = 0
    BY ScriptType
  <2>4. 0 + 1 + 0 <= Len(stack')
    OBVIOUS
  <2>5. Framed(stack', frames)
    BY <2>1, <2>2, <2>3, <2>4 DEF Framed
  <2>6. QED
    BY <2>5
<1>2. QED
  BY <1>1, FramedNext, Declaring DEF KeepsCallers

(* A declaration that fails changes nothing but the status.                *)
LEMMA AbandonsKeeps ==
  ASSUME IInv, NEW how \in {"error", "undefined"}, Abandons(how),
         UNCHANGED <<lines, values>>
  PROVE  IInv' /\ KeepsCallers
<1>1. /\ UNCHANGED <<stack, frames, heap, classes, graph, decls, stage, lines, values>>
      /\ status' = how /\ status' # "running" /\ Made' = Made
  BY DEF Abandons, Made
<1>2. ValuesInv'
  BY <1>1 DEF IInv, ValuesInv
<1>3. FramesInv' /\ DeclarationInv' /\ KeepsCallers
  BY <1>1 DEF FramesInv, DeclarationInv, KeepsCallers
<1>4. GraphInv'
  BY <1>1 DEF IInv, GraphInv
<1>5. MethodsAreNearest'
  BY <1>1 DEF IInv, MethodsAreNearest
<1>6. QED
  BY <1>2, <1>3, <1>4, <1>5 DEF IInv

LEMMA OpClassKeeps ==
  ASSUME IInv, status = "running", OpClass, UNCHANGED <<lines, values>>
  PROVE  IInv' /\ KeepsCallers
<1> DEFINE d == Declared.class
           K == Made'
           fresh == [type |-> Declared.type, methods |-> InstanceMethods,
                     operations |-> BuiltinOperations("instance"),
                     conversions |-> {}]
           declared == [graph EXCEPT ![d].made = TRUE, ![d].type = Declared.type]
<1>1. /\ stage = "class" /\ decls # << >> /\ ~graph[d].made
      /\ Declared.super # Class(d)
      /\ classes' = [classes EXCEPT ![d] = fresh] /\ graph' = declared
      /\ stage' = IF Declared.super = Absent THEN "get" ELSE "inherit"
      /\ UNCHANGED <<stack, frames, heap, status, decls>>
  BY DEF OpClass
<1>2. /\ d \in UserClasses /\ Declared.type \in Int /\ Declared' = Declared
      /\ stack = <<Script>>
  BY <1>1, Declaring DEF IInv, DeclarationInv, Declared
<1>3. graph \in [UserClasses -> Declarations(Made)]
  BY DEF IInv, GraphInv
<1>4. /\ DOMAIN graph' = UserClasses
      /\ \A c \in UserClasses \ {d} : graph'[c] = graph[c]
      /\ graph'[d] = [graph[d] EXCEPT !.made = TRUE, !.type = Declared.type]
  BY <1>1, <1>2, <1>3 DEF Declarations
<1>5. /\ graph'[d].made /\ graph'[d].methods = graph[d].methods
      /\ graph'[d].parent = graph[d].parent
  BY <1>2, <1>3, <1>4 DEF Declarations
<1>6. K = Made \cup {d} /\ d \notin Made
  BY <1>1, <1>2, <1>4, <1>5 DEF Made
<1>7. /\ Len(heap) \in Nat
      /\ Closures(Made) \subseteq Closures(K) /\ Tables(Made) \subseteq Tables(K)
      /\ CallFrames(Made) \subseteq CallFrames(K)
      /\ Values(Made, Len(heap)) \subseteq Values(K, Len(heap))
      /\ HeapObjects(Made, Len(heap)) \subseteq HeapObjects(K, Len(heap))
  <2>1. Len(heap) \in Nat /\ Made \subseteq K /\ Len(heap) <= Len(heap)
    BY <1>6, LenProperties DEF IInv, ValuesInv
  <2> HIDE DEF K
  <2>2. QED
    BY <2>1, ValuesMonotonic
<1>8. fresh \in Tables(K)
  <2>1. InstanceMethods \in [Names -> Closures(K) \cup {Absent, Native("clone")}]
    BY DEF InstanceMethods
  <2>2. BuiltinOperations("instance") \in NativeTables
    <3>1. "instance" \notin DOMAIN CallOfMeta
      BY DEF CallOfMeta
    <3>2. QED
      BY <3>1, BuiltinOperationsType
  <2>3. NativeTables \subseteq OperationTables(K)
    <3>1. Null \notin OperationNatives
      BY OperationNativeNames, Kinds
    <3>2. QED
      BY <3>1 DEF NativeTables, OperationTables
  <2>4. QED
    BY <1>2, <2>1, <2>2, <2>3 DEF Tables
<1> HIDE DEF K, fresh, declared
<1>9. /\ classes' \in [UserClasses -> Tables(K)]
      /\ classes'[d] = fresh /\ fresh.methods = InstanceMethods
      /\ \A c \in UserClasses \ {d} : classes'[c] = classes[c]
  BY <1>1, <1>2, <1>7, <1>8 DEF IInv, ValuesInv, fresh
<1>10. ValuesInv'
  <2>1. /\ stack' \in Seq(Values(K, Len(heap))) /\ frames' \in Seq(CallFrames(K))
        /\ heap' \in Seq(HeapObjects(K, Len(heap)))
    BY <1>1, <1>7, SeqMonotonic DEF IInv, ValuesInv
  <2>2. QED
    BY <1>1, <1>9, <2>1 DEF IInv, ValuesInv, K
<1>11. FramesInv' /\ KeepsCallers
  <2>1. Len(stack') = 1
    BY <1>1, <1>2
  <2>2. QED
    BY <1>1, <2>1, DeclaringFramed
<1>12. DeclarationInv'
  BY <1>1, <1>2, <1>5 DEF IInv, DeclarationInv, BelowTheClass
<1>13. GraphInv'
  <2>1. graph' \in [UserClasses -> Declarations(K)]
    <3>1. graph \in [UserClasses -> Declarations(K)]
      BY <1>3, <1>7 DEF Declarations
    <3>2. graph' = [graph EXCEPT ![d] =
                      [graph[d] EXCEPT !.made = TRUE, !.type = Declared.type]]
      BY <1>1, <1>2, <1>3 DEF declared, Declarations
    <3>3. QED
      BY <1>2, <3>1, <3>2 DEF Declarations
  <2>2. ASSUME NEW c \in UserClasses
        PROVE  /\ ~graph'[c].made =>
                    graph'[c].methods = NoMethods /\ graph'[c].parent \notin UserClasses
               /\ graph'[c].parent \in UserClasses => graph'[graph'[c].parent].made
               /\ graph'[c].parent # d
    <3>1. /\ ~graph[c].made =>
               graph[c].methods = NoMethods /\ graph[c].parent \notin UserClasses
          /\ graph[c].parent \in UserClasses => graph[graph[c].parent].made
      BY DEF IInv, GraphInv
    <3>2. graph'[c].parent = graph[c].parent /\ graph[c].parent # d
      BY <1>1, <1>2, <1>4, <1>5, <3>1
    <3>3. QED
      BY <1>4, <1>5, <3>1, <3>2
  <2>3. graph'[d].methods = NoMethods
    BY <1>1, <1>2, <1>5 DEF IInv, GraphInv
  <2>4. QED
    BY <1>1, <1>2, <1>9, <2>1, <2>2, <2>3 DEF GraphInv, K
<1>14. MethodsAreNearest'
  <2>1. ASSUME NEW c \in UserClasses, graph'[c].made, NEW n \in Names
        PROVE  classes'[c].methods[n] =
                 CASE graph'[c].methods[n] # Absent -> graph'[c].methods[n]
                   [] graph'[c].methods[n] = Absent /\ n = "clone" -> Native("clone")
                   [] OTHER -> IF graph'[c].parent \in UserClasses
                               THEN classes'[graph'[c].parent].methods[n] ELSE Absent
    <3>1. CASE c = d
      <4>1. graph'[c].methods = NoMethods /\ graph'[c].parent \notin UserClasses
        BY <1>1, <1>2, <1>5, <3>1 DEF IInv, GraphInv
      <4>2. graph'[c].methods[n] = Absent
        BY <4>1 DEF NoMethods
      <4>3. classes'[c].methods[n] = IF n = "clone" THEN Native("clone") ELSE Absent
        BY <1>9, <3>1 DEF InstanceMethods
      <4>4. QED
        BY <4>1, <4>2, <4>3
    <3>2. CASE c # d
      <4>1. graph'[c] = graph[c] /\ classes'[c] = classes[c]
        BY <1>4, <1>9, <3>2
      <4>2. graph[c].parent \in UserClasses =>
              classes'[graph[c].parent] = classes[graph[c].parent]
        BY <1>1, <1>9 DEF IInv, GraphInv
      <4>3. QED
        BY <2>1, <4>1, <4>2 DEF IInv, MethodsAreNearest
    <3>3. QED
      BY <3>1, <3>2
  <2>2. QED
    BY <2>1 DEF MethodsAreNearest
<1>15. QED
  BY <1>10, <1>11, <1>12, <1>13, <1>14 DEF IInv

(* op_inherit's classes, and only these, are classes by now.               *)
LEMMA InheritsFrom ==
  ASSUME IInv, status = "running", decls # << >>, Declared.super # Absent,
         ~Undeclared(Declared.super), Declared.super.k = "class"
  PROVE  LET s == Declared.super.class IN
         /\ Declared.super = Class(s) /\ s \in Made \cup {"string", "closure"}
         /\ Declared.super \in ClassValues(Made)
<1> DEFINE super == Declared.super
<1>1. super \in Literals \cup {Class(c) : c \in UserClasses}
  BY Declaring DEF Mentionable
<1>2. CASE super \in Literals
  <2>1. super \in GlobalValues
    BY <1>2, ProgramsAssumption
  <2>2. super \in {Class("string"), Class("closure")}
    BY <2>1, Kinds DEF GlobalValues, GlobalFunctions
  <2>3. PICK s \in {"string", "closure"} : super = Class(s)
    BY <2>2
  <2>4. super.class = s
    BY <2>3, Kinds
  <2>5. QED
    BY <2>3, <2>4 DEF ClassValues
<1>3. CASE super \in {Class(c) : c \in UserClasses}
  <2>1. PICK c \in UserClasses : super = Class(c)
    BY <1>3
  <2>2. super.class = c /\ graph[c].made
    BY <2>1, Kinds DEF Undeclared
  <2>3. c \in Made
    BY <2>2 DEF Made
  <2>4. QED
    BY <2>1, <2>2, <2>3 DEF ClassValues
<1>4. QED
  BY <1>1, <1>2, <1>3

LEMMA TableOfType ==
  ASSUME IInv, NEW s \in Made \cup {"string", "closure"}
  PROVE  /\ TableOf(s) \in OperationTables(Made)
         /\ MethodsOf(s) \in [Names -> Closures(Made) \cup {Absent, Native("clone")}]
<1>1. CASE s \in UserClasses
  BY <1>1 DEF TableOf, MethodsOf, IInv, ValuesInv, Tables
<1>2. CASE s \notin UserClasses
  <2>1. s \in {"string", "closure"}
    BY <1>2 DEF Made
  <2>2. s \notin DOMAIN CallOfMeta
    BY <2>1 DEF CallOfMeta
  <2>3. BuiltinOperations(s) \in NativeTables
    BY <2>2, BuiltinOperationsType
  <2>4. NativeTables \subseteq OperationTables(Made)
    <3>1. Null \notin OperationNatives
      BY OperationNativeNames, Kinds
    <3>2. QED
      BY <3>1 DEF NativeTables, OperationTables
  <2>5. QED
    BY <1>2, <2>3, <2>4 DEF TableOf, MethodsOf, NoMethods
<1>3. QED
  BY <1>1, <1>2

(* What a class has inherited is not touched while another is declared.    *)
NearestOf(g, table, c, n) ==
  CASE g[c].methods[n] # Absent -> g[c].methods[n]
    [] g[c].methods[n] = Absent /\ n = "clone" -> Native("clone")
    [] OTHER -> IF g[c].parent \in UserClasses
                THEN table[g[c].parent].methods[n] ELSE Absent

LEMMA OthersStayNearest ==
  ASSUME IInv, NEW d \in UserClasses,
         \A c \in UserClasses : graph[c].parent # d,
         \A c \in UserClasses \ {d} :
           graph'[c] = graph[c] /\ classes'[c].methods = classes[c].methods,
         \A n \in Names : classes'[d].methods[n] = NearestOf(graph', classes', d, n)
  PROVE  MethodsAreNearest'
<1>1. ASSUME NEW c \in UserClasses, graph'[c].made, NEW n \in Names
      PROVE  classes'[c].methods[n] = NearestOf(graph', classes', c, n)
  <2>1. CASE c = d
    BY <2>1
  <2>2. CASE c # d
    <3>1. graph'[c] = graph[c] /\ classes'[c].methods = classes[c].methods
      BY <2>2
    <3>2. graph[c].parent \in UserClasses =>
            classes'[graph[c].parent].methods = classes[graph[c].parent].methods
      OBVIOUS
    <3>3. classes[c].methods[n] = NearestOf(graph, classes, c, n)
      BY <1>1, <3>1 DEF IInv, MethodsAreNearest, NearestOf
    <3>4. QED
      BY <3>1, <3>2, <3>3 DEF NearestOf
  <2>3. QED
    BY <2>1, <2>2
<1>2. QED
  BY <1>1 DEF MethodsAreNearest, NearestOf

LEMMA InheritClassKeeps ==
  ASSUME IInv, status = "running", stage = "inherit",
         ~Undeclared(Declared.super), Declared.super.k = "class",
         OpInherit, UNCHANGED <<lines, values>>
  PROVE  IInv' /\ KeepsCallers
<1> DEFINE d == Declared.class
           super == Declared.super
           s == super.class
           own == classes[d].methods
           methods == InheritMethods(own, MethodsOf(s))
<1>1. /\ decls # << >> /\ graph[d].made /\ super # Absent /\ stack = <<Script>>
      /\ \A c \in UserClasses : graph[c].parent # d
      /\ graph[d].methods = NoMethods /\ own = InstanceMethods
      /\ super # Class(d)
  BY DEF IInv, DeclarationInv, GraphInv
<1>2. /\ super = Class(s) /\ s \in Made \cup {"string", "closure"}
      /\ super \in ClassValues(Made) /\ d \in UserClasses
  BY <1>1, InheritsFrom, Declaring
<1>3. /\ stack' = Append(stack, super)
      /\ classes' = [classes EXCEPT ![d].methods = InheritMethods(@, MethodsOf(s)),
                                    ![d].operations = TableOf(s)]
      /\ graph' = [graph EXCEPT ![d].parent = s]
      /\ stage' = "get"
      /\ UNCHANGED <<frames, heap, status, decls>>
  BY DEF OpInherit
<1>4. s # d
  BY <1>1, <1>2
<1>5. /\ classes \in [UserClasses -> Tables(Made)]
      /\ graph \in [UserClasses -> Declarations(Made)]
  BY DEF IInv, ValuesInv, GraphInv
<1>6. /\ TableOf(s) \in OperationTables(Made)
      /\ MethodsOf(s) \in [Names -> Closures(Made) \cup {Absent, Native("clone")}]
  BY <1>2, TableOfType
<1>7. methods \in [Names -> Closures(Made) \cup {Absent, Native("clone")}]
  BY <1>2, <1>5, <1>6 DEF InheritMethods, Tables
<1>8. classes' = [classes EXCEPT ![d] =
                    [classes[d] EXCEPT !.methods = methods, !.operations = TableOf(s)]]
  BY <1>2, <1>3, <1>5 DEF Tables
<1>9. graph' = [graph EXCEPT ![d] = [graph[d] EXCEPT !.parent = s]]
  BY <1>2, <1>3, <1>5 DEF Declarations
<1> HIDE DEF methods
<1>10. /\ classes' \in [UserClasses -> Tables(Made)]
       /\ classes'[d].methods = methods
       /\ \A c \in UserClasses \ {d} : classes'[c] = classes[c]
  BY <1>2, <1>5, <1>6, <1>7, <1>8 DEF Tables
<1>11. s \in Parents /\ (s \in UserClasses => s \in Made /\ graph[s].made)
  BY <1>2, CallsAssumption DEF Parents, Made
<1>12. /\ graph' \in [UserClasses -> Declarations(Made)]
       /\ graph'[d].parent = s /\ graph'[d].methods = graph[d].methods
       /\ graph'[d].made = graph[d].made
       /\ \A c \in UserClasses \ {d} : graph'[c] = graph[c]
  BY <1>2, <1>5, <1>9, <1>11 DEF Declarations
<1>13. Made' = Made
  BY <1>2, <1>12 DEF Made
<1>14. ValuesInv'
  <2>1. super \in Values(Made, Len(heap))
    BY <1>2 DEF Values
  <2>2. stack' \in Seq(Values(Made, Len(heap)))
    BY <1>3, <2>1, AppendProperties DEF IInv, ValuesInv
  <2>3. QED
    BY <1>3, <1>10, <1>13, <2>2 DEF IInv, ValuesInv
<1>15. stack' = <<Script, super>>
  BY <1>1, <1>3, AppendToOne
<1>16. FramesInv' /\ KeepsCallers
  <2>1. Len(stack') = 2
    BY <1>15
  <2>2. QED
    BY <1>1, <1>3, <2>1, DeclaringFramed
<1>17. DeclarationInv'
  <2>1. Declared' = Declared
    BY <1>3 DEF Declared
  <2>2. QED
    BY <1>1, <1>2, <1>3, <1>12, <1>13, <1>15, <2>1
       DEF IInv, DeclarationInv, BelowTheClass
<1>18. GraphInv'
  <2>1. ASSUME NEW c \in UserClasses
        PROVE  /\ ~graph'[c].made =>
                    graph'[c].methods = NoMethods /\ graph'[c].parent \notin UserClasses
               /\ graph'[c].parent \in UserClasses => graph'[graph'[c].parent].made
               /\ graph'[c].parent # d
    <3>1. /\ ~graph[c].made =>
               graph[c].methods = NoMethods /\ graph[c].parent \notin UserClasses
          /\ graph[c].parent \in UserClasses => graph[graph[c].parent].made
          /\ graph[c].parent # d
      BY <1>1 DEF IInv, GraphInv
    <3>2. CASE c = d
      BY <1>1, <1>4, <1>11, <1>12, <3>2
    <3>3. CASE c # d
      BY <1>12, <3>1, <3>3
    <3>4. QED
      BY <3>2, <3>3
  <2>2. Declared' = Declared /\ stage' = "get"
    BY <1>3 DEF Declared
  <2>3. QED
    BY <1>12, <1>13, <2>1, <2>2 DEF GraphInv
<1>19. MethodsAreNearest'
  <2>1. ASSUME NEW n \in Names PROVE classes'[d].methods[n] = NearestOf(graph', classes', d, n)
    <3>1. graph'[d].methods[n] = Absent
      BY <1>1, <1>12 DEF NoMethods
    <3>2. CASE n = "clone"
      <4>1. methods[n] = Native("clone")
        BY <1>1, <3>2, Kinds DEF methods, InheritMethods, InstanceMethods
      <4>2. QED
        BY <1>10, <3>1, <3>2, <4>1 DEF NearestOf
    <3>3. CASE n # "clone"
      <4>1. methods[n] = MethodsOf(s)[n]
        BY <1>1, <3>3 DEF methods, InheritMethods, InstanceMethods
      <4>2. s \in UserClasses => classes'[s] = classes[s]
        BY <1>4, <1>10
      <4>3. MethodsOf(s)[n] = IF s \in UserClasses THEN classes'[s].methods[n] ELSE Absent
        BY <4>2 DEF MethodsOf, NoMethods
      <4>4. QED
        BY <1>10, <1>12, <3>1, <3>3, <4>1, <4>3 DEF NearestOf
    <3>4. QED
      BY <3>2, <3>3
  <2>2. QED
    BY <1>1, <1>2, <1>10, <1>12, <2>1, OthersStayNearest
<1>20. QED
  BY <1>14, <1>16, <1>17, <1>18, <1>19 DEF IInv

LEMMA OpInheritKeeps ==
  ASSUME IInv, status = "running", OpInherit, UNCHANGED <<lines, values>>
  PROVE  IInv' /\ KeepsCallers
<1>1. CASE ~Undeclared(Declared.super) /\ Declared.super.k = "class"
  BY <1>1, InheritClassKeeps DEF OpInherit
<1>2. CASE Undeclared(Declared.super) \/ Declared.super.k # "class"
  <2>1. Abandons("error") \/ Abandons("undefined")
    BY <1>2 DEF OpInherit
  <2>2. PICK how \in {"error", "undefined"} : Abandons(how)
    BY <2>1
  <2>3. QED
    BY <2>2, AbandonsKeeps
<1>3. QED
  BY <1>1, <1>2

(* Steps that leave the classes what they are.                             *)
LEMMA SameClassesDeclaring ==
  ASSUME IInv, UNCHANGED <<classes, graph, heap, frames, status, lines, values>>,
         stack' \in Seq(Values(Made, Len(heap))),
         decls' \in Seq(ClassDeclarations),
         stage' = "class" \/ (stage' = "members" /\ stage = "get" /\ decls' = decls)
  PROVE  ValuesInv' /\ GraphInv' /\ MethodsAreNearest' /\ Made' = Made
<1>1. Made' = Made
  BY DEF Made
<1>2. ValuesInv'
  BY <1>1 DEF IInv, ValuesInv
<1>3. GraphInv'
  BY <1>1 DEF IInv, GraphInv, Declared
<1>4. MethodsAreNearest'
  BY DEF IInv, MethodsAreNearest
<1>5. QED
  BY <1>1, <1>2, <1>3, <1>4

LEMMA GetClassKeeps ==
  ASSUME IInv, status = "running", GetClass, UNCHANGED <<lines, values>>
  PROVE  IInv' /\ KeepsCallers
<1> DEFINE d == Declared.class
<1>1. /\ stage = "get" /\ stack' = Append(stack, Class(d)) /\ stage' = "members"
      /\ UNCHANGED <<frames, heap, classes, graph, status, decls>>
  BY DEF GetClass
<1>2. /\ decls # << >> /\ graph[d].made /\ stack = BelowTheClass
      /\ Declared.super \in {Absent} \cup ClassValues(Made)
  BY <1>1 DEF IInv, DeclarationInv
<1>3. d \in UserClasses /\ d \in Made
  BY <1>2, Declaring DEF Made
<1>4. Class(d) \in Values(Made, Len(heap))
  BY <1>3 DEF Values, ClassValues
<1>5. /\ stack' \in Seq(Values(Made, Len(heap)))
      /\ Len(stack') \in Nat \ {0} /\ decls \in Seq(ClassDeclarations)
  BY <1>1, <1>4, AppendProperties, LenProperties DEF IInv, ValuesInv
<1>6. ValuesInv' /\ GraphInv' /\ MethodsAreNearest' /\ Made' = Made
  BY <1>1, <1>5, SameClassesDeclaring
<1>7. FramesInv' /\ KeepsCallers
  BY <1>1, <1>2, <1>5, DeclaringFramed
<1>8. DeclarationInv'
  <2>1. Declared' = Declared /\ BelowTheClass' = BelowTheClass
    BY <1>1 DEF Declared, BelowTheClass
  <2>2. QED
    BY <1>1, <1>2, <1>6, <2>1 DEF IInv, DeclarationInv
<1>9. QED
  BY <1>6, <1>7, <1>8 DEF IInv

(* The class is on the stack, and below it what it inherits from.          *)
LEMMA InMembers ==
  ASSUME IInv, status = "running", stage = "members"
  PROVE  LET d == Declared.class IN
         /\ decls # << >> /\ d \in UserClasses /\ graph[d].made
         /\ stack = Append(BelowTheClass, Class(d))
         /\ stack[Len(stack)].class = d /\ Len(stack) \in Nat \ {0}
         /\ Front(stack) = BelowTheClass
         /\ Declared.super # Absent => stack[Len(stack) - 1] = Declared.super
         /\ Declared.super \in {Absent} \cup ClassValues(Made)
<1> DEFINE d == Declared.class
           super == Declared.super
           S == {Script, super, Class(d)}
<1>1. /\ decls # << >> /\ graph[d].made
      /\ stack = Append(BelowTheClass, Class(d))
      /\ super \in {Absent} \cup ClassValues(Made)
  BY DEF IInv, DeclarationInv
<1>2. d \in UserClasses
  BY <1>1, Declaring
<1>3. BelowTheClass \in Seq(S)
  <2>1. <<Script>> \in Seq(S)
    OBVIOUS
  <2>2. <<Script, super>> \in Seq(S)
    OBVIOUS
  <2>3. QED
    BY <2>1, <2>2 DEF BelowTheClass
<1>4. /\ Len(stack) = Len(BelowTheClass) + 1 /\ Len(BelowTheClass) \in Nat
      /\ stack[Len(stack)] = Class(d) /\ Front(stack) = BelowTheClass
      /\ \A i \in 1 .. Len(BelowTheClass) : stack[i] = BelowTheClass[i]
  BY <1>1, <1>3, AppendProperties, FrontOfAppend, LenProperties
<1>5. super # Absent => stack[Len(stack) - 1] = super
  <2>1. super # Absent => Len(BelowTheClass) = 2 /\ BelowTheClass[2] = super
    BY DEF BelowTheClass
  <2>2. QED
    BY <1>4, <2>1
<1>6. stack[Len(stack)].class = d
  BY <1>4, Kinds
<1>7. Len(stack) \in Nat \ {0}
  BY <1>4
<1> HIDE DEF S, d, super
<1>8. QED
  BY <1>1, <1>2, <1>4, <1>5, <1>6, <1>7 DEF d, super

LEMMA MemberClosureType ==
  ASSUME IInv, status = "running", stage = "members",
         NEW kind \in FunctionKinds, NEW name \in FunctionNames, NEW arity \in Nat
  PROVE  /\ MemberClosure(kind, name, arity) \in Closures(Made)
         /\ MemberClosure(kind, name, arity).k = "closure"
<1> DEFINE super == IF Declared.super = Absent THEN Null ELSE stack[Len(stack) - 1]
<1>1. super \in {Null} \cup ClassValues(Made)
  BY InMembers
<1>2. PICK owner \in UserClasses \cup {""} : owner = Declared.class
  BY InMembers
<1>3. MemberClosure(kind, name, arity) = Closure(kind, owner, name, arity, super)
  BY <1>2 DEF MemberClosure
<1> HIDE DEF super
<1>4. /\ Closure(kind, owner, name, arity, super) \in Closures(Made)
      /\ Closure(kind, owner, name, arity, super).k = "closure"
  BY <1>1, ClosureType
<1>5. QED
  BY <1>3, <1>4

LEMMA NextMemberType ==
  ASSUME IInv, status = "running", decls # << >>, Declared.members # << >>, NextMember
  PROVE  /\ decls' \in Seq(ClassDeclarations) /\ decls' # << >>
         /\ Declared'.class = Declared.class /\ Declared'.super = Declared.super
         /\ Member \in Members
<1> DEFINE next == [Declared EXCEPT !.members = Tail(@)]
<1>1. /\ Declared \in ClassDeclarations /\ Declared.members \in Seq(Members)
      /\ Tail(decls) \in Seq(ClassDeclarations)
  BY Declaring
<1>2. Tail(Declared.members) \in Seq(Members) /\ Member \in Members
  BY <1>1, HeadTailProperties DEF Member
<1>3. /\ next \in ClassDeclarations /\ next.class = Declared.class
      /\ next.super = Declared.super
  BY <1>1, <1>2 DEF ClassDeclarations
<1> HIDE DEF next
<1>4. decls' = <<next>> \o Tail(decls)
  BY DEF NextMember, next
<1>5. <<next>> \in Seq(ClassDeclarations) /\ Len(<<next>>) = 1 /\ <<next>>[1] = next
  BY <1>3
<1>6. /\ decls' \in Seq(ClassDeclarations) /\ Len(decls') = 1 + Len(Tail(decls))
      /\ decls'[1] = next
  BY <1>1, <1>4, <1>5, ConcatProperties, LenProperties
<1>7. decls' # << >> /\ Declared' = next
  <2>1. Len(Tail(decls)) \in Nat
    BY <1>1, LenProperties
  <2>2. QED
    BY <1>6, <2>1, EmptySeq DEF Declared
<1>8. QED
  BY <1>2, <1>3, <1>6, <1>7

(* A member goes into the class that is being declared.                    *)
LEMMA MemberKeeps ==
  ASSUME IInv, status = "running", stage = "members", Declared.members # << >>,
         NextMember,
         UNCHANGED <<stack, frames, heap, status, stage, lines, values>>,
         classes' \in [UserClasses -> Tables(Made)],
         graph' \in [UserClasses -> Declarations(Made)],
         \A c \in UserClasses \ {Declared.class} :
           graph'[c] = graph[c] /\ classes'[c] = classes[c],
         graph'[Declared.class].made = graph[Declared.class].made,
         graph'[Declared.class].parent = graph[Declared.class].parent,
         \A n \in Names : classes'[Declared.class].methods[n]
           = NearestOf(graph', classes', Declared.class, n)
  PROVE  IInv' /\ KeepsCallers
<1> DEFINE d == Declared.class
<1>1. /\ decls # << >> /\ d \in UserClasses /\ graph[d].made
      /\ stack = Append(BelowTheClass, Class(d)) /\ Len(stack) \in Nat \ {0}
      /\ Declared.super \in {Absent} \cup ClassValues(Made)
  BY InMembers
<1>2. /\ decls' \in Seq(ClassDeclarations) /\ decls' # << >>
      /\ Declared'.class = d /\ Declared'.super = Declared.super
  BY <1>1, NextMemberType
<1>3. \A c \in UserClasses : graph'[c].made = graph[c].made
                             /\ graph'[c].parent = graph[c].parent
  OBVIOUS
<1>4. Made' = Made
  BY <1>3 DEF Made
<1>5. ValuesInv'
  BY <1>2, <1>4 DEF IInv, ValuesInv
<1>6. FramesInv' /\ KeepsCallers
  BY <1>1, DeclaringFramed
<1>7. DeclarationInv'
  <2>1. BelowTheClass' = BelowTheClass
    BY <1>2 DEF BelowTheClass
  <2>2. QED
    BY <1>1, <1>2, <1>3, <1>4, <2>1 DEF IInv, DeclarationInv
<1>8. \A c \in UserClasses : graph[c].parent # d
  BY DEF IInv, GraphInv
<1>9. GraphInv'
  <2>1. ASSUME NEW c \in UserClasses
        PROVE  /\ ~graph'[c].made =>
                    graph'[c].methods = NoMethods /\ graph'[c].parent \notin UserClasses
               /\ graph'[c].parent \in UserClasses => graph'[graph'[c].parent].made
               /\ graph'[c].parent # d
    <3>1. /\ ~graph[c].made =>
               graph[c].methods = NoMethods /\ graph[c].parent \notin UserClasses
          /\ graph[c].parent \in UserClasses => graph[graph[c].parent].made
      BY DEF IInv, GraphInv
    <3>2. ~graph[c].made => graph'[c] = graph[c]
      BY <1>1
    <3>3. QED
      BY <1>3, <1>8, <3>1, <3>2
  <2>2. QED
    BY <1>2, <1>4, <2>1 DEF GraphInv
<1>10. MethodsAreNearest'
  BY <1>1, <1>8, OthersStayNearest
<1>11. QED
  BY <1>5, <1>6, <1>7, <1>9, <1>10 DEF IInv

LEMMA OpMethodKeeps ==
  ASSUME IInv, status = "running", OpMethod, UNCHANGED <<lines, values>>
  PROVE  IInv' /\ KeepsCallers
<1> DEFINE d == Declared.class
           name == Member.name
           method == MemberClosure("method", name, Member.arity)
<1>1. /\ stage = "members" /\ Declared.members # << >> /\ Member.kind = "method"
      /\ classes' = [classes EXCEPT ![stack[Len(stack)].class].methods[name] = method]
      /\ graph' = [graph EXCEPT ![d].methods[name] = method]
      /\ NextMember
      /\ UNCHANGED <<stack, frames, heap, status, stage>>
  BY DEF OpMethod
<1>2. d \in UserClasses /\ stack[Len(stack)].class = d /\ decls # << >> /\ graph[d].made
  BY <1>1, InMembers
<1>3. name \in Names /\ Member.arity \in Nat
  <2>1. Member \in Members
    BY <1>1, <1>2, NextMemberType
  <2>2. QED
    BY <1>1, <2>1, ArityIsNat DEF Members
<1>4. method \in Closures(Made) /\ method # Absent
  <2>1. PICK kind \in FunctionKinds : kind = "method"
    BY DEF FunctionKinds
  <2>2. name \in FunctionNames
    BY <1>3 DEF FunctionNames
  <2>3. /\ MemberClosure(kind, name, Member.arity) \in Closures(Made)
        /\ MemberClosure(kind, name, Member.arity).k = "closure"
    BY <1>1, <1>3, <2>2, MemberClosureType
  <2>4. QED
    BY <2>1, <2>3, Kinds
<1> HIDE DEF method
<1>5. /\ classes \in [UserClasses -> Tables(Made)]
      /\ graph \in [UserClasses -> Declarations(Made)]
  BY DEF IInv, ValuesInv, GraphInv
<1>6. /\ classes' = [classes EXCEPT ![d] = [classes[d] EXCEPT !.methods =
                       [classes[d].methods EXCEPT ![name] = method]]]
      /\ graph' = [graph EXCEPT ![d] = [graph[d] EXCEPT !.methods =
                     [graph[d].methods EXCEPT ![name] = method]]]
  BY <1>1, <1>2, <1>5 DEF Tables, Declarations
<1>7. /\ classes' \in [UserClasses -> Tables(Made)]
      /\ classes'[d].methods = [classes[d].methods EXCEPT ![name] = method]
      /\ \A c \in UserClasses \ {d} : classes'[c] = classes[c]
  BY <1>2, <1>3, <1>4, <1>5, <1>6 DEF Tables
<1>8. /\ graph' \in [UserClasses -> Declarations(Made)]
      /\ graph'[d].methods = [graph[d].methods EXCEPT ![name] = method]
      /\ graph'[d].made = graph[d].made /\ graph'[d].parent = graph[d].parent
      /\ \A c \in UserClasses \ {d} : graph'[c] = graph[c]
  BY <1>2, <1>3, <1>4, <1>5, <1>6 DEF Declarations
<1>9. /\ DOMAIN classes[d].methods = Names /\ DOMAIN graph[d].methods = Names
  BY <1>2, <1>5 DEF Tables, Declarations
<1>10. \A c \in UserClasses : graph[c].parent # d
  BY <1>1 DEF IInv, GraphInv
<1>11. ASSUME NEW n \in Names
       PROVE  classes'[d].methods[n] = NearestOf(graph', classes', d, n)
  <2>1. CASE n = name
    <3>1. classes'[d].methods[n] = method /\ graph'[d].methods[n] = method
      BY <1>7, <1>8, <1>9, <2>1
    <3>2. QED
      BY <1>4, <3>1 DEF NearestOf
  <2>2. CASE n # name
    <3>1. /\ classes'[d].methods[n] = classes[d].methods[n]
          /\ graph'[d].methods[n] = graph[d].methods[n]
      BY <1>7, <1>8, <1>9, <2>2
    <3>2. classes[d].methods[n] = NearestOf(graph, classes, d, n)
      BY <1>2 DEF IInv, MethodsAreNearest, NearestOf
    <3>3. graph[d].parent \in UserClasses =>
            classes'[graph[d].parent] = classes[graph[d].parent]
      BY <1>2, <1>7, <1>10
    <3>4. QED
      BY <1>8, <3>1, <3>2, <3>3 DEF NearestOf
  <2>3. QED
    BY <2>1, <2>2
<1>12. QED
  BY <1>1, <1>7, <1>8, <1>11, MemberKeeps

(* A member that is no method leaves the methods alone.                    *)
LEMMA DeclaredStaysNearest ==
  ASSUME IInv, status = "running", stage = "members",
         classes'[Declared.class].methods = classes[Declared.class].methods,
         graph'[Declared.class].methods = graph[Declared.class].methods,
         graph'[Declared.class].parent = graph[Declared.class].parent,
         \A c \in UserClasses \ {Declared.class} : classes'[c] = classes[c],
         NEW n \in Names
  PROVE  classes'[Declared.class].methods[n]
           = NearestOf(graph', classes', Declared.class, n)
<1> DEFINE d == Declared.class
<1>1. d \in UserClasses /\ graph[d].made
  BY InMembers
<1>2. graph[d].parent \in UserClasses => graph[d].parent # d
  BY <1>1 DEF IInv, GraphInv
<1>3. graph[d].parent \in UserClasses =>
        classes'[graph[d].parent] = classes[graph[d].parent]
  BY <1>2
<1>4. classes[d].methods[n] = NearestOf(graph, classes, d, n)
  BY <1>1 DEF IInv, MethodsAreNearest, NearestOf
<1>5. QED
  BY <1>3, <1>4 DEF NearestOf

LEMMA SlotsOfTokens ==
  ASSUME NEW token \in OperatorTokens, NEW arity \in Nat
  PROVE  SlotOf(token, arity) \in Slots
BY DEF OperatorTokens, SlotOf, OperatorOf, Slots, Arithmetic, Updates

LEMMA OpSpecialMethodKeeps ==
  ASSUME IInv, status = "running", OpSpecialMethod, UNCHANGED <<lines, values>>
  PROVE  IInv' /\ KeepsCallers
<1> DEFINE d == Declared.class
           slot == SlotOf(Member.name, Member.arity)
           kind == IF slot = "ctor" THEN "ctor" ELSE "operator"
           method == MemberClosure(kind, slot, Member.arity)
<1>1. /\ stage = "members" /\ Declared.members # << >> /\ Member.kind = "operator"
      /\ classes' = [classes EXCEPT ![stack[Len(stack)].class].operations[slot] = method]
      /\ graph' = [graph EXCEPT ![d].operations[slot] = method]
      /\ NextMember
      /\ UNCHANGED <<stack, frames, heap, status, stage>>
  BY DEF OpSpecialMethod
<1>2. d \in UserClasses /\ stack[Len(stack)].class = d /\ decls # << >>
  BY <1>1, InMembers
<1>3. Member.name \in OperatorTokens /\ Member.arity \in Nat
  <2>1. Member \in Members
    BY <1>1, <1>2, NextMemberType
  <2>2. QED
    BY <1>1, <2>1, ArityIsNat DEF Members
<1>4. slot \in Slots /\ slot \in FunctionNames
  BY <1>3, SlotsOfTokens DEF FunctionNames
<1>5. kind \in FunctionKinds
  BY DEF FunctionKinds
<1> HIDE DEF slot, kind
<1>6. method \in Closures(Made) /\ method.k = "closure"
  BY <1>1, <1>3, <1>4, <1>5, MemberClosureType
<1> HIDE DEF method
<1>7. method \notin OperationNatives
  BY <1>6, OperationNativeNames
<1>8. /\ classes \in [UserClasses -> Tables(Made)]
      /\ graph \in [UserClasses -> Declarations(Made)]
  BY DEF IInv, ValuesInv, GraphInv
<1> DEFINE operations == [classes[d].operations EXCEPT ![slot] = method]
           own == [graph[d].operations EXCEPT ![slot] = method]
<1>9. /\ classes' = [classes EXCEPT ![d] = [classes[d] EXCEPT !.operations = operations]]
      /\ graph' = [graph EXCEPT ![d] = [graph[d] EXCEPT !.operations = own]]
  BY <1>1, <1>2, <1>8 DEF Tables, Declarations
<1>10. operations \in OperationTables(Made)
  <2>1. classes[d].operations \in OperationTables(Made)
    BY <1>2, <1>8 DEF Tables
  <2>2. operations \in [Slots -> Closures(Made) \cup {Null} \cup OperationNatives]
    BY <1>4, <1>6, <2>1 DEF OperationTables
  <2>3. operations["ctor"] \notin OperationNatives
    BY <1>4, <1>7, <2>1 DEF OperationTables
  <2>4. QED
    BY <2>2, <2>3 DEF OperationTables
<1>11. own \in [Slots -> Closures(Made) \cup {Null}]
  BY <1>2, <1>4, <1>6, <1>8 DEF Declarations
<1> HIDE DEF operations, own
<1>12. /\ classes' \in [UserClasses -> Tables(Made)]
       /\ classes'[d].methods = classes[d].methods
       /\ \A c \in UserClasses \ {d} : classes'[c] = classes[c]
  BY <1>2, <1>8, <1>9, <1>10 DEF Tables
<1>13. /\ graph' \in [UserClasses -> Declarations(Made)]
       /\ graph'[d].methods = graph[d].methods
       /\ graph'[d].made = graph[d].made /\ graph'[d].parent = graph[d].parent
       /\ \A c \in UserClasses \ {d} : graph'[c] = graph[c]
  BY <1>2, <1>8, <1>9, <1>11 DEF Declarations
<1>14. \A n \in Names : classes'[d].methods[n] = NearestOf(graph', classes', d, n)
  BY <1>1, <1>12, <1>13, DeclaredStaysNearest
<1>15. QED
  BY <1>1, <1>12, <1>13, <1>14, MemberKeeps

LEMMA SetConversionType ==
  ASSUME NEW K, NEW cs \in SUBSET [type : Int, method : Closures(K)],
         NEW type \in Int, NEW method \in Closures(K)
  PROVE  SetConversion(cs, type, method) \in SUBSET [type : Int, method : Closures(K)]
BY DEF SetConversion

LEMMA OpConvertMethodKeeps ==
  ASSUME IInv, status = "running", OpConvertMethod, UNCHANGED <<lines, values>>
  PROVE  IInv' /\ KeepsCallers
<1> DEFINE d == Declared.class
           to == Member.to
           method == MemberClosure("convert", "", Member.arity)
           type == TypeOf(Machine, to)
<1>1. stage = "members" /\ Declared.members # << >> /\ Member.kind = "convert"
  BY DEF OpConvertMethod
<1>2. d \in UserClasses /\ stack[Len(stack)].class = d /\ decls # << >>
  BY <1>1, InMembers
<1>3. CASE to.k # "class" \/ Undeclared(to)
  <2>1. PICK how \in {"error", "undefined"} : how = "error"
    OBVIOUS
  <2>2. Abandons(how)
    BY <1>3, <2>1 DEF OpConvertMethod
  <2>3. QED
    BY <2>2, AbandonsKeeps
<1>4. CASE ~(to.k # "class" \/ Undeclared(to))
  <2>1. /\ classes' = [classes EXCEPT ![stack[Len(stack)].class].conversions =
                         SetConversion(@, type, method)]
        /\ graph' = [graph EXCEPT ![d].conversions = SetConversion(@, type, method)]
        /\ NextMember
        /\ UNCHANGED <<stack, frames, heap, status, stage>>
    BY <1>4 DEF OpConvertMethod
  <2>2. Member.arity \in Nat
    <3>1. Member \in Members
      BY <1>1, <1>2, <2>1, NextMemberType
    <3>2. QED
      BY <1>1, <3>1, ArityIsNat DEF Members
  <2>3. method \in Closures(Made)
    <3>1. PICK kind \in FunctionKinds : kind = "convert"
      BY DEF FunctionKinds
    <3>2. PICK name \in FunctionNames : name = ""
      BY DEF FunctionNames
    <3>3. MemberClosure(kind, name, Member.arity) \in Closures(Made)
      BY <1>1, <2>2, MemberClosureType
    <3>4. QED
      BY <3>1, <3>2, <3>3
  <2>4. /\ classes \in [UserClasses -> Tables(Made)]
        /\ graph \in [UserClasses -> Declarations(Made)]
    BY DEF IInv, ValuesInv, GraphInv
  <2>5. type \in Int
    <3>1. CASE to.class \in UserClasses
      <4>1. type = classes[to.class].type
        BY <1>4, <3>1 DEF TypeOf
      <4>2. QED
        BY <2>4, <3>1, <4>1 DEF Tables
    <3>2. CASE to.class \notin UserClasses
      <4>1. type = BuiltinType(to.class)
        BY <1>4, <3>2 DEF TypeOf
      <4>2. QED
        BY <4>1 DEF BuiltinType, obj_string, obj_closure
    <3>3. QED
      BY <3>1, <3>2
  <2> HIDE DEF method, type
  <2> DEFINE conversions == SetConversion(classes[d].conversions, type, method)
             own == SetConversion(graph[d].conversions, type, method)
  <2>6. /\ classes' = [classes EXCEPT ![d] = [classes[d] EXCEPT !.conversions = conversions]]
        /\ graph' = [graph EXCEPT ![d] = [graph[d] EXCEPT !.conversions = own]]
    BY <1>2, <2>1, <2>4 DEF Tables, Declarations
  <2>7. /\ conversions \in SUBSET [type : Int, method : Closures(Made)]
        /\ own \in SUBSET [type : Int, method : Closures(Made)]
    <3>1. /\ classes[d].conversions \in SUBSET [type : Int, method : Closures(Made)]
          /\ graph[d].conversions \in SUBSET [type : Int, method : Closures(Made)]
      BY <1>2, <2>4 DEF Tables, Declarations
    <3>2. QED
      BY <2>3, <2>5, <3>1, SetConversionType
  <2> HIDE DEF conversions, own
  <2>8. /\ classes' \in [UserClasses -> Tables(Made)]
        /\ classes'[d].methods = classes[d].methods
        /\ \A c \in UserClasses \ {d} : classes'[c] = classes[c]
    BY <1>2, <2>4, <2>6, <2>7 DEF Tables
  <2>9. /\ graph' \in [UserClasses -> Declarations(Made)]
        /\ graph'[d].methods = graph[d].methods
        /\ graph'[d].made = graph[d].made /\ graph'[d].parent = graph[d].parent
        /\ \A c \in UserClasses \ {d} : graph'[c] = graph[c]
    BY <1>2, <2>4, <2>6, <2>7 DEF Declarations
  <2>10. \A n \in Names : classes'[d].methods[n] = NearestOf(graph', classes', d, n)
    BY <1>1, <2>8, <2>9, DeclaredStaysNearest
  <2>11. QED
    BY <1>1, <2>1, <2>8, <2>9, <2>10, MemberKeeps
<1>5. QED
  BY <1>3, <1>4

(* The class and the local "super" are gone again.                         *)
LEMMA ClassPopped ==
  ASSUME IInv, status = "running", EndClass
  PROVE  stack' = <<Script>>
<1>1. /\ stack' = IF Declared.super = Absent THEN Front(stack) ELSE Front(Front(stack))
      /\ Front(stack) = BelowTheClass
  BY InMembers DEF EndClass
<1>2. CASE Declared.super = Absent
  BY <1>1, <1>2 DEF BelowTheClass
<1>3. CASE Declared.super # Absent
  <2> DEFINE S == {Script, Declared.super}
  <2>1. Front(Append(<<Script>>, Declared.super)) = <<Script>>
    <3>1. <<Script>> \in Seq(S) /\ Declared.super \in S
      OBVIOUS
    <3> HIDE DEF S
    <3>2. QED
      BY <3>1, FrontOfAppend
  <2>2. Append(<<Script>>, Declared.super) = <<Script, Declared.super>>
    BY AppendToOne
  <2>3. QED
    BY <1>1, <1>3, <2>1, <2>2 DEF BelowTheClass
<1>4. QED
  BY <1>2, <1>3

LEMMA EndClassKeeps ==
  ASSUME IInv, status = "running", EndClass, UNCHANGED <<lines, values>>
  PROVE  IInv' /\ KeepsCallers
<1>1. /\ stage = "members"
      /\ stack' = IF Declared.super = Absent THEN Front(stack) ELSE Front(Front(stack))
      /\ decls' = Tail(decls) /\ stage' = "class"
      /\ UNCHANGED <<frames, heap, classes, graph, status>>
  BY DEF EndClass
<1>2. /\ decls # << >> /\ Front(stack) = BelowTheClass
      /\ Tail(decls) \in Seq(ClassDeclarations) /\ Len(frames) = 1
      /\ frames[1].function = Script
  BY <1>1, InMembers, Declaring
<1>3. stack' = <<Script>>
  BY ClassPopped
<1>4. stack' \in Seq(Values(Made, Len(heap))) /\ Len(stack') = 1
  BY <1>3, ScriptType
<1>5. ValuesInv' /\ GraphInv' /\ MethodsAreNearest' /\ Made' = Made
  BY <1>1, <1>2, <1>4, SameClassesDeclaring
<1>6. FramesInv' /\ KeepsCallers
  <2>1. Len(stack') \in Nat \ {0} /\ frames' = frames
    BY <1>1, <1>4
  <2>2. QED
    BY <1>2, <2>1, DeclaringFramed
<1>7. DeclarationInv'
  BY <1>1, <1>2, <1>3 DEF DeclarationInv
<1>8. QED
  BY <1>5, <1>6, <1>7 DEF IInv

(***************************************************************************)
(* The specification                                                       *)
(***************************************************************************)
LEMMA ProgramLines ==
  ASSUME NEW program \in Seq(Lines) \ {<< >>}
  PROVE  /\ Head(program).declares \in Seq(ClassDeclarations)
         /\ Head(program).mentions \subseteq Mentionable
         /\ Tail(program) \in Seq(Lines)
<1>1. Head(program) \in Lines /\ Tail(program) \in Seq(Lines)
  BY HeadTailProperties
<1>2. QED
  BY <1>1 DEF Lines

(* A line begins with one frame and its code below it.                     *)
LEMMA StartFramed ==
  /\ Framed(<<Script>>, <<Frame(Script, 0)>>)
  /\ \A K : <<Frame(Script, 0)>> \in Seq(CallFrames(K))
  /\ \A K : <<Script>> \in Seq(Values(K, 0))
<1> DEFINE frame == Frame(Script, 0)
           fs == <<frame>>
<1>1. frame = [function |-> Script, slots |-> 0, top |-> 0]
  BY DEF Frame
<1>2. frame.function = Script /\ frame.slots = 0
  BY <1>1
<1>3. ASSUME NEW K PROVE frame \in CallFrames(K)
  BY <1>1, ScriptType DEF CallFrames
<1> HIDE DEF frame
<1>4. Len(fs) = 1 /\ DOMAIN fs = {1} /\ fs[1] = frame /\ fs # << >>
  OBVIOUS
<1>5. Len(<<Script>>) = 1
  OBVIOUS
<1> HIDE DEF fs
<1>6. EndOf(<<Script>>, fs, 1) = 1
  BY <1>4, <1>5 DEF EndOf
<1>7. Framed(<<Script>>, fs)
  <2>1. 0 + 1 + 0 <= 1
    OBVIOUS
  <2>2. QED
    BY <1>2, <1>4, <1>6, <2>1, ScriptType DEF Framed
<1>8. \A K : fs \in Seq(CallFrames(K))
  BY <1>3 DEF fs
<1>9. \A K : <<Script>> \in Seq(Values(K, 0))
  BY ScriptType
<1>10. QED
  BY <1>7, <1>8, <1>9 DEF fs, frame

(* Init, and Interpret when it begins with the next line.                  *)
LEMMA InitIInv == Init => IInv
<1> SUFFICES ASSUME Init PROVE IInv
  OBVIOUS
<1> USE DEF Init
<1>1. PICK program \in Programs :
        /\ decls = Head(program).declares
        /\ values = Head(program).mentions
        /\ lines = Tail(program)
  OBVIOUS
<1>2. /\ decls \in Seq(ClassDeclarations) /\ values \subseteq Mentionable
      /\ lines \in Seq(Lines)
  <2>1. program \in Seq(Lines) \ {<< >>}
    BY ProgramsAssumption
  <2>2. QED
    BY <1>1, <2>1, ProgramLines
<1>3. \A c \in UserClasses : ~graph[c].made /\ graph[c] = Unmade
  BY DEF Unmade
<1>4. Len(heap) = 0 /\ heap \in Seq(HeapObjects(Made, 0))
  OBVIOUS
<1>5. classes \in [UserClasses -> Tables(Made)]
  <2>1. NoMethods \in [Names -> Closures(Made) \cup {Absent, Native("clone")}]
    BY DEF NoMethods
  <2>2. NoOperations \in OperationTables(Made)
    <3>1. Null \notin OperationNatives
      BY OperationNativeNames, Kinds
    <3>2. QED
      BY <3>1 DEF OperationTables, NoOperations, Slots
  <2>3. [type |-> 0, methods |-> NoMethods, operations |-> NoOperations,
         conversions |-> {}] \in Tables(Made)
    BY <2>1, <2>2 DEF Tables
  <2>4. QED
    BY <2>3
<1>6. graph \in [UserClasses -> Declarations(Made)]
  <2>1. NoMethods \in [Names -> Closures(Made) \cup {Absent}]
    BY DEF NoMethods
  <2>2. NoOperations \in [Slots -> Closures(Made) \cup {Null}]
    BY DEF NoOperations
  <2>3. PICK none \in Parents : none = ""
    BY DEF Parents
  <2>4. Unmade = [made |-> FALSE, parent |-> none, type |-> 0, methods |-> NoMethods,
                  operations |-> NoOperations, conversions |-> {}]
    BY <2>3 DEF Unmade
  <2> DEFINE M == [Names -> Closures(Made) \cup {Absent}]
             O == [Slots -> Closures(Made) \cup {Null}]
             C == SUBSET [type : Int, method : Closures(Made)]
  <2>5. NoMethods \in M /\ NoOperations \in O /\ {} \in C
    BY <2>1, <2>2
  <2>6. Declarations(Made) = [made : BOOLEAN, parent : Parents, type : Int,
                              methods : M, operations : O, conversions : C]
    BY DEF Declarations
  <2> HIDE DEF M, O, C
  <2>7. Unmade \in Declarations(Made)
    BY <2>4, <2>5, <2>6
  <2>8. QED
    BY <2>7
<1>7. ValuesInv
  BY <1>2, <1>4, <1>5, StartFramed DEF ValuesInv
<1>8. FramesInv
  <2>1. Framed(stack, frames)
    BY StartFramed
  <2>2. QED
    BY <2>1 DEF FramesInv, Framing, End, Framed, EndOf
<1>9. DeclarationInv
  <2>1. Len(frames) = 1 /\ frames[1].function = Script
    BY DEF Frame
  <2>2. QED
    BY <2>1 DEF DeclarationInv
<1>10. GraphInv
  <2>1. \A c \in UserClasses : graph[c].methods = NoMethods /\ graph[c].parent \notin UserClasses
    BY <1>3, CallsAssumption DEF Unmade
  <2>2. QED
    BY <1>3, <1>6, <2>1 DEF GraphInv
<1>11. MethodsAreNearest
  BY <1>3 DEF MethodsAreNearest
<1>12. QED
  BY <1>7, <1>8, <1>9, <1>10, <1>11 DEF IInv

LEMMA InterpretKeeps ==
  ASSUME IInv, Interpret
  PROVE  IInv'
<1>1. /\ stack' = <<Script>> /\ frames' = <<Frame(Script, 0)>> /\ heap' = << >>
      /\ decls' = Head(lines).declares /\ values' = Head(lines).mentions
      /\ lines' = Tail(lines) /\ stage' = "class" /\ status' = "running"
      /\ UNCHANGED <<classes, graph>>
  BY DEF Interpret, Starts
<1>2. /\ decls' \in Seq(ClassDeclarations) /\ values' \subseteq Mentionable
      /\ lines' \in Seq(Lines)
  <2>1. lines \in Seq(Lines) \ {<< >>}
    BY DEF Interpret, IInv, ValuesInv
  <2>2. QED
    BY <1>1, <2>1, ProgramLines
<1>3. GraphInv' /\ MethodsAreNearest' /\ Made' = Made
  BY <1>1, SameClasses
<1>4. Len(heap') = 0 /\ heap' \in Seq(HeapObjects(Made, 0))
  BY <1>1
<1>5. ValuesInv'
  <2>1. /\ stack' \in Seq(Values(Made, 0)) /\ frames' \in Seq(CallFrames(Made))
        /\ classes' \in [UserClasses -> Tables(Made)]
    BY <1>1, StartFramed DEF IInv, ValuesInv
  <2>2. QED
    BY <1>1, <1>2, <1>3, <1>4, <2>1 DEF ValuesInv
<1>6. FramesInv'
  <2>1. Framed(stack', frames')
    BY <1>1, StartFramed
  <2>2. QED
    BY <2>1, FramedNext
<1>7. DeclarationInv'
  <2>1. Len(frames') = 1 /\ frames'[1].function = Script
    BY <1>1 DEF Frame
  <2>2. QED
    BY <1>1, <2>1 DEF DeclarationInv
<1>8. QED
  BY <1>3, <1>5, <1>6, <1>7 DEF IInv

LEMMA NextIInv ==
  ASSUME IInv, [Next]_vars
  PROVE  IInv' /\ (status = "running" => KeepsCallers)
<1>1. CASE status = "running" /\ Declaration
  BY <1>1, OpClassKeeps, OpInheritKeeps, GetClassKeeps, OpMethodKeeps,
     OpSpecialMethodKeeps, OpConvertMethodKeeps, EndClassKeeps DEF Declaration
<1>2. CASE status = "running" /\ Expression
  BY <1>2, ExpressionKeeps
<1>3. CASE Interpret
  BY <1>3, InterpretKeeps DEF Interpret
<1>4. CASE UNCHANGED vars
  <2>1. UNCHANGED <<stack, frames, heap, classes, status, lines, decls, stage,
                    values, graph>> /\ Made' = Made /\ Declared' = Declared
    BY <1>4 DEF vars, Made, Declared
  <2>2. ValuesInv'
    BY <2>1 DEF IInv, ValuesInv
  <2>3. FramesInv'
    <3>1. status' = "running" => Framed(stack', frames')
      BY <2>1, FramedNow
    <3>2. QED
      BY <3>1, FramedNext
  <2>4. DeclarationInv'
    BY <2>1 DEF IInv, DeclarationInv, BelowTheClass
  <2>5. GraphInv'
    BY <2>1 DEF IInv, GraphInv
  <2>6. MethodsAreNearest'
    BY <2>1 DEF IInv, MethodsAreNearest
  <2>7. status = "running" => KeepsCallers
    <3>1. ASSUME status = "running", NEW n \in 1 .. Base PROVE n \in DOMAIN stack
      <4>1. n \in 1 .. Len(stack)
        BY <3>1, FrameFacts
      <4>2. QED
        BY <3>1, <4>1, LenProperties DEF IInv, ValuesInv
    <3>2. QED
      BY <2>1, <3>1 DEF KeepsCallers
  <2>8. QED
    BY <2>2, <2>3, <2>4, <2>5, <2>6, <2>7 DEF IInv
<1>5. QED
  BY <1>1, <1>2, <1>3, <1>4 DEF Next

(* Whatever the classes of a program and whatever its expressions do,      *)
(* every step of the machine keeps the invariant.                          *)
THEOREM Inductive == Spec => []IInv
<1>1. Init => IInv
  BY InitIInv
<1>2. IInv /\ [Next]_vars => IInv'
  BY NextIInv
<1>3. QED
  BY <1>1, <1>2, PTL DEF Spec

LEMMA TypesFollow ==
  ASSUME IInv
  PROVE  TypeOK
<1>1. /\ status \in {"running", "ok", "error", "undefined"}
      /\ stage \in {"class", "inherit", "get", "members"}
  BY DEF IInv, ValuesInv
<1>2. frames \in Seq(Frames)
  <2>1. CallFrames(Made) \subseteq Frames
    BY DEF CallFrames, Closures, ClassValues, Frames, Made
  <2>2. QED
    BY <2>1, SeqMonotonic DEF IInv, ValuesInv
<1>3. status = "running" => frames # << >> /\ stack # << >>
  <2>1. status = "running" => Len(frames) > 0 /\ Len(stack) > 0
    BY FrameFacts
  <2>2. QED
    BY <2>1, EmptySeq
<1>4. \A i \in DOMAIN heap : heap[i].class \in UserClasses /\ graph[heap[i].class].made
  <2>1. ASSUME NEW i \in DOMAIN heap PROVE heap[i].class \in Made
    <3>1. heap \in Seq(HeapObjects(Made, Len(heap))) /\ i \in 1 .. Len(heap)
      BY LenProperties DEF IInv, ValuesInv
    <3>2. heap[i] \in HeapObjects(Made, Len(heap))
      BY <3>1, ElementOfSeq
    <3>3. QED
      BY <3>2 DEF HeapObjects
  <2>2. QED
    BY <2>1 DEF Made
<1>5. \A i \in DOMAIN stack : stack[i].k = "instance" => stack[i].i \in DOMAIN heap
  <2> TAKE i \in DOMAIN stack
  <2>1. /\ stack \in Seq(Values(Made, Len(heap))) /\ i \in 1 .. Len(stack)
        /\ Len(heap) \in Nat /\ DOMAIN heap = 1 .. Len(heap)
    BY LenProperties DEF IInv, ValuesInv
  <2>2. stack[i] \in Values(Made, Len(heap))
    BY <2>1, ElementOfSeq
  <2>3. QED
    BY <2>1, <2>2, ValueKinds
<1>6. \A c \in UserClasses :
        /\ DOMAIN classes[c].methods = Names
        /\ DOMAIN classes[c].operations = Slots
  BY DEF IInv, ValuesInv, Tables, OperationTables
<1>7. QED
  BY <1>1, <1>2, <1>3, <1>4, <1>5, <1>6 DEF TypeOK

(* Everything the machine keeps has its type: every instance on the stack  *)
(* is one that was made, of a class that was declared.                     *)
THEOREM TypeCorrect == Spec => []TypeOK
<1>1. IInv => TypeOK
  BY TypesFollow
<1>2. QED
  BY <1>1, Inductive, PTL

(* push_call_frame and op_return: the frames divide the stack, each with   *)
(* its receiver and arguments where its caller had put them.               *)
THEOREM FramesStayApart == Spec => []Framing
<1>1. IInv => Framing
  BY DEF IInv, FramesInv, Framing
<1>2. QED
  BY <1>1, Inductive, PTL

(* op_inherit, op_method: what a class has copied from its superclass is   *)
(* what its superclass has, in every order of declarations.                *)
THEOREM InheritedIsNearest == Spec => []MethodsAreNearest
<1>1. IInv => MethodsAreNearest
  BY DEF IInv
<1>2. QED
  BY <1>1, Inductive, PTL

(* vm::run: no instruction touches the stack below the frame it runs in.   *)
THEOREM CallersAreUntouched == Spec => CallersUntouched
<1>1. IInv /\ [Next]_vars =>
        [status = "running" /\ status' = "running" =>
           \A n \in 1 .. Base : n \in DOMAIN stack' /\ stack'[n] = stack[n]]_vars
  BY NextIInv DEF KeepsCallers
<1>2. QED
  BY <1>1, Inductive, PTL DEF Spec, CallersUntouched

(***************************************************************************)
(* Dispatch: what the refinement needs besides                             *)
(***************************************************************************)
(* What looking something up along the superclasses needs: that they end   *)
(* somewhere, and that a class has its own members and its superclass's    *)
(* operations in its tables.                                               *)
SuperclassesEnd ==
  \A S \in SUBSET UserClasses :
    S # {} => \E c \in S : graph[c].parent \notin S

NearestOperation(g, table, c, s) ==
  LET super == g[c].parent
  IN  IF g[c].operations[s] # Null THEN g[c].operations[s]
      ELSE IF super \in UserClasses THEN table[super].operations[s]
      ELSE BuiltinOperations(IF super = "" THEN "instance" ELSE super)[s]

OperationsAreNearest ==
  \A c \in Made : \A s \in Slots :
    classes[c].operations[s] = NearestOperation(graph, classes, c, s)

DeclaredParent ==
  IF Declared.super = Absent THEN "" ELSE Declared.super.class

DispatchInv ==
  /\ \A c \in UserClasses : ~graph[c].made => graph[c] = Unmade
  /\ \A c \in Made : classes[c].type = graph[c].type
                     /\ classes[c].conversions = graph[c].conversions
  /\ SuperclassesEnd
  /\ OperationsAreNearest
  /\ status = "running" /\ stage = "inherit" =>
       graph[Declared.class].parent = "" /\ graph[Declared.class].operations = NoOperations
  /\ status = "running" /\ stage \in {"get", "members"} =>
       graph[Declared.class].parent = DeclaredParent

FullInv == IInv /\ DispatchInv

(***************************************************************************)
(* What is looked up                                                       *)
(***************************************************************************)
(* Two functions that are equal on a class if they are on its superclass   *)
(* are equal.                                                              *)
LEMMA AlongSuperclasses ==
  ASSUME SuperclassesEnd, NEW f, NEW g,
         \A c \in UserClasses :
           (graph[c].parent \in UserClasses => f[graph[c].parent] = g[graph[c].parent])
             => f[c] = g[c]
  PROVE  \A c \in UserClasses : f[c] = g[c]
<1> DEFINE S == {c \in UserClasses : f[c] # g[c]}
<1>1. SUFFICES ASSUME S # {} PROVE FALSE
  OBVIOUS
<1>2. PICK c \in S : graph[c].parent \notin S
  BY <1>1 DEF SuperclassesEnd
<1>3. graph[c].parent \in UserClasses => f[graph[c].parent] = g[graph[c].parent]
  BY <1>2
<1>4. QED
  BY <1>2, <1>3

LEMMA FindsMethod ==
  ASSUME FullInv, NEW c \in Made, NEW n \in Names
  PROVE  D!FindMethod(c, n) = classes[c].methods[n]
<1> DEFINE step(find, d) ==
             IF graph[d].methods[n] # Absent THEN graph[d].methods[n]
             ELSE IF n = "clone" THEN Native("clone")
             ELSE IF graph[d].parent \in UserClasses THEN find[graph[d].parent]
             ELSE Absent
           IsFind(find) == find = [d \in UserClasses |-> step(find, d)]
           found == CHOOSE find : IsFind(find)
           copied == [d \in UserClasses |->
             IF graph[d].made THEN classes[d].methods[n]
             ELSE IF n = "clone" THEN Native("clone") ELSE Absent]
<1>1. D!FindMethod(c, n) = found[c]
  BY DEF D!FindMethod, D!Absent, D!Native, Absent, Native, Made
<1>2. IsFind(copied)
  <2>1. ASSUME NEW d \in UserClasses PROVE copied[d] = step(copied, d)
    <3>1. CASE graph[d].made
      <4>1. classes[d].methods[n] = NearestOf(graph, classes, d, n)
        BY <3>1 DEF FullInv, IInv, MethodsAreNearest, NearestOf
      <4>2. graph[d].parent \in UserClasses => graph[graph[d].parent].made
        BY DEF FullInv, IInv, GraphInv
      <4>3. QED
        BY <3>1, <4>1, <4>2 DEF NearestOf
    <3>2. CASE ~ graph[d].made
      <4>1. graph[d].methods = NoMethods /\ graph[d].parent \notin UserClasses
        BY <3>2 DEF FullInv, IInv, GraphInv
      <4>2. graph[d].methods[n] = Absent
        BY <4>1 DEF NoMethods
      <4>3. QED
        BY <3>2, <4>1, <4>2
    <3>3. QED
      BY <3>1, <3>2
  <2>2. [d \in UserClasses |-> copied[d]] = [d \in UserClasses |-> step(copied, d)]
    BY <2>1
  <2>3. [d \in UserClasses |-> copied[d]] = copied
    OBVIOUS
  <2>4. QED
    BY <2>2, <2>3
<1>3. IsFind(found)
  BY <1>2
<1> HIDE DEF found
<1>4. \A d \in UserClasses : found[d] = step(found, d) /\ copied[d] = step(copied, d)
  BY <1>2, <1>3
<1>5. copied[c] = classes[c].methods[n] /\ c \in UserClasses
  BY DEF Made
<1> HIDE DEF copied
<1>6. \A d \in UserClasses : found[d] = copied[d]
  <2>1. \A d \in UserClasses :
          (graph[d].parent \in UserClasses
             => found[graph[d].parent] = copied[graph[d].parent])
          => found[d] = copied[d]
    BY <1>4
  <2>2. SuperclassesEnd
    BY DEF FullInv, DispatchInv
  <2> HIDE DEF step, IsFind
  <2>3. QED
    BY <2>1, <2>2, AlongSuperclasses
<1>7. QED
  BY <1>1, <1>5, <1>6

(* DynamicDispatch speaks of the same values.                              *)
LEMMA SameValues ==
  /\ D!Null = Null /\ D!Absent = Absent /\ D!Number = Number /\ D!Bool = Bool
  /\ D!String = String /\ D!Script = Script
  /\ D!NoMethods = NoMethods /\ D!NoOperations = NoOperations
  /\ D!Slots = Slots /\ D!Arithmetic = Arithmetic /\ D!Updates = Updates
  /\ D!obj_bound_method = obj_bound_method
  /\ \A c : D!Class(c) = Class(c) /\ D!MetaClass(c) = MetaClass(c)
            /\ D!BuiltinType(c) = BuiltinType(c)
  /\ \A i : D!Instance(i) = Instance(i)
  /\ \A name : D!Native(name) = Native(name)
  /\ \A receiver, method : D!BoundMethod(receiver, method) = BoundMethod(receiver, method)
  /\ \A kind, owner, name, arity, super :
       D!Closure(kind, owner, name, arity, super) = Closure(kind, owner, name, arity, super)
  BY DEF D!Null, Null, D!Absent, Absent, D!Number, Number, D!Bool, Bool, D!String,
         String, D!Script, Script, D!NoMethods, NoMethods, D!NoOperations, NoOperations,
         D!Slots, Slots, D!Arithmetic, Arithmetic, D!Updates, Updates,
         D!obj_bound_method, obj_bound_method, D!Class, Class, D!MetaClass, MetaClass,
         D!BuiltinType, BuiltinType, D!obj_string, obj_string, D!obj_closure, obj_closure,
         D!Instance, Instance, D!Native, Native, D!BoundMethod, BoundMethod,
         D!Closure, Closure

LEMMA SameNatives ==
  /\ \A c : D!BuiltinOperations(c) = BuiltinOperations(c)
  /\ \A name, this, args : D!NativeResult(name, this, args) = NativeResult(name, this, args)
  /\ \A v : D!IsObject(v) <=> IsObject(v)
  /\ \A f : (D!HasThis(f) <=> HasThis(f)) /\ (D!IsInitializer(f) <=> IsInitializer(f))
<1>1. \A c : D!BuiltinOperations(c) = BuiltinOperations(c)
  <2>1. D!CallOfMeta = CallOfMeta
    BY DEF D!CallOfMeta, CallOfMeta, D!Native, Native
  <2>2. QED
    BY <2>1, SameValues DEF D!BuiltinOperations, BuiltinOperations
<1>2. \A v, c : D!HasTypeOf(v, c) <=> HasTypeOf(v, c)
  BY SameValues DEF D!HasTypeOf, HasTypeOf
<1>3. D!Refuses = Refuses /\ D!Misreads = Misreads /\ \A v : D!Returns(v) = Returns(v)
  BY SameValues DEF D!Refuses, Refuses, D!Misreads, Misreads, D!Returns, Returns
<1>4. \A name, this, args : D!NativeResult(name, this, args) = NativeResult(name, this, args)
  <2>1. \A this, other : D!StringPlus(this, other) = StringPlus(this, other)
    BY <1>2, <1>3, SameValues DEF D!StringPlus, StringPlus
  <2>2. \A this, other : D!StringEqual(this, other) = StringEqual(this, other)
    BY <1>2, <1>3, SameValues DEF D!StringEqual, StringEqual
  <2>3. \A this, other : D!ClosureEqual(this, other) = ClosureEqual(this, other)
    BY <1>2, <1>3, SameValues DEF D!ClosureEqual, ClosureEqual
  <2>4. \A args : D!StringCall(args) = StringCall(args)
    BY <1>2, <1>3, SameValues DEF D!StringCall, StringCall
  <2>5. \A args : D!ClosureCall(args) = ClosureCall(args)
    BY <1>2, <1>3, SameValues DEF D!ClosureCall, ClosureCall
  <2>6. \A args : D!ClockNative(args) = ClockNative(args)
    BY <1>3, SameValues DEF D!ClockNative, ClockNative
  <2>7. \A args : D!SrandNative(args) = SrandNative(args)
    BY <1>3, SameValues DEF D!SrandNative, SrandNative
  <2>8. \A name, this : D!Prints(name, this) = Prints(name, this)
    BY <1>3, SameValues DEF D!Prints, Prints
  <2>9. D!ClassEqual = ClassEqual
    BY <1>3 DEF D!ClassEqual, ClassEqual
  <2>10. QED
    BY <2>1, <2>2, <2>3, <2>4, <2>5, <2>6, <2>7, <2>8, <2>9
       DEF D!NativeResult, NativeResult
<1>5. \A v : D!IsObject(v) <=> IsObject(v)
  BY DEF D!IsObject, IsObject
<1>6. \A f : (D!HasThis(f) <=> HasThis(f)) /\ (D!IsInitializer(f) <=> IsInitializer(f))
  BY DEF D!HasThis, HasThis, D!IsInitializer, IsInitializer
<1>7. QED
  BY <1>1, <1>4, <1>5, <1>6

LEMMA FindsOperation ==
  ASSUME FullInv, NEW s \in Slots
  PROVE  /\ \A c \in Made : D!FindOperation(c, s) = classes[c].operations[s]
         /\ \A c : c \notin UserClasses =>
              D!FindOperation(c, s) = BuiltinOperations(c)[s]
<1> DEFINE step(find, d) ==
             IF graph[d].operations[s] # D!Null THEN graph[d].operations[s]
             ELSE IF graph[d].parent \in UserClasses THEN find[graph[d].parent]
             ELSE D!BuiltinOperations(D!BuiltinParent(d))[s]
           IsFind(find) == find = [d \in UserClasses |-> step(find, d)]
           found == CHOOSE find : IsFind(find)
           copied == [d \in UserClasses |->
             IF graph[d].made THEN classes[d].operations[s]
             ELSE BuiltinOperations("instance")[s]]
<1>1. \A c : D!FindOperation(c, s)
               = IF c \in UserClasses THEN found[c] ELSE BuiltinOperations(c)[s]
  <2>1. TAKE c
  <2>2. D!FindOperation(c, s)
          = IF c \in UserClasses THEN found[c] ELSE D!BuiltinOperations(c)[s]
    BY DEF D!FindOperation
  <2> HIDE DEF found
  <2>3. QED
    BY <2>2, SameNatives
<1>2. IsFind(copied)
  <2>1. ASSUME NEW d \in UserClasses PROVE copied[d] = step(copied, d)
    <3>1. CASE graph[d].made
      <4>1. graph[d].parent \in UserClasses => graph[graph[d].parent].made
        BY DEF FullInv, IInv, GraphInv
      <4>2. classes[d].operations[s] = NearestOperation(graph, classes, d, s)
        BY <3>1 DEF FullInv, DispatchInv, OperationsAreNearest, Made
      <4>3. D!Null = Null /\ \A b : D!BuiltinOperations(b) = BuiltinOperations(b)
        BY SameValues, SameNatives
      <4>4. QED
        BY <3>1, <4>1, <4>2, <4>3 DEF NearestOperation, D!BuiltinParent
    <3>2. CASE ~ graph[d].made
      <4>1. graph[d] = Unmade
        BY <3>2 DEF FullInv, DispatchInv
      <4>2. graph[d].operations[s] = Null /\ graph[d].parent = ""
        <5>1. NoOperations[s] = Null
          BY DEF NoOperations
        <5>2. Unmade.operations = NoOperations /\ Unmade.parent = ""
          BY Zenon DEF Unmade
        <5>3. QED
          BY <4>1, <5>1, <5>2, Zenon
      <4>3. /\ D!Null = Null
            /\ D!BuiltinOperations(D!BuiltinParent(d)) = BuiltinOperations("instance")
        BY <4>2, SameValues, SameNatives DEF D!BuiltinParent
      <4>4. graph[d].operations[s] = Null /\ graph[d].parent \notin UserClasses
        BY <3>2, <4>2 DEF FullInv, IInv, GraphInv
      <4>5. QED
        BY <3>2, <4>3, <4>4
    <3>3. QED
      BY <3>1, <3>2
  <2>2. [d \in UserClasses |-> copied[d]] = [d \in UserClasses |-> step(copied, d)]
    BY <2>1
  <2>3. [d \in UserClasses |-> copied[d]] = copied
    OBVIOUS
  <2>4. QED
    BY <2>2, <2>3
<1>3. IsFind(found)
  BY <1>2
<1> HIDE DEF found
<1>4. \A d \in UserClasses : found[d] = step(found, d) /\ copied[d] = step(copied, d)
  BY <1>2, <1>3
<1>5. \A c \in Made : copied[c] = classes[c].operations[s] /\ c \in UserClasses
  BY DEF Made
<1> HIDE DEF copied
<1>6. \A d \in UserClasses : found[d] = copied[d]
  <2>1. \A d \in UserClasses :
          (graph[d].parent \in UserClasses
             => found[graph[d].parent] = copied[graph[d].parent])
          => found[d] = copied[d]
    BY <1>4
  <2>2. SuperclassesEnd
    BY DEF FullInv, DispatchInv
  <2> HIDE DEF step, IsFind
  <2>3. QED
    BY <2>1, <2>2, AlongSuperclasses
<1>7. QED
  BY <1>1, <1>5, <1>6

(* Wherever a native is inherited from, it is at its own slot.             *)
LEMMA BuiltinSlots ==
  ASSUME NEW b \in {"instance", "string", "closure"}, NEW s \in Slots
  PROVE  LET o == BuiltinOperations(b)[s] IN
         /\ s # "call" => o # Native("closure call")
         /\ s = "call" => o \in {Null, Native("closure call")}
  BY DEF BuiltinOperations, CallOfMeta, NoOperations, Slots, Native, Null

LEMMA InheritedSlots ==
  ASSUME FullInv, NEW c \in Made, NEW s \in Slots
  PROVE  LET o == classes[c].operations[s] IN
         /\ s # "call" => o # Native("closure call")
         /\ s = "call" => o \in Closures(Made) \cup {Null, Native("closure call")}
<1> DEFINE InPlace(o) ==
             /\ s # "call" => o # Native("closure call")
             /\ s = "call" => o \in Closures(Made) \cup {Null, Native("closure call")}
           S == {d \in Made : ~ InPlace(classes[d].operations[s])}
<1>1. SUFFICES ASSUME S # {} PROVE FALSE
  OBVIOUS
<1>2. PICK d \in S : graph[d].parent \notin S
  <2>1. S \subseteq UserClasses
    BY DEF Made
  <2>2. QED
    BY <1>1, <2>1 DEF FullInv, DispatchInv, SuperclassesEnd
<1>3. d \in Made /\ d \in UserClasses /\ ~ InPlace(classes[d].operations[s])
  BY <1>2 DEF Made
<1>4. classes[d].operations[s] = NearestOperation(graph, classes, d, s)
  BY <1>3 DEF FullInv, DispatchInv, OperationsAreNearest
<1>5. \A b \in {"instance", "string", "closure"} : InPlace(BuiltinOperations(b)[s])
  BY BuiltinSlots
<1>6. graph[d].operations[s] \in Closures(Made) \cup {Null} /\ graph[d].parent \in Parents
  BY <1>3 DEF FullInv, IInv, GraphInv, Declarations
<1>7. \A f \in Closures(Made) : InPlace(f)
  BY Kinds
<1>8. graph[d].parent \in UserClasses => graph[d].parent \in Made
  BY <1>3 DEF FullInv, IInv, GraphInv, Made
<1> HIDE DEF InPlace
<1>9. QED
  BY <1>2, <1>3, <1>4, <1>5, <1>6, <1>7, <1>8 DEF NearestOperation, Parents

(***************************************************************************)
(* Declarations keep what looking up needs                                 *)
(***************************************************************************)
TablesInv ==
  /\ \A c \in UserClasses : ~graph[c].made => graph[c] = Unmade
  /\ \A c \in Made : classes[c].type = graph[c].type
                     /\ classes[c].conversions = graph[c].conversions
  /\ SuperclassesEnd
  /\ OperationsAreNearest

LEMMA SameTables ==
  ASSUME DispatchInv, UNCHANGED <<classes, graph>>
  PROVE  TablesInv'
  BY DEF DispatchInv, TablesInv, SuperclassesEnd, OperationsAreNearest, Made

(* One class changes, and it is nobody's superclass.                       *)
LEMMA OneClassChanges ==
  ASSUME IInv, DispatchInv, NEW d \in UserClasses,
         \A c \in UserClasses : graph[c].parent # d,
         \A c \in UserClasses \ {d} :
           graph'[c] = graph[c] /\ classes'[c] = classes[c],
         graph'[d].made, graph'[d].parent # d,
         classes'[d].type = graph'[d].type,
         classes'[d].conversions = graph'[d].conversions,
         \A s \in Slots :
           classes'[d].operations[s] = NearestOperation(graph', classes', d, s)
  PROVE  TablesInv'
<1>1. \A c \in UserClasses : ~graph'[c].made => graph'[c] = Unmade
  BY DEF DispatchInv
<1>2. \A c \in Made' : c = d \/ (c \in Made /\ c # d /\ c \in UserClasses)
  BY DEF Made
<1>3. \A c \in Made' : classes'[c].type = graph'[c].type
                        /\ classes'[c].conversions = graph'[c].conversions
  BY <1>2 DEF DispatchInv
<1>4. SuperclassesEnd'
  <2>1. SUFFICES ASSUME NEW S \in SUBSET UserClasses, S # {}
                 PROVE  \E c \in S : graph'[c].parent \notin S
    BY DEF SuperclassesEnd
  <2>2. CASE S = {d}
    BY <2>2
  <2>3. CASE S # {d}
    <3>1. S \ {d} \in SUBSET UserClasses /\ S \ {d} # {}
      BY <2>1, <2>3
    <3>2. PICK c \in S \ {d} : graph[c].parent \notin S \ {d}
      BY <3>1 DEF DispatchInv, SuperclassesEnd
    <3>3. graph'[c].parent = graph[c].parent /\ graph[c].parent # d
      BY <3>2
    <3>4. QED
      BY <3>2, <3>3
  <2>4. QED
    BY <2>2, <2>3
<1>5. OperationsAreNearest'
  <2>1. SUFFICES ASSUME NEW c \in Made', NEW s \in Slots
                 PROVE  classes'[c].operations[s] = NearestOperation(graph', classes', c, s)
    BY DEF OperationsAreNearest
  <2>2. CASE c = d
    BY <2>2
  <2>3. CASE c \in Made /\ c # d /\ c \in UserClasses
    <3>1. classes[c].operations[s] = NearestOperation(graph, classes, c, s)
      BY <2>3 DEF DispatchInv, OperationsAreNearest
    <3>2. graph'[c] = graph[c] /\ classes'[c] = classes[c] /\ graph[c].parent # d
      BY <2>3
    <3>3. NearestOperation(graph', classes', c, s) = NearestOperation(graph, classes, c, s)
      BY <3>2 DEF NearestOperation
    <3>4. QED
      BY <3>1, <3>2, <3>3
  <2>4. QED
    BY <1>2, <2>2, <2>3
<1>6. QED
  BY <1>1, <1>3, <1>4, <1>5 DEF TablesInv

(***************************************************************************)
(* The activations                                                         *)
(***************************************************************************)
ActivationOf(s, fs, i, declaring) ==
  LET f == fs[i].function
  IN  [function |-> f, this |-> s[fs[i].slots + 1],
       args |-> SubSeq(s, fs[i].slots + 2, fs[i].slots + 1 + f.arity),
       operands |-> IF declaring THEN << >>
                    ELSE SubSeq(s, fs[i].slots + 2 + f.arity, EndOf(s, fs, i))]

ActivationsOf(s, fs, declaring) ==
  [i \in DOMAIN fs |-> ActivationOf(s, fs, i, declaring)]

LEMMA ShownActivations ==
  /\ status = "running" =>
       RunningActivations = ActivationsOf(stack, frames, decls # << >>)
  /\ status' = "running" =>
       RunningActivations' = ActivationsOf(stack', frames', decls' # << >>)
  /\ status' # "running" => RunningActivations' = << >>
  /\ RunningObjects = IF status = "running" THEN heap ELSE << >>
  /\ RunningObjects' = IF status' = "running" THEN heap' ELSE << >>
  BY DEF RunningActivations, RunningObjects, Activations, ActivationsOf, ActivationOf,
         OperandsOf, ArgumentsOf, End, EndOf

(* The script, before it has evaluated anything.                           *)
Fresh == [function |-> Script, this |-> Script, args |-> << >>, operands |-> << >>]

LEMMA OneActivation ==
  ASSUME NEW S, NEW s \in Seq(S), NEW fs, DOMAIN fs = {1}, Len(fs) = 1,
         fs[1].function = Script, fs[1].slots = 0, s[1] = Script,
         NEW declaring \in BOOLEAN, declaring \/ s = <<Script>>
  PROVE  ActivationsOf(s, fs, declaring) = <<Fresh>>
<1>1. Script.arity = 0
  BY ScriptType
<1>2. SubSeq(s, 2, 1) = << >>
  OBVIOUS
<1>3. ~ declaring => SubSeq(s, 2, Len(s)) = << >>
  <2>1. Len(<<Script>>) = 1
    OBVIOUS
  <2>2. QED
    BY <1>2, <2>1
<1>4. Len(fs) = 1
  OBVIOUS
<1>5. EndOf(s, fs, 1) = Len(s)
  BY <1>4 DEF EndOf
<1>6. ActivationOf(s, fs, 1, declaring) = Fresh
  BY <1>1, <1>2, <1>3, <1>5 DEF ActivationOf, Fresh
<1>7. DOMAIN fs = 1 .. 1
  OBVIOUS
<1>8. ActivationsOf(s, fs, declaring) = [i \in 1 .. 1 |-> Fresh]
  BY <1>6, <1>7 DEF ActivationsOf
<1>9. [i \in 1 .. 1 |-> Fresh] = <<Fresh>>
  OBVIOUS
<1>10. QED
  BY <1>8, <1>9

LEMMA ScriptIsBelow ==
  ASSUME IInv, status = "running", decls # << >>
  PROVE  stack[1] = Script /\ Len(stack) \in Nat \ {0}
<1> DEFINE super == Declared.super
           class == Class(Declared.class)
<1>1. stage \in {"class", "inherit", "get", "members"}
  BY DEF IInv, ValuesInv
<1>2. /\ stage \in {"class", "inherit"} => stack = <<Script>>
      /\ stage = "get" => stack = BelowTheClass
      /\ stage = "members" => stack = Append(BelowTheClass, class)
  BY DEF IInv, DeclarationInv
<1>3. BelowTheClass = <<Script>> \/ BelowTheClass = <<Script, super>>
  BY DEF BelowTheClass
<1> HIDE DEF super, class
<1>4. \/ stack = <<Script>> \/ stack = <<Script, super>>
      \/ stack = <<Script, class>> \/ stack = <<Script, super, class>>
  <2>1. /\ Append(<<Script>>, class) = <<Script, class>>
        /\ Append(<<Script, super>>, class) = <<Script, super, class>>
    BY AppendToOne, AppendToTwo
  <2>2. QED
    BY <1>1, <1>2, <1>3, <2>1
<1>5. QED
  BY <1>4

(* While classes are declared, the script has evaluated nothing.           *)
LEMMA StaysFresh ==
  ASSUME IInv, IInv', status = "running", decls # << >>,
         UNCHANGED <<frames, heap, status>>, stack'[1] = stack[1],
         decls' # << >> \/ stack' = <<Script>>
  PROVE  UNCHANGED <<RunningActivations, RunningObjects, status>>
<1>1. /\ Len(frames) = 1 /\ DOMAIN frames = {1} /\ frames[1].function = Script
      /\ frames[1].slots = 0 /\ stack[1] = Script
  BY Declaring, ScriptIsBelow
<1>2. /\ stack \in Seq(Values(Made, Len(heap)))
      /\ stack' \in Seq(Values(Made', Len(heap')))
  BY DEF IInv, ValuesInv
<1>3. ActivationsOf(stack, frames, decls # << >>) = <<Fresh>>
  BY <1>1, <1>2, OneActivation
<1>4. ActivationsOf(stack', frames', decls' # << >>) = <<Fresh>>
  BY <1>1, <1>2, OneActivation
<1>5. QED
  BY <1>3, <1>4, ShownActivations

LEMMA DispatchFollows ==
  ASSUME TablesInv',
         status' = "running" =>
           /\ stage' = "inherit" => graph'[Declared'.class].parent = ""
                                    /\ graph'[Declared'.class].operations = NoOperations
           /\ stage' \in {"get", "members"} =>
                graph'[Declared'.class].parent = DeclaredParent'
  PROVE  DispatchInv'
  BY Zenon DEF TablesInv, DispatchInv

(* A member is a closure whose "super" is the declared parent.             *)
LEMMA MembersParent ==
  ASSUME FullInv, status = "running", stage = "members"
  PROVE  D!Parent(Declared.class)
           = IF Declared.super = Absent THEN Null ELSE stack[Len(stack) - 1]
<1> DEFINE d == Declared.class
           super == Declared.super
<1>1. /\ super # Absent => stack[Len(stack) - 1] = super
      /\ super \in {Absent} \cup ClassValues(Made)
  BY InMembers DEF FullInv
<1>2. graph[d].parent = DeclaredParent
  BY DEF FullInv, DispatchInv
<1>3. CASE super = Absent
  <2>1. graph[d].parent = ""
    BY <1>2, <1>3, Zenon DEF DeclaredParent
  <2>2. D!Parent(d) = D!Null
    BY <2>1, Zenon DEF D!Parent
  <2>3. QED
    BY <1>3, <2>2, SameValues
<1>4. CASE super # Absent
  <2>1. PICK c \in Made \cup {"string", "closure"} : super = Class(c)
    BY <1>1, <1>4 DEF ClassValues
  <2>2. c # ""
    BY <2>1, CallsAssumption DEF Made
  <2>3. graph[d].parent = c
    BY <1>2, <1>4, <2>1, Kinds DEF DeclaredParent
  <2>4. D!Parent(d) = D!Class(c)
    BY <2>2, <2>3, Zenon DEF D!Parent
  <2>5. QED
    BY <1>1, <1>4, <2>1, <2>4, SameValues
<1>5. QED
  BY <1>3, <1>4

LEMMA MemberClosureIs ==
  ASSUME FullInv, status = "running", stage = "members"
  PROVE  \A kind, name, arity :
           MemberClosure(kind, name, arity)
             = D!Closure(kind, Declared.class, name, arity, D!Parent(Declared.class))
  BY MembersParent, SameValues DEF MemberClosure

(***************************************************************************)
(* Declarations do what DynamicDispatch says of them                       *)
(***************************************************************************)
LEMMA DeclaresNext ==
  ASSUME status = "running", D!Declaration
  PROVE  D!Next
  BY DEF D!Next

(* What a declaration that fails leaves behind.                            *)
LEMMA StopsShown ==
  ASSUME NEW how, status' = how, how # "running"
  PROVE  D!Stops(how)
  BY ShownActivations DEF D!Stops

LEMMA AbandonsDispatch ==
  ASSUME FullInv, NEW how \in {"error", "undefined"}, Abandons(how)
  PROVE  DispatchInv' /\ D!Stops(how) /\ UNCHANGED graph
<1>1. status' = how /\ UNCHANGED <<classes, graph>>
  BY DEF Abandons
<1>2. TablesInv'
  BY <1>1, SameTables DEF FullInv
<1>3. DispatchInv'
  BY <1>1, <1>2, DispatchFollows
<1>4. QED
  BY <1>1, <1>3, StopsShown

LEMMA OpClassDispatch ==
  ASSUME FullInv, status = "running", OpClass, UNCHANGED <<lines, values>>
  PROVE  DispatchInv' /\ D!Next
<1> DEFINE d == Declared.class
<1>1. /\ stage = "class" /\ decls # << >> /\ ~graph[d].made
      /\ classes' = [classes EXCEPT ![d] =
           [type |-> Declared.type, methods |-> InstanceMethods,
            operations |-> BuiltinOperations("instance"), conversions |-> {}]]
      /\ graph' = [graph EXCEPT ![d].made = TRUE, ![d].type = Declared.type]
      /\ stage' = IF Declared.super = Absent THEN "get" ELSE "inherit"
      /\ UNCHANGED <<stack, frames, heap, status, decls>>
  BY DEF OpClass
<1>2. IInv /\ IInv'
  BY OpClassKeeps DEF FullInv
<1>3. /\ d \in UserClasses /\ Declared.type \in Types /\ Declared' = Declared
  BY <1>1, <1>2, Declaring DEF Declared, ClassDeclarations
<1>4. graph[d] = Unmade /\ graph \in [UserClasses -> Declarations(Made)]
      /\ classes \in [UserClasses -> Tables(Made)]
  BY <1>1, <1>2, <1>3 DEF FullInv, DispatchInv, IInv, GraphInv, ValuesInv
<1>5. /\ \A c \in UserClasses \ {d} : graph'[c] = graph[c] /\ classes'[c] = classes[c]
      /\ graph'[d] = [graph[d] EXCEPT !.made = TRUE, !.type = Declared.type]
      /\ classes'[d].type = Declared.type /\ classes'[d].conversions = {}
      /\ classes'[d].operations = BuiltinOperations("instance")
  BY <1>1, <1>3, <1>4 DEF Declarations
<1>6. /\ graph'[d].made /\ graph'[d].type = Declared.type
      /\ graph'[d].parent = graph[d].parent
      /\ graph'[d].operations = graph[d].operations
      /\ graph'[d].conversions = graph[d].conversions
  BY <1>3, <1>4, <1>5 DEF Declarations
<1>7. /\ graph[d].parent = "" /\ graph[d].operations = NoOperations
      /\ graph[d].conversions = {}
  <2>1. /\ Unmade.parent = "" /\ Unmade.operations = NoOperations
        /\ Unmade.conversions = {}
    BY Zenon DEF Unmade
  <2>2. QED
    BY <1>4, <2>1, Zenon
<1>8. \A c \in UserClasses : graph[c].parent # d
  BY <1>1, <1>2, <1>3 DEF IInv, GraphInv
<1>9. TablesInv'
  <2>1. ASSUME NEW s \in Slots
        PROVE  classes'[d].operations[s] = NearestOperation(graph', classes', d, s)
    <3>1. graph'[d].operations[s] = Null
      BY <1>6, <1>7 DEF NoOperations
    <3>2. graph'[d].parent \notin UserClasses
      BY <1>6, <1>3, <1>8, <1>2, <1>1 DEF IInv, GraphInv
    <3>3. graph'[d].parent = ""
      BY <1>6, <1>7, Zenon
    <3>4. NearestOperation(graph', classes', d, s) = BuiltinOperations("instance")[s]
      BY <3>1, <3>2, <3>3 DEF NearestOperation
    <3>5. QED
      BY <1>5, <3>4
  <2>2. graph'[d].parent # d
    BY <1>3, <1>6, <1>8
  <2>3. classes'[d].conversions = graph'[d].conversions
    BY <1>5, <1>6, <1>7
  <2>4. IInv /\ DispatchInv
    BY DEF FullInv
  <2> HIDE DEF d
  <2>5. QED
    BY <1>3, <1>5, <1>6, <1>8, <2>1, <2>2, <2>3, <2>4, OneClassChanges
<1>10. DispatchInv'
  <2>1. graph'[d].parent = "" /\ graph'[d].operations = NoOperations
    BY <1>6, <1>7, Zenon
  <2>2. stage' = "get" => Declared.super = Absent
    BY <1>1
  <2>3. stage' \in {"get", "members"} => graph'[Declared'.class].parent = DeclaredParent'
    BY <1>1, <1>3, <2>1, <2>2, Zenon DEF DeclaredParent
  <2>4. QED
    BY <1>3, <1>9, <2>1, <2>3, DispatchFollows, Zenon
<1>11. UNCHANGED <<RunningActivations, RunningObjects, status>>
  <2>1. decls' # << >> /\ stack'[1] = stack[1]
    BY <1>1
  <2>2. QED
    BY <1>1, <1>2, <2>1, StaysFresh
<1>12. D!DeclareClass(d, Declared.type)
  BY <1>1, <1>11 DEF D!DeclareClass
<1>13. D!Next
  BY <1>3, <1>12, DeclaresNext DEF D!Declaration
<1>14. QED
  BY <1>10, <1>13

LEMMA OpInheritDispatch ==
  ASSUME FullInv, status = "running", OpInherit, UNCHANGED <<lines, values>>
  PROVE  DispatchInv' /\ D!Next
<1> DEFINE d == Declared.class
           super == Declared.super
           s == super.class
<1>1. stage = "inherit" /\ IInv /\ IInv'
  BY OpInheritKeeps DEF OpInherit, FullInv
<1>2. /\ decls # << >> /\ graph[d].made /\ super # Absent /\ stack = <<Script>>
      /\ \A c \in UserClasses : graph[c].parent # d
      /\ super # Class(d)
  BY <1>1 DEF IInv, DeclarationInv, GraphInv
<1>3. d \in UserClasses /\ super \in Mentionable
  BY <1>1, <1>2, Declaring
<1>4. D!Unknown(super) <=> Undeclared(super)
  BY DEF D!Unknown, Undeclared
<1>5. SUFFICES DispatchInv' /\ D!Inherit(d, super)
  BY <1>3, DeclaresNext DEF D!Declaration, Mentionable, D!Class, Class
<1>6. CASE Undeclared(super)
  <2>1. Abandons("error")
    BY <1>6 DEF OpInherit
  <2>2. DispatchInv' /\ D!Stops("error") /\ UNCHANGED graph
    BY <2>1, AbandonsDispatch
  <2>3. QED
    BY <1>4, <1>6, <2>2 DEF D!Inherit, D!Fails
<1>7. CASE super.k # "class"
  <2>1. ~ Undeclared(super)
    BY <1>7 DEF Undeclared
  <2>2. Abandons(IF IsObject(super) THEN "error" ELSE "undefined")
    BY <1>7, <2>1 DEF OpInherit
  <2>3. DispatchInv' /\ D!Stops(IF IsObject(super) THEN "error" ELSE "undefined")
        /\ UNCHANGED graph
    BY <2>2, AbandonsDispatch
  <2>4. IF IsObject(super) THEN D!Fails ELSE D!Hole
    BY <2>3 DEF D!Fails, D!Hole
  <2>5. D!IsObject(super) <=> IsObject(super)
    BY SameNatives
  <2>6. QED
    BY <1>4, <1>7, <2>1, <2>3, <2>4, <2>5 DEF D!Inherit
<1>8. CASE ~Undeclared(super) /\ super.k = "class"
  <2>1. /\ stack' = Append(stack, super)
        /\ classes' = [classes EXCEPT ![d].methods = InheritMethods(@, MethodsOf(s)),
                                      ![d].operations = TableOf(s)]
        /\ graph' = [graph EXCEPT ![d].parent = s]
        /\ stage' = "get"
        /\ UNCHANGED <<frames, heap, status, decls>>
    BY <1>8 DEF OpInherit
  <2>2. super = Class(s) /\ s \in Made \cup {"string", "closure"}
    BY <1>1, <1>2, <1>8, InheritsFrom
  <2>3. s # d /\ s # ""
    BY <1>2, <2>2, CallsAssumption DEF Made
  <2>4. /\ graph \in [UserClasses -> Declarations(Made)]
        /\ classes \in [UserClasses -> Tables(Made)]
    BY <1>1 DEF IInv, GraphInv, ValuesInv
  <2>5. /\ \A c \in UserClasses \ {d} : graph'[c] = graph[c] /\ classes'[c] = classes[c]
        /\ graph'[d] = [graph[d] EXCEPT !.parent = s]
        /\ classes'[d].type = classes[d].type
        /\ classes'[d].conversions = classes[d].conversions
        /\ classes'[d].operations = TableOf(s)
    BY <1>3, <2>1, <2>4 DEF Tables
  <2>6. /\ graph'[d].made = graph[d].made /\ graph'[d].type = graph[d].type
        /\ graph'[d].parent = s
        /\ graph'[d].operations = graph[d].operations
        /\ graph'[d].conversions = graph[d].conversions
    BY <1>3, <2>4, <2>5 DEF Declarations
  <2>7. /\ graph[d].operations = NoOperations
        /\ classes[d].type = graph[d].type
        /\ classes[d].conversions = graph[d].conversions
    BY <1>1, <1>2, <1>3 DEF FullInv, DispatchInv, Made
  <2>8. ASSUME NEW slot \in Slots
        PROVE  classes'[d].operations[slot] = NearestOperation(graph', classes', d, slot)
    <3>1. graph'[d].operations[slot] = Null
      BY <2>6, <2>7 DEF NoOperations
    <3>2. s \in UserClasses => classes'[s] = classes[s]
      BY <2>3, <2>5
    <3>3. QED
      BY <2>3, <2>5, <2>6, <3>1, <3>2 DEF NearestOperation, TableOf
  <2>9. TablesInv'
    <3>1. IInv /\ DispatchInv
      BY DEF FullInv
    <3> HIDE DEF d, s, super
    <3>2. QED
      BY <1>2, <1>3, <2>3, <2>5, <2>6, <2>7, <2>8, <3>1, OneClassChanges
  <2>10. Declared' = Declared
    BY <2>1 DEF Declared
  <2>11. DispatchInv'
    <3>1. DeclaredParent' = s
      BY <1>2, <2>10 DEF DeclaredParent
    <3>2. QED
      BY <2>1, <2>6, <2>9, <2>10, <3>1, DispatchFollows
  <2>12. UNCHANGED <<RunningActivations, RunningObjects, status>>
    <3>1. decls' # << >> /\ stack'[1] = stack[1]
      <4>1. stack' = <<Script, super>>
        BY <1>2, <2>1, AppendToOne
      <4>2. QED
        BY <1>2, <2>1, <4>1
    <3>2. QED
      BY <1>1, <1>2, <2>1, <3>1, StaysFresh
  <2>13. QED
    BY <1>4, <1>8, <2>1, <2>11, <2>12 DEF D!Inherit
<1>9. QED
  BY <1>6, <1>7, <1>8
LEMMA GetClassDispatch ==
  ASSUME FullInv, status = "running", GetClass, UNCHANGED <<lines, values>>
  PROVE  /\ DispatchInv'
         /\ UNCHANGED <<RunningActivations, RunningObjects, graph, status>>
<1>1. /\ stage = "get" /\ stack' = Append(stack, Class(Declared.class))
      /\ stage' = "members"
      /\ UNCHANGED <<frames, heap, classes, graph, status, decls>>
  BY DEF GetClass
<1>2. IInv /\ IInv' /\ DispatchInv
  BY GetClassKeeps DEF FullInv
<1>3. decls # << >>
  BY <1>1, <1>2 DEF IInv, DeclarationInv
<1>4. DispatchInv'
  <2>1. TablesInv'
    BY <1>1, <1>2, SameTables
  <2>2. Declared' = Declared
    BY <1>1 DEF Declared
  <2>3. graph[Declared.class].parent = DeclaredParent /\ DeclaredParent' = DeclaredParent
    BY <1>1, <1>2, <2>2 DEF DispatchInv, DeclaredParent
  <2>4. QED
    BY <1>1, <2>1, <2>2, <2>3, DispatchFollows
<1>5. stack'[1] = stack[1]
  <2>1. stack[1] = Script /\ Len(stack) \in Nat \ {0} /\ IInv'
    BY <1>2, <1>3, ScriptIsBelow
  <2>2. stack'[1] = Script
    BY <1>1, <1>2, <1>3, ScriptIsBelow
  <2>3. QED
    BY <2>1, <2>2
<1>6. QED
  BY <1>1, <1>2, <1>3, <1>4, <1>5, StaysFresh

LEMMA EndClassDispatch ==
  ASSUME FullInv, status = "running", EndClass, UNCHANGED <<lines, values>>
  PROVE  /\ DispatchInv'
         /\ UNCHANGED <<RunningActivations, RunningObjects, graph, status>>
<1>1. /\ stage = "members" /\ stage' = "class"
      /\ UNCHANGED <<frames, heap, classes, graph, status>>
  BY DEF EndClass
<1>2. IInv /\ IInv' /\ DispatchInv /\ stack' = <<Script>>
  BY EndClassKeeps, ClassPopped DEF FullInv
<1>3. decls # << >>
  BY <1>1, <1>2 DEF IInv, DeclarationInv
<1>4. TablesInv'
  BY <1>1, <1>2, SameTables
<1>5. DispatchInv'
  BY <1>1, <1>4, DispatchFollows
<1>6. stack'[1] = stack[1]
  BY <1>2, <1>3, ScriptIsBelow
<1>7. QED
  BY <1>1, <1>2, <1>3, <1>5, <1>6, StaysFresh

(* A member leaves everything else of its class.                           *)
LEMMA MemberDispatch ==
  ASSUME FullInv, IInv', status = "running", stage = "members",
         Declared.members # << >>, NextMember,
         UNCHANGED <<stack, frames, heap, status, stage>>,
         \A c \in UserClasses \ {Declared.class} :
           graph'[c] = graph[c] /\ classes'[c] = classes[c],
         graph'[Declared.class].made,
         graph'[Declared.class].parent = graph[Declared.class].parent,
         classes'[Declared.class].type = graph'[Declared.class].type,
         classes'[Declared.class].conversions = graph'[Declared.class].conversions,
         \A s \in Slots : classes'[Declared.class].operations[s]
           = NearestOperation(graph', classes', Declared.class, s)
  PROVE  DispatchInv' /\ UNCHANGED <<RunningActivations, RunningObjects, status>>
<1>1. IInv /\ DispatchInv
  BY DEF FullInv
<1>2. decls # << >> /\ Declared.class \in UserClasses
  BY <1>1, InMembers
<1>3. /\ decls' # << >>
      /\ Declared'.class = Declared.class /\ Declared'.super = Declared.super
  BY <1>1, <1>2, NextMemberType
<1>4. \A c \in UserClasses : graph[c].parent # Declared.class
  BY <1>1 DEF IInv, GraphInv
<1>5. TablesInv'
  <2>1. graph'[Declared.class].parent # Declared.class
    BY <1>2, <1>4
  <2>2. QED
    BY <1>1, <1>2, <1>4, <2>1, OneClassChanges
<1>6. DispatchInv'
  <2>1. graph[Declared.class].parent = DeclaredParent
    BY <1>1 DEF DispatchInv
  <2>2. DeclaredParent' = DeclaredParent
    BY <1>3, Zenon DEF DeclaredParent
  <2>3. QED
    BY <1>3, <1>5, <2>1, <2>2, DispatchFollows
<1>7. QED
  BY <1>1, <1>2, <1>3, <1>6, StaysFresh

LEMMA OperationsStayNearest ==
  ASSUME FullInv, status = "running", stage = "members",
         classes'[Declared.class].operations = classes[Declared.class].operations,
         graph'[Declared.class].operations = graph[Declared.class].operations,
         graph'[Declared.class].parent = graph[Declared.class].parent,
         \A c \in UserClasses \ {Declared.class} : classes'[c] = classes[c],
         NEW s \in Slots
  PROVE  classes'[Declared.class].operations[s]
           = NearestOperation(graph', classes', Declared.class, s)
<1> DEFINE d == Declared.class
<1>1. /\ classes[d].operations[s] = NearestOperation(graph, classes, d, s)
      /\ graph[d].parent # d
  BY InMembers DEF FullInv, IInv, GraphInv, DispatchInv, OperationsAreNearest, Made
<1> HIDE DEF d
<1>2. graph[d].parent \in UserClasses => classes'[graph[d].parent] = classes[graph[d].parent]
  BY <1>1 DEF d
<1>3. NearestOperation(graph', classes', d, s) = NearestOperation(graph, classes, d, s)
  BY <1>2 DEF NearestOperation, d
<1>4. QED
  BY <1>1, <1>3 DEF d

LEMMA OpMethodDispatch ==
  ASSUME FullInv, status = "running", OpMethod, UNCHANGED <<lines, values>>
  PROVE  DispatchInv' /\ D!Next
<1> DEFINE d == Declared.class
           n == Member.name
           method == MemberClosure("method", n, Member.arity)
<1>1. /\ stage = "members" /\ Declared.members # << >> /\ Member.kind = "method"
      /\ classes' = [classes EXCEPT ![stack[Len(stack)].class].methods[n] = method]
      /\ graph' = [graph EXCEPT ![d].methods[n] = method]
      /\ NextMember
      /\ UNCHANGED <<stack, frames, heap, status, stage>>
  BY DEF OpMethod
<1>2. IInv /\ IInv'
  BY OpMethodKeeps DEF FullInv
<1>3. d \in UserClasses /\ graph[d].made /\ stack[Len(stack)].class = d /\ decls # << >>
  BY <1>1, <1>2, InMembers
<1>4. n \in Names /\ Member.arity \in Arities
  <2>1. Member \in Members
    BY <1>1, <1>2, <1>3, NextMemberType
  <2>2. QED
    BY <1>1, <2>1 DEF Members
<1>5. /\ graph \in [UserClasses -> Declarations(Made)]
      /\ classes \in [UserClasses -> Tables(Made)]
  BY <1>2 DEF IInv, GraphInv, ValuesInv
<1>6. method = D!Closure("method", d, n, Member.arity, D!Parent(d))
  BY <1>1, MemberClosureIs
<1> HIDE DEF method
<1>7. /\ \A c \in UserClasses \ {d} : graph'[c] = graph[c] /\ classes'[c] = classes[c]
      /\ classes'[d].type = classes[d].type
      /\ classes'[d].conversions = classes[d].conversions
      /\ classes'[d].operations = classes[d].operations
  BY <1>1, <1>3, <1>5 DEF Tables
<1>8. /\ graph'[d].made /\ graph'[d].type = graph[d].type
      /\ graph'[d].parent = graph[d].parent
      /\ graph'[d].operations = graph[d].operations
      /\ graph'[d].conversions = graph[d].conversions
  BY <1>1, <1>3, <1>5 DEF Declarations
<1>9. classes[d].type = graph[d].type /\ classes[d].conversions = graph[d].conversions
  BY <1>3 DEF FullInv, DispatchInv, Made
<1>10. \A s \in Slots :
         classes'[d].operations[s] = NearestOperation(graph', classes', d, s)
  BY <1>1, <1>7, <1>8, OperationsStayNearest
<1>11. DispatchInv' /\ UNCHANGED <<RunningActivations, RunningObjects, status>>
  BY <1>1, <1>2, <1>7, <1>8, <1>9, <1>10, MemberDispatch
<1>12. D!Define(d, n, Member.arity)
  BY <1>1, <1>6, <1>11 DEF D!Define
<1>13. D!Next
  BY <1>3, <1>4, <1>12, DeclaresNext DEF D!Declaration
<1>14. QED
  BY <1>11, <1>13

LEMMA OpSpecialMethodDispatch ==
  ASSUME FullInv, status = "running", OpSpecialMethod, UNCHANGED <<lines, values>>
  PROVE  DispatchInv' /\ D!Next
<1> DEFINE d == Declared.class
           slot == SlotOf(Member.name, Member.arity)
           kind == IF slot = "ctor" THEN "ctor" ELSE "operator"
           method == MemberClosure(kind, slot, Member.arity)
<1>1. /\ stage = "members" /\ Declared.members # << >> /\ Member.kind = "operator"
      /\ classes' = [classes EXCEPT ![stack[Len(stack)].class].operations[slot] = method]
      /\ graph' = [graph EXCEPT ![d].operations[slot] = method]
      /\ NextMember
      /\ UNCHANGED <<stack, frames, heap, status, stage>>
  BY DEF OpSpecialMethod
<1>2. IInv /\ IInv'
  BY OpSpecialMethodKeeps DEF FullInv
<1>3. d \in UserClasses /\ graph[d].made /\ stack[Len(stack)].class = d /\ decls # << >>
  BY <1>1, <1>2, InMembers
<1>4. slot \in Slots /\ Member.arity \in Arities
  <2>1. Member \in Members
    BY <1>1, <1>2, <1>3, NextMemberType
  <2>2. Member.name \in OperatorTokens /\ Member.arity \in Arities
    BY <1>1, <2>1 DEF Members
  <2>3. QED
    BY <2>2, SlotsOfTokens, ArityIsNat
<1>5. /\ graph \in [UserClasses -> Declarations(Made)]
      /\ classes \in [UserClasses -> Tables(Made)]
  BY <1>2 DEF IInv, GraphInv, ValuesInv
<1>6. method = D!Closure(kind, d, slot, Member.arity, D!Parent(d)) /\ method.k = "closure"
  <2>1. method = D!Closure(kind, d, slot, Member.arity, D!Parent(d))
    BY <1>1, MemberClosureIs
  <2>2. method.k = "closure"
    BY DEF MemberClosure, Closure
  <2>3. QED
    BY <2>1, <2>2
<1> HIDE DEF method, slot
<1>7. /\ \A c \in UserClasses \ {d} : graph'[c] = graph[c] /\ classes'[c] = classes[c]
      /\ classes'[d].type = classes[d].type
      /\ classes'[d].conversions = classes[d].conversions
      /\ classes'[d].operations = [classes[d].operations EXCEPT ![slot] = method]
  BY <1>1, <1>3, <1>5 DEF Tables
<1>8. /\ graph'[d].made /\ graph'[d].type = graph[d].type
      /\ graph'[d].parent = graph[d].parent
      /\ graph'[d].operations = [graph[d].operations EXCEPT ![slot] = method]
      /\ graph'[d].conversions = graph[d].conversions
  BY <1>1, <1>3, <1>5 DEF Declarations
<1>9. classes[d].type = graph[d].type /\ classes[d].conversions = graph[d].conversions
  BY <1>3 DEF FullInv, DispatchInv, Made
<1>10. ASSUME NEW s \in Slots
       PROVE  classes'[d].operations[s] = NearestOperation(graph', classes', d, s)
  <2>1. s \in DOMAIN classes[d].operations /\ s \in DOMAIN graph[d].operations
    BY <1>3, <1>5 DEF Tables, OperationTables, Declarations
  <2>2. CASE s = slot
    <3>1. classes'[d].operations[s] = method /\ graph'[d].operations[s] = method
      BY <1>7, <1>8, <2>1, <2>2
    <3>2. method # Null
      BY <1>6, Kinds
    <3>3. QED
      BY <3>1, <3>2 DEF NearestOperation
  <2>3. CASE s # slot
    <3>1. /\ classes'[d].operations[s] = classes[d].operations[s]
          /\ graph'[d].operations[s] = graph[d].operations[s]
      BY <1>7, <1>8, <2>1, <2>3
    <3>2. /\ classes[d].operations[s] = NearestOperation(graph, classes, d, s)
          /\ graph[d].parent # d
      BY <1>1, <1>3 DEF FullInv, IInv, GraphInv, DispatchInv, OperationsAreNearest, Made
    <3>3. graph[d].parent \in UserClasses =>
            classes'[graph[d].parent] = classes[graph[d].parent]
      BY <1>7, <3>2
    <3>4. NearestOperation(graph', classes', d, s) = NearestOperation(graph, classes, d, s)
      BY <1>8, <3>1, <3>3 DEF NearestOperation
    <3>5. QED
      BY <3>1, <3>2, <3>4
  <2>4. QED
    BY <2>2, <2>3
<1>11. DispatchInv' /\ UNCHANGED <<RunningActivations, RunningObjects, status>>
  BY <1>1, <1>2, <1>7, <1>8, <1>9, <1>10, MemberDispatch
<1>12. D!Overload(d, slot, Member.arity)
  BY <1>1, <1>6, <1>11 DEF D!Overload
<1>13. D!Next
  BY <1>3, <1>4, <1>12, SameValues, DeclaresNext DEF D!Declaration
<1>14. QED
  BY <1>11, <1>13
LEMMA OpConvertMethodDispatch ==
  ASSUME FullInv, status = "running", OpConvertMethod, UNCHANGED <<lines, values>>
  PROVE  DispatchInv' /\ D!Next
<1> DEFINE d == Declared.class
           to == Member.to
           type == TypeOf(Machine, to)
           method == MemberClosure("convert", "", Member.arity)
           defined == D!Closure("convert", d, "", 0, D!Parent(d))
<1>1. stage = "members" /\ Declared.members # << >> /\ Member.kind = "convert"
  BY DEF OpConvertMethod
<1>2. IInv /\ IInv'
  BY OpConvertMethodKeeps DEF FullInv
<1>3. d \in UserClasses /\ graph[d].made /\ stack[Len(stack)].class = d /\ decls # << >>
  BY <1>1, <1>2, InMembers
<1>4. to \in Mentionable /\ Member.arity = 0
  <2>1. Declared.members \in Seq(Members)
    BY <1>2, <1>3, Declaring
  <2>2. Member \in Members
    BY <1>1, <2>1, HeadTailProperties DEF Member
  <2>3. QED
    BY <1>1, <2>2 DEF Members
<1>5. D!Unknown(to) <=> Undeclared(to)
  BY DEF D!Unknown, Undeclared
<1>6. SUFFICES DispatchInv' /\ D!DefineConversion(d, to)
  BY <1>3, <1>4, DeclaresNext DEF D!Declaration, Mentionable, D!Class, Class
<1>7. CASE to.k # "class" \/ Undeclared(to)
  <2>1. Abandons("error")
    BY <1>7 DEF OpConvertMethod
  <2>2. DispatchInv' /\ D!Stops("error") /\ UNCHANGED graph
    BY <2>1, AbandonsDispatch
  <2>3. QED
    BY <1>5, <1>7, <2>2 DEF D!DefineConversion, D!Fails
<1>8. CASE to.k = "class" /\ ~Undeclared(to)
  <2>1. /\ classes' = [classes EXCEPT ![stack[Len(stack)].class].conversions =
                         SetConversion(@, type, method)]
        /\ graph' = [graph EXCEPT ![d].conversions = SetConversion(@, type, method)]
        /\ NextMember
        /\ UNCHANGED <<stack, frames, heap, status, stage>>
    BY <1>8 DEF OpConvertMethod
  <2>2. method = defined
    <3>1. method = D!Closure("convert", d, "", Member.arity, D!Parent(d))
      BY <1>1, MemberClosureIs, Zenon
    <3>2. QED
      BY <1>4, <3>1, Zenon
  <2>3. type = D!TypeOf(to)
    <3>1. CASE to.class \in UserClasses
      <4>1. type = classes[to.class].type
        BY <1>8, <3>1 DEF TypeOf
      <4>2. D!TypeOf(to) = graph[to.class].type
        BY <1>8, <3>1 DEF D!TypeOf
      <4>3. to.class \in Made
        BY <1>8, <3>1 DEF Undeclared, Made
      <4>4. QED
        BY <4>1, <4>2, <4>3 DEF FullInv, DispatchInv
    <3>2. CASE to.class \notin UserClasses
      <4>1. type = BuiltinType(to.class)
        BY <1>8, <3>2 DEF TypeOf
      <4>2. D!TypeOf(to) = D!BuiltinType(to.class)
        BY <1>8, <3>2 DEF D!TypeOf
      <4>3. QED
        BY <4>1, <4>2, SameValues
    <3>3. QED
      BY <3>1, <3>2
  <2>4. /\ graph \in [UserClasses -> Declarations(Made)]
        /\ classes \in [UserClasses -> Tables(Made)]
    BY <1>2 DEF IInv, GraphInv, ValuesInv
  <2> HIDE DEF type, method, defined
  <2>5. /\ \A c \in UserClasses \ {d} : graph'[c] = graph[c] /\ classes'[c] = classes[c]
        /\ classes'[d].type = classes[d].type
        /\ classes'[d].operations = classes[d].operations
        /\ classes'[d].conversions = SetConversion(classes[d].conversions, type, method)
    BY <1>3, <2>1, <2>4 DEF Tables
  <2>6. /\ graph'[d].made /\ graph'[d].type = graph[d].type
        /\ graph'[d].parent = graph[d].parent
        /\ graph'[d].operations = graph[d].operations
        /\ graph'[d].conversions = SetConversion(graph[d].conversions, type, method)
    BY <1>3, <2>1, <2>4 DEF Declarations
  <2>7. classes[d].type = graph[d].type /\ classes[d].conversions = graph[d].conversions
    BY <1>3 DEF FullInv, DispatchInv, Made
  <2>8. \A s \in Slots :
          classes'[d].operations[s] = NearestOperation(graph', classes', d, s)
    BY <1>1, <2>5, <2>6, OperationsStayNearest
  <2>9. DispatchInv' /\ UNCHANGED <<RunningActivations, RunningObjects, status>>
    BY <1>1, <1>2, <2>1, <2>5, <2>6, <2>7, <2>8, MemberDispatch
  <2>10. graph' = [graph EXCEPT ![d].conversions =
                    {c \in @ : c.type # D!TypeOf(to)} \cup
                    {[type |-> D!TypeOf(to), method |-> defined]}]
    BY <2>1, <2>2, <2>3 DEF SetConversion
  <2>11. D!DefineConversion(d, to)
    <3>1. ~ (to.k # "class" \/ D!Unknown(to))
      BY <1>5, <1>8
    <3>2. UNCHANGED <<RunningActivations, RunningObjects, status>>
      BY <2>9
    <3>3. QED
      BY <3>1, <3>2, <2>10, Zenon DEF D!DefineConversion, defined
  <2>12. QED
    BY <2>9, <2>11
<1>9. QED
  BY <1>7, <1>8

LEMMA DeclarationDispatch ==
  ASSUME FullInv, status = "running", Declaration
  PROVE  /\ DispatchInv'
         /\ D!Next \/ UNCHANGED <<RunningActivations, RunningObjects, graph, status>>
<1>1. UNCHANGED <<lines, values>>
  BY DEF Declaration
<1>2. CASE OpClass
  BY <1>1, <1>2, OpClassDispatch
<1>3. CASE OpInherit
  BY <1>1, <1>3, OpInheritDispatch
<1>4. CASE GetClass
  BY <1>1, <1>4, GetClassDispatch
<1>5. CASE OpMethod
  BY <1>1, <1>5, OpMethodDispatch
<1>6. CASE OpSpecialMethod
  BY <1>1, <1>6, OpSpecialMethodDispatch
<1>7. CASE OpConvertMethod
  BY <1>1, <1>7, OpConvertMethodDispatch
<1>8. CASE EndClass
  BY <1>1, <1>8, EndClassDispatch
<1>9. QED
  BY <1>2, <1>3, <1>4, <1>5, <1>6, <1>7, <1>8 DEF Declaration

(***************************************************************************)
(* What a machine shows of the activations                                 *)
(***************************************************************************)
(* The activations once the classes are declared.                          *)
Evaluating(s, fs, i) ==
  LET f == fs[i].function
  IN  [function |-> f, this |-> s[fs[i].slots + 1],
       args |-> SubSeq(s, fs[i].slots + 2, fs[i].slots + 1 + f.arity),
       operands |-> SubSeq(s, fs[i].slots + 2 + f.arity, EndOf(s, fs, i))]

AllEvaluating(s, fs) == [i \in DOMAIN fs |-> Evaluating(s, fs, i)]

LEMMA EvaluatingActivations ==
  ASSUME decls = << >>
  PROVE  /\ status = "running" => RunningActivations = AllEvaluating(stack, frames)
         /\ status' = "running" /\ decls' = decls =>
              RunningActivations' = AllEvaluating(stack', frames')
  BY DEF RunningActivations, Activations, AllEvaluating, Evaluating, OperandsOf,
         ArgumentsOf, End, EndOf

(* The running activation with other operands.                             *)
ActivationWith(operands) ==
  [function |-> Running, this |-> This, args |-> SubSeq(stack, Base + 2, Floor),
   operands |-> operands]

(* A caller is shown by what lies below the frame it has called.           *)
LEMMA CallersShown ==
  ASSUME IInv, status = "running", NEW s, NEW fs, NEW k \in 1 .. Len(frames) - 1,
         fs[k] = frames[k], k < Len(fs), fs[k + 1].slots = frames[k + 1].slots,
         \A j \in 1 .. frames[k + 1].slots : s[j] = stack[j]
  PROVE  Evaluating(s, fs, k) = Evaluating(stack, frames, k)
<1> DEFINE slots == frames[k].slots
           arity == frames[k].function.arity
           end == frames[k + 1].slots
<1>1. Len(frames) \in Nat /\ k \in 1 .. Len(frames) /\ k + 1 \in 1 .. Len(frames)
      /\ k < Len(frames) /\ Len(stack) \in Nat /\ Floor <= Len(stack) /\ Floor \in Nat
      /\ DOMAIN frames = 1 .. Len(frames)
  BY FrameFacts, LenProperties DEF IInv, ValuesInv
<1>2. slots \in Nat /\ arity \in Nat /\ end \in Nat /\ end + 1 \in 1 .. Floor
  BY <1>1, FramesLieBelow
<1>3. EndOf(stack, frames, k) = end /\ EndOf(s, fs, k) = end
  BY <1>1 DEF EndOf
<1>4. slots + 1 + arity <= end
  BY <1>1, <1>3, FramedNow DEF Framed
<1>5. \A j \in 1 .. end : j \in 1 .. Len(stack)
  BY <1>1, <1>2
<1>6. \A j \in 1 .. end : stack[j] \in Values(Made, Len(heap)) /\ s[j] = stack[j]
  BY <1>5, ElementOfSeq DEF IInv, ValuesInv
<1> HIDE DEF slots, arity, end
<1>7. s[slots + 1] = stack[slots + 1]
  BY <1>2, <1>4, <1>6
<1>8. SubSeq(s, slots + 2, slots + 1 + arity) = SubSeq(stack, slots + 2, slots + 1 + arity)
  <2>1. \A j \in slots + 2 .. slots + 1 + arity : j \in 1 .. end
    BY <1>2, <1>4
  <2>2. slots + 2 \in Int /\ slots + 1 + arity \in Int
    BY <1>2
  <2>3. \A j \in slots + 2 .. slots + 1 + arity :
          stack[j] \in Values(Made, Len(heap)) /\ s[j] = stack[j]
    BY <1>6, <2>1
  <2>4. QED
    BY <2>2, <2>3, SameCut
<1>9. SubSeq(s, slots + 2 + arity, end) = SubSeq(stack, slots + 2 + arity, end)
  <2>1. \A j \in slots + 2 + arity .. end : j \in 1 .. end
    BY <1>2, <1>4
  <2>2. slots + 2 + arity \in Int /\ end \in Int
    BY <1>2
  <2>3. \A j \in slots + 2 + arity .. end :
          stack[j] \in Values(Made, Len(heap)) /\ s[j] = stack[j]
    BY <1>6, <2>1
  <2> DEFINE first == slots + 2 + arity
  <2>4. first \in Int
    BY <2>2
  <2> HIDE DEF first
  <2>5. SubSeq(s, first, end) = SubSeq(stack, first, end)
    <3>1. first \in Int /\ end \in Int
      BY <2>2, <2>4
    <3>2. \A j \in first .. end :
          stack[j] \in Values(Made, Len(heap)) /\ s[j] = stack[j]
      BY <2>3 DEF first
    <3>3. QED
      BY <3>1, <3>2, SameCut
  <2>6. QED
    BY <2>5 DEF first
<1>10. QED
  BY <1>3, <1>7, <1>8, <1>9 DEF Evaluating, slots, arity, end

LEMMA AboveTheParameters ==
  ASSUME IInv, status = "running"
  PROVE  Base + 1 + Running.arity = Floor /\ Base + 2 + Running.arity = Floor + 1
<1>1. Base \in Nat /\ Running.arity \in Nat
  BY FrameFacts
<1>2. Floor = Base + 1 + Running.arity
  BY DEF Floor
<1>3. QED
  BY <1>1, <1>2

LEMMA RunningShown ==
  ASSUME IInv, status = "running", NEW s, NEW fs,
         fs[Len(frames)].function = Running, fs[Len(frames)].slots = Base,
         \A j \in 1 .. Floor : s[j] = stack[j]
  PROVE  Evaluating(s, fs, Len(frames))
           = ActivationWith(SubSeq(s, Floor + 1, EndOf(s, fs, Len(frames))))
<1>1. Base \in Nat /\ Running.arity \in Nat /\ Floor \in Nat /\ Len(stack) \in Nat
      /\ Floor <= Len(stack) /\ Base < Floor
  BY FrameFacts
<1>2. Base + 1 + Running.arity = Floor /\ Base + 2 + Running.arity = Floor + 1
  BY AboveTheParameters
<1>3. \A j \in 1 .. Floor : stack[j] \in Values(Made, Len(heap)) /\ s[j] = stack[j]
  BY <1>1, ElementOfSeq DEF IInv, ValuesInv
<1>4. s[Base + 1] = This
  BY <1>1, <1>3 DEF This
<1>5. SubSeq(s, Base + 2, Floor) = SubSeq(stack, Base + 2, Floor)
  <2>1. \A j \in Base + 2 .. Floor : stack[j] \in Values(Made, Len(heap)) /\ s[j] = stack[j]
    BY <1>1, <1>3
  <2>2. Base + 2 \in Int /\ Floor \in Int
    BY <1>1
  <2>3. QED
    BY <2>1, <2>2, SameCut
<1>6. QED
  BY <1>2, <1>4, <1>5 DEF Evaluating, ActivationWith

LEMMA LastReplaced ==
  ASSUME NEW S, NEW s \in Seq(S), s # << >>, NEW e \in S
  PROVE  LET t == Append(Front(s), e) IN
         /\ t \in Seq(S) /\ Len(t) = Len(s)
         /\ t[Len(s)] = e
         /\ \A i \in 1 .. Len(s) - 1 : t[i] = s[i]
<1>1. Len(s) \in Nat \ {0}
  BY EmptySeq
<1>2. /\ Front(s) \in Seq(S) /\ Len(Front(s)) = Len(s) - 1
      /\ \A i \in 1 .. Len(s) - 1 : Front(s)[i] = s[i]
  <2>1. Len(s) - 1 \in 0 .. Len(s)
    BY <1>1
  <2>2. QED
    BY <1>1, <2>1, TakePrefix DEF Front
<1>3. QED
  BY <1>1, <1>2, AppendProperties

LEMMA RecordReplaced ==
  ASSUME NEW f, NEW t, NEW args, NEW old, NEW new, NEW a,
         a = [function |-> f, this |-> t, args |-> args, operands |-> old]
  PROVE  [a EXCEPT !.operands = new]
           = [function |-> f, this |-> t, args |-> args, operands |-> new]
<1>1. PICK F, T, A, O : f \in F /\ t \in T /\ args \in A /\ old \in O /\ new \in O
  <2>1. f \in {f} /\ t \in {t} /\ args \in {args} /\ old \in {old, new} /\ new \in {old, new}
    OBVIOUS
  <2>2. QED
    BY <2>1
<1>2. QED
  BY <1>1

LEMMA OperandsReplaced ==
  ASSUME NEW old, NEW new, NEW a, a = ActivationWith(old)
  PROVE  [a EXCEPT !.operands = new] = ActivationWith(new)
<1> DEFINE args == SubSeq(stack, Base + 2, Floor)
<1>1. a = [function |-> Running, this |-> This, args |-> args, operands |-> old]
  BY Zenon DEF ActivationWith
<1> HIDE DEF args
<1>2. [a EXCEPT !.operands = new]
        = [function |-> Running, this |-> This, args |-> args, operands |-> new]
  BY <1>1, RecordReplaced
<1>3. QED
  BY <1>2, Zenon DEF ActivationWith, args

LEMMA WithIs ==
  ASSUME IInv, status = "running", decls = << >>
  PROVE  /\ Len(RunningActivations) = Len(frames)
         /\ D!Running = ActivationWith(SubSeq(stack, Floor + 1, Len(stack)))
         /\ \A operands : LET w == D!With(operands) IN
              /\ \E T : w \in Seq(T)
              /\ Len(w) = Len(frames)
              /\ w[Len(frames)] = ActivationWith(operands)
              /\ \A i \in 1 .. Len(frames) - 1 :
                   w[i] = Evaluating(stack, frames, i)
<1> DEFINE n == Len(frames)
           A == AllEvaluating(stack, frames)
           S == {Evaluating(stack, frames, i) : i \in 1 .. n}
<1>1. n \in Nat \ {0} /\ DOMAIN frames = 1 .. n
  BY FrameFacts, LenProperties DEF IInv, ValuesInv
<1>2. RunningActivations = A
  BY EvaluatingActivations
<1>3. A \in [1 .. n -> S] /\ \A i \in 1 .. n : A[i] = Evaluating(stack, frames, i)
  BY <1>1 DEF AllEvaluating
<1>4. A \in Seq(S) /\ Len(A) = n
  BY <1>1, <1>3, FunctionIsSeq
<1> HIDE DEF A, S
<1>5. A[n] = ActivationWith(SubSeq(stack, Floor + 1, Len(stack)))
  <2>1. EndOf(stack, frames, n) = Len(stack)
    BY <1>1 DEF EndOf
  <2>2. Evaluating(stack, frames, n)
          = ActivationWith(SubSeq(stack, Floor + 1, EndOf(stack, frames, n)))
    BY RunningShown DEF Running, Base
  <2>3. QED
    BY <1>1, <1>3, <2>1, <2>2
<1>6. D!Running = A[n]
  BY <1>2, <1>4 DEF D!Running
<1>7. ASSUME NEW operands
      PROVE  LET w == D!With(operands) IN
             /\ \E T : w \in Seq(T)
             /\ Len(w) = n /\ w[n] = ActivationWith(operands)
             /\ \A i \in 1 .. n - 1 : w[i] = Evaluating(stack, frames, i)
  <2> DEFINE e == [D!Running EXCEPT !.operands = operands]
             w == Append(Front(A), e)
  <2>1. e = ActivationWith(operands)
    BY <1>5, <1>6, OperandsReplaced DEF e
  <2>2. D!With(operands) = w
    BY <1>2 DEF D!With, D!Front, Front
  <2> HIDE DEF e, n
  <2>3. A \in Seq(S) /\ A # << >> /\ Len(A) = n
    BY <1>1, <1>4 DEF n
  <2> DEFINE W == S \cup {e}
  <2>4. /\ w \in Seq(W) /\ Len(w) = n /\ w[n] = e
        /\ \A i \in 1 .. n - 1 : w[i] = A[i]
    <3>1. e \in W
      OBVIOUS
    <3>2. A \in Seq(W)
      BY <2>3, SeqMonotonic
    <3> HIDE DEF W
    <3>3. LET t == Append(Front(A), e) IN
         /\ t \in Seq(W) /\ Len(t) = Len(A)
         /\ t[Len(A)] = e
         /\ \A i \in 1 .. Len(A) - 1 : t[i] = A[i]
      BY <2>3, <3>1, <3>2, LastReplaced
    <3>4. QED
      BY <2>3, <3>3
  <2> USE DEF n
  <2> HIDE DEF w
  <2>5. \A i \in 1 .. n - 1 : w[i] = Evaluating(stack, frames, i)
    BY <1>1, <1>3, <2>4
  <2>6. QED
    BY <2>1, <2>2, <2>4, <2>5
<1>8. QED
  BY <1>2, <1>4, <1>5, <1>6, <1>7

LEMMA InFrameShown ==
  ASSUME IInv, status = "running", decls = << >>, NEW m, InFrame(m)
  PROVE  AllEvaluating(m.stack, m.frames)
           = D!With(SubSeq(m.stack, Floor + 1, Len(m.stack)))
<1> DEFINE n == Len(frames)
           operands == SubSeq(m.stack, Floor + 1, Len(m.stack))
           w == D!With(operands)
           A == AllEvaluating(m.stack, m.frames)
           S == {Evaluating(m.stack, m.frames, i) : i \in 1 .. n}
<1>1. n \in Nat \ {0} /\ Len(m.frames) = n /\ DOMAIN m.frames = 1 .. n
      /\ n \in 1 .. n
  BY FrameFacts, MachineFacts, LenProperties DEF InFrame
<1>2. A \in [1 .. n -> S] /\ \A i \in 1 .. n : A[i] = Evaluating(m.stack, m.frames, i)
  BY <1>1 DEF AllEvaluating
<1>3. A \in Seq(S) /\ Len(A) = n
  BY <1>1, <1>2, FunctionIsSeq
<1>4. \A i \in 1 .. Floor : m.stack[i] = stack[i]
  BY DEF InFrame, KeepsFloor
<1>5. A[n] = ActivationWith(operands)
  <2>1. m.frames[n].function = Running /\ m.frames[n].slots = Base
    BY DEF InFrame, KeepsFrames
  <2>2. EndOf(m.stack, m.frames, n) = Len(m.stack)
    BY <1>1 DEF EndOf
  <2>3. Evaluating(m.stack, m.frames, n)
          = ActivationWith(SubSeq(m.stack, Floor + 1, EndOf(m.stack, m.frames, n)))
    BY <1>4, <2>1, RunningShown
  <2>4. QED
    BY <1>1, <1>2, <2>2, <2>3
<1> HIDE DEF A, S
<1>6. ASSUME NEW i \in 1 .. n - 1
      PROVE  A[i] = Evaluating(stack, frames, i)
  <2>1. i \in 1 .. n /\ i + 1 \in 1 .. n /\ i < n
    BY <1>1
  <2>2. m.frames[i] = frames[i]
    BY DEF InFrame, KeepsFrames
  <2>3. m.frames[i + 1].slots = frames[i + 1].slots
    BY <1>1, <2>1 DEF InFrame, KeepsFrames, Base
  <2>4. frames[i + 1].slots \in Nat /\ frames[i + 1].slots + 1 \in 1 .. Floor
        /\ Floor \in Nat
    BY <2>1, FramesLieBelow, FrameFacts
  <2>5. \A j \in 1 .. frames[i + 1].slots : m.stack[j] = stack[j]
    BY <1>4, <2>4
  <2>6. QED
    BY <1>1, <1>2, <2>1, <2>2, <2>3, <2>5, CallersShown
<1> HIDE DEF w, operands
<1>7. /\ \E T : w \in Seq(T)
      /\ Len(w) = n /\ w[n] = ActivationWith(operands)
      /\ \A i \in 1 .. n - 1 : w[i] = Evaluating(stack, frames, i)
  BY WithIs DEF w
<1>8. PICK T : w \in Seq(T)
  BY <1>7
<1>9. \A i \in 1 .. n : A[i] = w[i]
  BY <1>1, <1>5, <1>6, <1>7
<1>10. A \in Seq(S \cup T) /\ w \in Seq(S \cup T)
  <2>1. S \subseteq S \cup T /\ T \subseteq S \cup T
    OBVIOUS
  <2>2. A \in Seq(S \cup T)
    BY <1>3, <2>1, SeqMonotonic
  <2>3. w \in Seq(S \cup T)
    BY <1>8, <2>1, SeqMonotonic
  <2>4. QED
    BY <2>2, <2>3
<1>11. A = w
  BY <1>3, <1>7, <1>9, <1>10, SeqEqual
<1>12. QED
  BY <1>11 DEF A, w, operands

(***************************************************************************)
(* How an instruction ends, and what DynamicDispatch sees of it            *)
(***************************************************************************)
(* What is below a callee with argc arguments, and the arguments.          *)
Rest(m, argc) == SubSeq(m.stack, Floor + 1, Len(m.stack) - argc - 1)
Given(m, argc) == SubSeq(m.stack, Len(m.stack) - argc + 1, Len(m.stack))

(* Expressions look things up, and declare nothing.                        *)
LEMMA ExpressionKeepsTables ==
  ASSUME FullInv, AtExpression
  PROVE  DispatchInv'
<1>1. TablesInv'
  BY SameTables DEF FullInv, AtExpression
<1>2. stage' = "class"
  BY DEF AtExpression
<1>3. QED
  BY <1>1, <1>2, DispatchFollows

LEMMA InFrameResult ==
  ASSUME FullInv, status = "running", AtExpression, NEW m, InFrame(m),
         Becomes(m) \/ (stack' = m.stack /\ frames' = m.frames /\ heap' = m.heap
                        /\ status' = m.status)
  PROVE  /\ RunningActivations' = D!With(SubSeq(m.stack, Floor + 1, Len(m.stack)))
         /\ RunningObjects' = m.heap /\ status' = status
<1>1. m.status = "running"
  BY DEF InFrame
<1>2. stack' = m.stack /\ frames' = m.frames /\ heap' = m.heap /\ status' = "running"
  BY <1>1 DEF Becomes
<1>3. decls = << >> /\ decls' = decls /\ IInv
  BY DEF AtExpression, FullInv
<1>4. RunningActivations' = AllEvaluating(stack', frames')
  BY <1>2, <1>3, EvaluatingActivations
<1>5. RunningObjects' = heap'
  BY <1>2 DEF RunningObjects
<1>6. QED
  BY <1>2, <1>3, <1>4, <1>5, InFrameShown

LEMMA StoppedResult ==
  ASSUME NEW m
  PROVE  /\ Becomes(RuntimeError(m)) /\ IsMachine(m) => D!Fails /\ status' = "error"
         /\ Becomes(Undefined(m)) /\ IsMachine(m) => D!Hole
<1>1. ASSUME Becomes(RuntimeError(m)), IsMachine(m) PROVE D!Fails /\ status' = "error"
  <2>1. status' = "error"
    BY <1>1 DEF Becomes, RuntimeError, IsMachine
  <2>2. QED
    BY <2>1, StopsShown DEF D!Fails
<1>2. ASSUME Becomes(Undefined(m)), IsMachine(m) PROVE D!Hole
  <2>1. status' = "undefined"
    BY <1>2 DEF Becomes, Undefined, IsMachine
  <2>2. QED
    BY <2>1, StopsShown DEF D!Hole
<1>3. QED
  BY <1>1, <1>2

LEMMA ReturnValueInFrame ==
  ASSUME IInv, status = "running", NEW m, NEW argc, Prepared(m, argc),
         NEW v \in Values(Made, Len(m.heap))
  PROVE  LET p == ReturnValue(m, v) IN
         /\ InFrame(p) /\ p.heap = m.heap
         /\ SubSeq(p.stack, Floor + 1, Len(p.stack)) = Append(Rest(m, argc), v)
<1> DEFINE p == ReturnValue(m, v)
           top == CurrentTop(m)
           kept == SubSeq(m.stack, 1, top)
           V == Values(Made, Len(m.heap))
<1>1. /\ IsMachine(m) /\ InFrame(m) /\ argc \in Nat /\ Len(m.stack) > Floor + argc
      /\ top = Len(m.stack) - argc - 1 /\ m.status = "running"
      /\ Len(m.frames) = Len(frames)
  BY DEF Prepared, Ready, InFrame
<1>2. top \in 0 .. Len(m.stack) /\ Floor \in 0 .. top /\ Floor \in Nat /\ top \in Nat
      /\ Len(m.stack) \in Nat /\ Len(frames) \in Nat
  BY <1>1, MachineFacts, FrameFacts
<1>3. p.stack = Append(kept, v) /\ p.frames = m.frames
      /\ p.heap = m.heap /\ p.status = m.status
  BY <1>1 DEF ReturnValue, IsMachine
<1>4. Outcome(p)
  BY ReturnValueOutcome
<1>5. InFrame(p)
  <2>1. ~ Entered(p)
    BY <1>1, <1>2, <1>3 DEF Entered
  <2>2. QED
    BY <1>1, <1>3, <1>4, <2>1 DEF Outcome
<1> HIDE DEF p, top
<1>6. kept \in Seq(V) /\ Len(kept) = top
  BY <1>1, <1>2, MachineFacts, TakePrefix
<1>7. SubSeq(kept, Floor + 1, top) = SubSeq(m.stack, Floor + 1, top)
  <2>1. \A i \in 1 .. top : m.stack[i] \in V
    BY <1>1, <1>2, MachineFacts
  <2>2. Floor + 1 \in Nat \ {0} /\ top <= top - 1 + 1 /\ 1 \in Int /\ top \in Int
    BY <1>2
  <2>3. SubSeq(kept, Floor + 1, top) = SubSeq(m.stack, 1 + (Floor + 1) - 1, 1 + top - 1)
    BY <2>1, <2>2, CutOfCut
  <2>4. 1 + (Floor + 1) - 1 = Floor + 1 /\ 1 + top - 1 = top
    BY <1>2
  <2>5. QED
    BY <2>3, <2>4
<1> HIDE DEF kept, V
<1>8. Len(Append(kept, v)) = top + 1
  BY <1>6, AppendProperties DEF V
<1>9. SubSeq(Append(kept, v), Floor + 1, top + 1) = Append(SubSeq(kept, Floor + 1, top), v)
  <2>1. v \in V
    BY DEF V
  <2>2. QED
    BY <1>2, <1>6, <2>1, CutOfAppend
<1>10. SubSeq(m.stack, Floor + 1, top) = Rest(m, argc)
  BY <1>1 DEF Rest
<1>11. QED
  BY <1>3, <1>5, <1>7, <1>8, <1>9, <1>10 DEF p

LEMMA ReturnValueResult ==
  ASSUME FullInv, status = "running", AtExpression, NEW m, NEW argc,
         Prepared(m, argc), NEW v \in Values(Made, Len(m.heap)),
         Becomes(ReturnValue(m, v))
  PROVE  /\ RunningActivations' = D!With(Append(Rest(m, argc), v))
         /\ RunningObjects' = m.heap /\ status' = status
<1>1. LET p == ReturnValue(m, v) IN
         /\ InFrame(p) /\ p.heap = m.heap
         /\ SubSeq(p.stack, Floor + 1, Len(p.stack)) = Append(Rest(m, argc), v)
  BY ReturnValueInFrame DEF FullInv
<1>2. QED
  BY <1>1, InFrameResult
LEMMA OperandsShown ==
  ASSUME IInv, status = "running", decls = << >>
  PROVE  /\ D!Operands = SubSeq(stack, Floor + 1, Len(stack))
         /\ Len(D!Operands) = Operands /\ Operands = Len(stack) - Floor
         /\ D!Running.function = Running /\ D!Running.this = This
         /\ D!Running.args = SubSeq(stack, Base + 2, Floor)
         /\ Len(RunningActivations) = Len(frames)
         /\ RunningObjects = heap
<1>1. D!Running = ActivationWith(SubSeq(stack, Floor + 1, Len(stack)))
      /\ Len(RunningActivations) = Len(frames)
  BY WithIs
<1>2. D!Operands = SubSeq(stack, Floor + 1, Len(stack))
      /\ D!Running.function = Running /\ D!Running.this = This
      /\ D!Running.args = SubSeq(stack, Base + 2, Floor)
  BY <1>1 DEF D!Operands, ActivationWith
<1>3. Floor \in 0 .. Len(stack) /\ Len(stack) \in Nat /\ Base \in Nat /\ Running.arity \in Nat
      /\ Floor \in Nat
  BY FrameFacts
<1>4. Len(SubSeq(stack, Floor + 1, Len(stack))) = Len(stack) - Floor
  BY <1>3, DropPrefix DEF IInv, ValuesInv
<1>5. Operands = Len(stack) - Floor
  <2>1. Floor = Base + 1 + Running.arity /\ Operands = Len(stack) - Base - 1 - Running.arity
    BY DEF Floor, Operands
  <2> HIDE DEF Floor, Operands, Base, Running
  <2>2. QED
    BY <1>3, <2>1
<1>6. RunningObjects = heap
  BY DEF RunningObjects
<1>7. QED
  BY <1>1, <1>2, <1>4, <1>5, <1>6

(* The operands by their distance from the top.                            *)
LEMMA OperandShown ==
  ASSUME IInv, status = "running", decls = << >>, NEW n \in Nat, Operands > n
  PROVE  /\ D!Operand(n) = Top(Machine, n)
         /\ D!Args(n) = Given(Machine, n)
         /\ D!Below(n + 1) = Rest(Machine, n)
<1> DEFINE V == Values(Made, Len(heap))
<1>1. /\ D!Operands = SubSeq(stack, Floor + 1, Len(stack))
      /\ Len(D!Operands) = Len(stack) - Floor /\ Operands = Len(stack) - Floor
  BY OperandsShown
<1>2. Floor \in Nat /\ Len(stack) \in Nat /\ stack \in Seq(V) /\ Machine.stack = stack
      /\ Floor \in 0 .. Len(stack)
  BY FrameFacts, MachineInFrame DEF IInv, ValuesInv
<1>3. \A i \in Floor + 1 .. Len(stack) : stack[i] \in V
  BY <1>2, ElementOfSeq
<1>4. Len(stack) - n > Floor
  BY <1>1, <1>2
<1> HIDE DEF V
<1>5. D!Operand(n) = Top(Machine, n)
  <2>1. \A i \in 1 .. (Len(stack) - Floor) :
          SubSeq(stack, Floor + 1, Len(stack))[i] = stack[Floor + i]
    BY <1>2, DropPrefix
  <2>2. D!Operand(n) = SubSeq(stack, Floor + 1, Len(stack))[Len(stack) - Floor - n]
    BY <1>1 DEF D!Operand
  <2>3. Len(stack) - Floor - n \in 1 .. (Len(stack) - Floor)
        /\ Floor + (Len(stack) - Floor - n) = Len(stack) - n
    BY <1>2, <1>4
  <2>4. QED
    BY <1>2, <2>1, <2>2, <2>3 DEF Top
<1>6. \A i, j \in Int : i >= 1 /\ j <= Len(stack) - Floor =>
        SubSeq(D!Operands, i, j) = SubSeq(stack, Floor + i, Floor + j)
  <2>1. TAKE i, j \in Int
  <2>2. HAVE i >= 1 /\ j <= Len(stack) - Floor
  <2>3. Floor + 1 \in Int /\ Len(stack) \in Int /\ i \in Nat \ {0}
        /\ j <= Len(stack) - (Floor + 1) + 1
    BY <1>2, <2>2
  <2> DEFINE first == Floor + 1
             last == Len(stack)
  <2>4. SubSeq(SubSeq(stack, first, last), i, j)
          = SubSeq(stack, first + i - 1, first + j - 1)
    <3>1. first \in Int /\ last \in Int /\ i \in Nat \ {0} /\ j \in Int
          /\ j <= last - first + 1
      BY <2>3
    <3>2. \A k \in first .. last : stack[k] \in V
      BY <1>3
    <3> HIDE DEF first, last
    <3>3. QED
      BY <3>1, <3>2, CutOfCut
  <2>5. (Floor + 1) + i - 1 = Floor + i /\ (Floor + 1) + j - 1 = Floor + j
    BY <1>2
  <2>6. QED
    BY <1>1, <2>4, <2>5
<1>7. D!Args(n) = Given(Machine, n)
  <2> DEFINE i == Len(stack) - Floor - n + 1
             j == Len(stack) - Floor
  <2>1. i \in Int /\ j \in Int /\ i >= 1 /\ j <= Len(stack) - Floor
        /\ Floor + i = Len(stack) - n + 1 /\ Floor + j = Len(stack)
    BY <1>2, <1>4
  <2>2. D!Args(n) = SubSeq(D!Operands, i, j)
    BY <1>1 DEF D!Args
  <2> HIDE DEF i, j
  <2>3. SubSeq(D!Operands, i, j) = SubSeq(stack, Floor + i, Floor + j)
    BY <1>6, <2>1
  <2>4. QED
    BY <1>2, <2>1, <2>2, <2>3 DEF Given
<1>8. D!Below(n + 1) = Rest(Machine, n)
  <2> DEFINE j == Len(stack) - Floor - (n + 1)
  <2>1. 1 \in Int /\ j \in Int /\ 1 >= 1 /\ j <= Len(stack) - Floor
        /\ Floor + j = Len(stack) - n - 1
    BY <1>2, <1>4
  <2>2. D!Below(n + 1) = SubSeq(D!Operands, 1, j)
    BY <1>1 DEF D!Below
  <2> HIDE DEF j
  <2>3. SubSeq(D!Operands, 1, j) = SubSeq(stack, Floor + 1, Floor + j)
    BY <1>6, <2>1
  <2>4. QED
    BY <1>2, <2>1, <2>2, <2>3 DEF Rest
<1>9. QED
  BY <1>5, <1>7, <1>8

(* A function that has just been called is shown as one that has evaluated *)
(* nothing, and its caller without what it has called it with.             *)
LEMMA EnteredShown ==
  ASSUME IInv, status = "running", decls = << >>, NEW m, NEW f \in Closures(Made),
         Prepared(m, f.arity), Outcome(StartSubcall(m, f)), Len(frames) < MaxFrames
  PROVE  AllEvaluating(StartSubcall(m, f).stack, StartSubcall(m, f).frames)
           = Append(D!With(Rest(m, f.arity)),
                    D!Activation(f, Receiver(m), Arguments(m, f.arity)))
<1> DEFINE n == Len(frames)
           e == StartSubcall(m, f)
           top == CurrentTop(m)
           w == D!With(Rest(m, f.arity))
           x == D!Activation(f, Receiver(m), Arguments(m, f.arity))
           A == AllEvaluating(e.stack, e.frames)
<1>1. /\ InFrame(m) /\ IsMachine(m) /\ Len(m.frames) = n /\ n \in Nat \ {0}
      /\ f.arity \in Nat /\ Len(m.stack) > Floor + f.arity
      /\ top = Len(m.stack) - f.arity - 1 /\ m.status = "running"
      /\ Len(m.stack) \in Nat /\ Floor \in Nat
  BY FrameFacts, MachineFacts, Kinds DEF Prepared, Ready, InFrame
<1>2. e.stack = m.stack /\ e.frames = Append(m.frames, Frame(f, top)) /\ e.status = m.status
  BY <1>1 DEF StartSubcall, IsMachine
<1>3. IsMachine(e) /\ (InFrame(e) \/ Entered(e))
  BY <1>1, <1>2 DEF Outcome
<1>4. \A i \in 1 .. n : e.frames[i] = m.frames[i]
  BY <1>1, <1>2, MachineFacts
<1>5. e.frames[n + 1] = Frame(f, top) /\ Len(e.frames) = n + 1
      /\ DOMAIN e.frames = 1 .. n + 1
  BY <1>1, <1>2, MachineFacts
<1>6. \A i \in 1 .. Floor : e.stack[i] = stack[i]
  BY <1>1, <1>2 DEF InFrame, KeepsFloor
<1> HIDE DEF e, top
<1>7. A[n] = ActivationWith(Rest(m, f.arity))
  <2>1. e.frames[n].function = Running /\ e.frames[n].slots = Base
    BY <1>1, <1>4 DEF InFrame, KeepsFrames
  <2>2. EndOf(e.stack, e.frames, n) = top
    BY <1>1, <1>5 DEF EndOf, Frame
  <2>3. Evaluating(e.stack, e.frames, n)
          = ActivationWith(SubSeq(e.stack, Floor + 1, EndOf(e.stack, e.frames, n)))
    BY <1>6, <2>1, RunningShown
  <2>4. A[n] = Evaluating(e.stack, e.frames, n)
    BY <1>1, <1>5 DEF AllEvaluating
  <2>5. QED
    BY <1>1, <1>2, <2>2, <2>3, <2>4 DEF Rest
<1>8. A[n + 1] = x
  <2>1. A[n + 1] = Evaluating(e.stack, e.frames, n + 1)
    BY <1>1, <1>5 DEF AllEvaluating
  <2>2. EndOf(e.stack, e.frames, n + 1) = Len(m.stack)
    BY <1>1, <1>2, <1>5 DEF EndOf
  <2>3. Evaluating(e.stack, e.frames, n + 1)
          = [function |-> f, this |-> m.stack[top + 1],
             args |-> SubSeq(m.stack, top + 2, top + 1 + f.arity),
             operands |-> SubSeq(m.stack, top + 2 + f.arity, Len(m.stack))]
    <3>1. e.frames[n + 1].function = f /\ e.frames[n + 1].slots = top
      BY <1>5 DEF Frame
    <3> HIDE DEF n
    <3>2. QED
      BY <1>2, <2>2, <3>1 DEF Evaluating
  <2>4. SubSeq(m.stack, top + 2 + f.arity, Len(m.stack)) = << >>
    <3>1. top + 2 + f.arity = Len(m.stack) + 1
      BY <1>1
    <3>2. SubSeq(m.stack, Len(m.stack) + 1, Len(m.stack)) = << >>
      BY <1>1
    <3>3. QED
      BY <3>1, <3>2
  <2>5. QED
    BY <2>1, <2>3, <2>4 DEF D!Activation, Receiver, Arguments, top
<1>9. ASSUME NEW i \in 1 .. n - 1
      PROVE  A[i] = Evaluating(stack, frames, i)
  <2>1. i \in 1 .. n /\ i + 1 \in 1 .. n /\ i < n /\ i \in 1 .. n + 1 /\ i < n + 1
    BY <1>1
  <2>2. e.frames[i] = frames[i]
    BY <1>1, <1>4, <2>1 DEF InFrame, KeepsFrames
  <2>3. e.frames[i + 1].slots = frames[i + 1].slots
    <3>1. m.frames[i + 1].slots = frames[i + 1].slots
      BY <1>1, <2>1 DEF InFrame, KeepsFrames, Base
    <3>2. QED
      BY <1>4, <2>1, <3>1
  <2>4. frames[i + 1].slots \in Nat /\ frames[i + 1].slots + 1 \in 1 .. Floor
    BY <2>1, FramesLieBelow
  <2>5. \A j \in 1 .. frames[i + 1].slots : e.stack[j] = stack[j]
    BY <1>1, <1>6, <2>4
  <2>6. Evaluating(e.stack, e.frames, i) = Evaluating(stack, frames, i)
    BY <1>5, <2>1, <2>2, <2>3, <2>5, CallersShown
  <2>7. QED
    BY <1>5, <2>1, <2>6 DEF AllEvaluating
<1>10. \E T : A \in Seq(T) /\ Len(A) = n + 1
  <2> DEFINE S == {Evaluating(e.stack, e.frames, i) : i \in 1 .. n + 1}
  <2>1. A \in [1 .. n + 1 -> S]
    BY <1>5 DEF AllEvaluating
  <2>2. n + 1 \in Nat
    BY <1>1
  <2> HIDE DEF S, A, n
  <2>3. A \in Seq(S) /\ Len(A) = n + 1
    BY <2>1, <2>2, FunctionIsSeq
  <2>4. QED
    BY <2>3
<1> HIDE DEF A, w, x
<1>11. /\ \E T : w \in Seq(T)
       /\ Len(w) = n /\ w[n] = ActivationWith(Rest(m, f.arity))
       /\ \A i \in 1 .. n - 1 : w[i] = Evaluating(stack, frames, i)
  BY WithIs DEF w
<1>12. PICK T : A \in Seq(T) /\ Len(A) = n + 1
  BY <1>10
<1>13. PICK U : w \in Seq(U)
  BY <1>11
<1> DEFINE V == T \cup U \cup {x}
<1>14. A \in Seq(V) /\ w \in Seq(V) /\ x \in V
  <2>1. T \subseteq V /\ U \subseteq V /\ x \in V
    OBVIOUS
  <2> HIDE DEF V
  <2>2. A \in Seq(V)
    BY <1>12, <2>1, SeqMonotonic
  <2>3. w \in Seq(V)
    BY <1>13, <2>1, SeqMonotonic
  <2>4. QED
    BY <2>1, <2>2, <2>3
<1> HIDE DEF V
<1>15. /\ Append(w, x) \in Seq(V) /\ Len(Append(w, x)) = n + 1
       /\ \A i \in 1 .. n : Append(w, x)[i] = w[i]
       /\ Append(w, x)[n + 1] = x
  BY <1>11, <1>14, AppendProperties
<1>16. \A i \in 1 .. n + 1 : A[i] = Append(w, x)[i]
  <2>1. TAKE i \in 1 .. n + 1
  <2>2. CASE i = n + 1
    BY <1>8, <1>15, <2>2
  <2>3. CASE i = n
    <3>1. n \in 1 .. n
      BY <1>1
    <3>2. QED
      BY <1>7, <1>11, <1>15, <2>3, <3>1
  <2>4. CASE i < n
    <3>1. i \in 1 .. n /\ i \in 1 .. n - 1
      BY <1>1, <2>4
    <3>2. QED
      BY <1>9, <1>11, <1>15, <3>1
  <2>5. i = n + 1 \/ i = n \/ i < n
    BY <1>1, LastTwoOrBelow
  <2>6. QED
    BY <2>2, <2>3, <2>4, <2>5
<1>17. A = Append(w, x)
  BY <1>12, <1>14, <1>15, <1>16, SeqEqual
<1>18. QED
  BY <1>17 DEF A, w, x, e

(***************************************************************************)
(* Calls do what DynamicDispatch says of them                              *)
(***************************************************************************)
LEMMA GivenIs ==
  ASSUME IInv, status = "running", NEW m, NEW argc, Prepared(m, argc)
  PROVE  /\ Arguments(m, argc) = Given(m, argc) /\ Receiver(m) = Top(m, argc)
         /\ Given(m, argc) \in Seq(Values(Made, Len(m.heap)))
         /\ Len(Given(m, argc)) = argc /\ (Given(m, argc) = << >> <=> argc = 0)
<1>1. /\ argc \in Nat /\ CurrentTop(m) = Len(m.stack) - argc - 1 /\ Len(m.stack) \in Nat
  BY MachineFacts DEF Prepared, Ready, InFrame
<1>2. CurrentTop(m) + 2 = Len(m.stack) - argc + 1 /\ CurrentTop(m) + 1 + argc = Len(m.stack)
  BY <1>1
<1>3. Arguments(m, argc) = Given(m, argc)
  BY <1>2 DEF Arguments, Given
<1>4. /\ Arguments(m, argc) \in Seq(Values(Made, Len(m.heap)))
      /\ Len(Arguments(m, argc)) = argc /\ Receiver(m) = Top(m, argc)
  BY ArgumentsType
<1> HIDE DEF Arguments, Given
<1>5. Given(m, argc) = << >> <=> argc = 0
  <2>1. Len(Given(m, argc)) = argc /\ Given(m, argc) \in Seq(Values(Made, Len(m.heap)))
    BY <1>3, <1>4
  <2>2. QED
    BY <2>1, EmptySeq
<1>6. QED
  BY <1>3, <1>4, <1>5

(* What is called can be replaced without touching what it is called with. *)
LEMMA SetTopKeeps ==
  ASSUME IInv, status = "running", NEW m, NEW argc, Ready(m, argc),
         NEW v \in Values(Made, Len(m.heap))
  PROVE  /\ Rest(SetTop(m, argc, v), argc) = Rest(m, argc)
         /\ Given(SetTop(m, argc, v), argc) = Given(m, argc)
<1> DEFINE V == Values(Made, Len(m.heap))
           t == SetTop(m, argc, v).stack
           len == Len(m.stack)
<1>1. /\ IsMachine(m) /\ argc \in Nat /\ len \in Nat /\ len > Floor + argc /\ Floor \in Nat
      /\ \A i \in 1 .. len : m.stack[i] \in V
  BY MachineFacts, FrameFacts DEF Ready, InFrame
<1>2. Len(t) = len
  BY SetTopReady
<1>3. \A i \in 1 .. len : i # len - argc => t[i] = m.stack[i]
  BY <1>1, MachineFacts DEF SetTop, IsMachine
<1> HIDE DEF t, V, len
<1>4. SubSeq(t, Floor + 1, len - argc - 1) = SubSeq(m.stack, Floor + 1, len - argc - 1)
  <2> DEFINE a == Floor + 1
             b == len - argc - 1
  <2>1. a \in Int /\ b \in Int
    BY <1>1
  <2>2. \A i \in a .. b : m.stack[i] \in V /\ t[i] = m.stack[i]
    BY <1>1, <1>3
  <2> HIDE DEF a, b
  <2>3. SubSeq(t, a, b) = SubSeq(m.stack, a, b)
    BY <2>1, <2>2, SameCut
  <2>4. QED
    BY <2>3 DEF a, b
<1>5. SubSeq(t, len - argc + 1, len) = SubSeq(m.stack, len - argc + 1, len)
  <2> DEFINE a == len - argc + 1
  <2>1. a \in Int /\ len \in Int
    BY <1>1
  <2>2. \A i \in a .. len : m.stack[i] \in V /\ t[i] = m.stack[i]
    BY <1>1, <1>3
  <2> HIDE DEF a
  <2>3. SubSeq(t, a, len) = SubSeq(m.stack, a, len)
    BY <2>1, <2>2, SameCut
  <2>4. QED
    BY <2>3 DEF a
<1>6. QED
  BY <1>2, <1>4, <1>5 DEF Rest, Given, t, len

LEMMA EntersResult ==
  ASSUME FullInv, status = "running", AtExpression, NEW m, NEW f \in Closures(Made),
         NEW argc, Prepared(m, argc), f.super # Null => Receiver(m).k = "instance",
         Becomes(CallClosure(m, f, argc))
  PROVE  /\ D!Enters(f, Receiver(m), Given(m, argc), Rest(m, argc))
         /\ RunningObjects' = IF status' = "error" THEN << >> ELSE m.heap
<1>1. /\ IInv /\ decls = << >> /\ decls' = decls /\ IsMachine(m)
      /\ Len(m.frames) = Len(frames) /\ m.status = "running"
  BY DEF FullInv, AtExpression, Prepared, Ready, InFrame
<1>2. Len(RunningActivations) = Len(frames)
  BY <1>1, OperandsShown
<1>3. /\ Arguments(m, argc) = Given(m, argc) /\ Len(Given(m, argc)) = argc
  BY <1>1, GivenIs
<1>4. CASE argc = f.arity /\ Len(frames) < MaxFrames
  <2> DEFINE e == StartSubcall(m, f)
  <2>1. Becomes(e)
    BY <1>4 DEF CallClosure
  <2>2. Outcome(e) /\ Prepared(m, f.arity)
    BY <1>1, <1>4, StartSubcallOutcome
  <2>3. e.status = "running" /\ e.heap = m.heap
    BY <1>1, <1>4 DEF StartSubcall, IsMachine
  <2>4. AllEvaluating(e.stack, e.frames)
          = Append(D!With(Rest(m, f.arity)),
                   D!Activation(f, Receiver(m), Arguments(m, f.arity)))
    BY <1>1, <1>4, <2>2, EnteredShown
  <2> HIDE DEF e
  <2>5. stack' = e.stack /\ frames' = e.frames /\ heap' = m.heap /\ status' = "running"
    BY <2>1, <2>3 DEF Becomes
  <2>6. RunningActivations' = AllEvaluating(stack', frames')
    BY <1>1, <2>5, EvaluatingActivations
  <2>7. RunningActivations'
          = Append(D!With(Rest(m, argc)), D!Activation(f, Receiver(m), Given(m, argc)))
    BY <1>3, <1>4, <2>4, <2>5, <2>6
  <2>8. D!Enters(f, Receiver(m), Given(m, argc), Rest(m, argc))
    BY <1>2, <1>3, <1>4, <2>5, <2>7 DEF D!Enters
  <2>9. RunningObjects' = m.heap
    BY <2>5 DEF RunningObjects
  <2>10. QED
    BY <2>5, <2>8, <2>9
<1>5. CASE ~ (argc = f.arity /\ Len(frames) < MaxFrames)
  <2>1. Becomes(RuntimeError(m))
    BY <1>1, <1>5 DEF CallClosure, StartSubcall
  <2>2. D!Fails /\ status' = "error"
    BY <1>1, <2>1, StoppedResult
  <2>3. RunningActivations' = << >> /\ RunningObjects' = << >>
    BY <2>2 DEF D!Fails, D!Stops
  <2>4. D!Enters(f, Receiver(m), Given(m, argc), Rest(m, argc))
    BY <1>2, <1>3, <1>5, <2>2, <2>3 DEF D!Enters
  <2>5. QED
    BY <2>2, <2>3, <2>4
<1>6. QED
  BY <1>4, <1>5

LEMMA AnswersResult ==
  ASSUME FullInv, status = "running", AtExpression, NEW m, NEW argc,
         Prepared(m, argc), m.heap = heap, NEW result,
         result.outcome = "value" => result.value \in Values(Made, Len(m.heap)),
         Becomes(Conclude(m, result))
  PROVE  D!Answers(result, Rest(m, argc))
<1>1. IsMachine(m) /\ RunningObjects = heap
  BY DEF Prepared, Ready, InFrame, RunningObjects
<1>2. CASE result.outcome = "value"
  <2>1. Becomes(ReturnValue(m, result.value))
    BY <1>2 DEF Conclude
  <2>2. /\ RunningActivations' = D!With(Append(Rest(m, argc), result.value))
        /\ RunningObjects' = m.heap /\ status' = status
    BY <1>2, <2>1, ReturnValueResult
  <2>3. QED
    BY <1>1, <1>2, <2>2 DEF D!Answers, D!Continues
<1>3. CASE result.outcome = "error"
  <2>1. Becomes(RuntimeError(m))
    BY <1>3 DEF Conclude
  <2>2. QED
    BY <1>1, <1>3, <2>1, StoppedResult DEF D!Answers
<1>4. CASE result.outcome \notin {"value", "error"}
  <2>1. Becomes(Undefined(m))
    BY <1>4 DEF Conclude
  <2>2. QED
    BY <1>1, <1>4, <2>1, StoppedResult DEF D!Answers
<1>5. QED
  BY <1>2, <1>3, <1>4

(* A machine with one more instance.                                       *)
LEMMA NewInstanceShown ==
  ASSUME IInv, status = "running", NEW m, NEW argc, Prepared(m, argc), m.heap = heap,
         NEW object \in HeapObjects(Made, Len(m.heap))
  PROVE  LET made == NewInstance(m, object) IN
         /\ Prepared(made, argc) /\ Ready(made, argc)
         /\ made.heap = Append(heap, object)
         /\ Newest(made) = Instance(Len(heap) + 1)
         /\ Newest(made) \in Values(Made, Len(made.heap))
         /\ Newest(made).k = "instance"
         /\ Rest(made, argc) = Rest(m, argc) /\ Given(made, argc) = Given(m, argc)
<1> DEFINE made == NewInstance(m, object)
<1>1. Ready(m, argc) /\ InFrame(m) /\ IsMachine(m)
  BY DEF Prepared, Ready, InFrame
<1>2. /\ InFrame(made) /\ made.stack = m.stack
      /\ Newest(made) \in Values(Made, Len(made.heap))
      /\ Newest(made).k = "instance"
  BY <1>1, NewInstanceInFrame
<1>3. made.frames = m.frames /\ made.heap = Append(heap, object)
  BY <1>1 DEF NewInstance, IsMachine
<1>4. heap \in Seq(HeapObjects(Made, Len(m.heap)))
  BY <1>1, MachineFacts
<1> HIDE DEF made
<1>5. Newest(made) = Instance(Len(heap) + 1)
  BY <1>3, <1>4, AppendProperties DEF Newest
<1>6. Ready(made, argc) /\ Prepared(made, argc)
  BY <1>1, <1>2, <1>3 DEF Prepared, Ready, CurrentTop
<1>7. QED
  BY <1>2, <1>3, <1>5, <1>6 DEF made, Rest, Given

LEMMA ClonesResult ==
  ASSUME FullInv, status = "running", AtExpression, NEW m, NEW argc,
         Prepared(m, argc), m.heap = heap, Receiver(m).k = "instance",
         Becomes(CallClone(m, argc))
  PROVE  D!Clones(Receiver(m), Given(m, argc), Rest(m, argc))
<1> DEFINE object == m.heap[Receiver(m).i]
           made == NewInstance(m, object)
<1>1. IInv /\ IsMachine(m) /\ InFrame(m) /\ RunningObjects = heap
  BY DEF FullInv, Prepared, Ready, InFrame, RunningObjects
<1>2. Receiver(m).i \in 1 .. Len(m.heap)
  BY <1>1, ArgumentsType, ValueKinds, MachineFacts
<1>3. object \in HeapObjects(Made, Len(m.heap))
  BY <1>1, <1>2, HeapObjectType
<1>4. Given(m, argc) = << >> <=> argc = 0
  BY <1>1, GivenIs
<1>5. CASE argc # 0
  <2>1. Becomes(RuntimeError(m))
    BY <1>5 DEF CallClone
  <2>2. QED
    BY <1>1, <1>4, <1>5, <2>1, StoppedResult DEF D!Clones
<1>6. CASE argc = 0
  <2>1. Becomes(ReturnValue(made, Newest(made)))
    BY <1>6 DEF CallClone
  <2> HIDE DEF object
  <2>2. /\ Prepared(made, argc) /\ made.heap = Append(heap, object)
        /\ Newest(made) = Instance(Len(heap) + 1)
        /\ Newest(made) \in Values(Made, Len(made.heap))
        /\ Rest(made, argc) = Rest(m, argc)
    BY <1>1, <1>3, NewInstanceShown
  <2> HIDE DEF made
  <2>3. /\ RunningActivations' = D!With(Append(Rest(made, argc), Newest(made)))
        /\ RunningObjects' = made.heap /\ status' = status
    BY <2>1, <2>2, ReturnValueResult
  <2>4. D!Instance(Len(heap) + 1) = Instance(Len(heap) + 1)
    BY SameValues
  <2>5. object = RunningObjects[Receiver(m).i]
    BY <1>1 DEF object
  <2>6. /\ RunningActivations'
             = D!With(Append(Rest(m, argc), D!Instance(Len(RunningObjects) + 1)))
        /\ RunningObjects' = Append(RunningObjects, RunningObjects[Receiver(m).i])
    BY <1>1, <2>2, <2>3, <2>4, <2>5
  <2>7. QED
    BY <1>4, <1>6, <2>3, <2>6 DEF D!Clones
<1>7. QED
  BY <1>5, <1>6

LEMMA CreatesResult ==
  ASSUME FullInv, status = "running", AtExpression, NEW m, NEW argc,
         Prepared(m, argc), m.heap = heap, Receiver(m).class \in Made,
         Becomes(CallClass(m, argc))
  PROVE  D!Creates([class |-> Receiver(m).class, fields |-> D!NoMethods],
                   Given(m, argc), Rest(m, argc))
<1> DEFINE class == Receiver(m).class
           object == [class |-> class, fields |-> NoMethods]
           made == NewInstance(m, object)
           ctor == classes[class].operations["ctor"]
           placed == SetTop(made, argc, Newest(made))
           p == PrepareCallFrame(placed, argc)
           new == Instance(Len(heap) + 1)
<1>1. IInv /\ IsMachine(m) /\ InFrame(m) /\ RunningObjects = heap
  BY DEF FullInv, Prepared, Ready, InFrame, RunningObjects
<1>2. object \in HeapObjects(Made, Len(m.heap))
  BY DEF HeapObjects, NoMethods
<1>3. Given(m, argc) = << >> <=> argc = 0
  BY <1>1, GivenIs
<1>4. D!FindOperation(class, "ctor") = ctor
  <2>1. PICK slot \in Slots : slot = "ctor"
    BY DEF Slots
  <2>2. \A c \in Made : D!FindOperation(c, slot) = classes[c].operations[slot]
    BY FindsOperation
  <2>3. QED
    BY <2>1, <2>2
<1>5. D!NoMethods = NoMethods /\ D!Null = Null /\ D!Instance(Len(heap) + 1) = new
  BY SameValues
<1>6. ctor # Null => ctor \in Closures(Made)
  <2>1. class \in UserClasses
    BY DEF Made
  <2>2. classes[class] \in Tables(Made)
    BY <1>1, <2>1 DEF IInv, ValuesInv
  <2>3. /\ ctor \in Closures(Made) \cup {Null} \cup OperationNatives
        /\ ctor \notin OperationNatives
    BY <2>2 DEF Tables, OperationTables, Slots
  <2>4. QED
    BY <2>3
<1>7. CallClass(m, argc) =
        CASE ctor # Null -> CallClosure(p, ctor, argc)
          [] ctor = Null /\ argc # 0 -> RuntimeError(m)
          [] OTHER -> ReturnValue(made, Newest(made))
  BY DEF CallClass
<1> DEFINE creates == D!Creates([class |-> class, fields |-> D!NoMethods],
                                Given(m, argc), Rest(m, argc))
<1>8. creates <=>
        IF ctor = Null
        THEN IF Given(m, argc) = << >>
             THEN /\ RunningActivations' = D!With(Append(Rest(m, argc), new))
                  /\ RunningObjects' = Append(heap, object)
                  /\ status' = status
             ELSE D!Fails
        ELSE /\ D!Enters(ctor, new, Given(m, argc), Rest(m, argc))
             /\ RunningObjects' = IF status' = "error" THEN << >>
                                  ELSE Append(heap, object)
  BY <1>1, <1>4, <1>5 DEF D!Creates
<1> HIDE DEF object, ctor, class
<1>9. /\ Prepared(made, argc) /\ Ready(made, argc) /\ made.heap = Append(heap, object)
      /\ Newest(made) = new
      /\ Newest(made) \in Values(Made, Len(made.heap))
      /\ Newest(made).k = "instance"
      /\ Rest(made, argc) = Rest(m, argc) /\ Given(made, argc) = Given(m, argc)
  BY <1>1, <1>2, NewInstanceShown
<1> HIDE DEF made, new, creates
<1>10. CASE ctor # Null
  <2>1. /\ Ready(placed, argc) /\ Top(placed, argc) = Newest(made)
        /\ placed.heap = made.heap
        /\ Rest(placed, argc) = Rest(made, argc) /\ Given(placed, argc) = Given(made, argc)
    BY <1>1, <1>9, SetTopReady, SetTopKeeps
  <2> HIDE DEF placed
  <2>2. Prepared(p, argc) /\ Receiver(p) = Newest(made) /\ p.heap = made.heap
        /\ p.stack = placed.stack
    BY <1>1, <2>1, PrepareReady
  <2>3. Becomes(CallClosure(p, ctor, argc))
    BY <1>7, <1>10
  <2> HIDE DEF p
  <2>4. /\ D!Enters(ctor, Receiver(p), Given(p, argc), Rest(p, argc))
        /\ RunningObjects' = IF status' = "error" THEN << >> ELSE p.heap
    BY <1>6, <1>9, <1>10, <2>2, <2>3, EntersResult
  <2>5. Given(p, argc) = Given(m, argc) /\ Rest(p, argc) = Rest(m, argc)
    BY <1>9, <2>1, <2>2 DEF Given, Rest
  <2>6. QED
    BY <1>8, <1>9, <1>10, <2>2, <2>4, <2>5 DEF creates, class
<1>11. CASE ctor = Null /\ argc # 0
  <2>1. Becomes(RuntimeError(m))
    BY <1>7, <1>11
  <2>2. D!Fails
    BY <1>1, <2>1, StoppedResult
  <2>3. QED
    BY <1>3, <1>8, <1>11, <2>2 DEF creates, class
<1>12. CASE ctor = Null /\ argc = 0
  <2>1. Becomes(ReturnValue(made, Newest(made)))
    BY <1>7, <1>12
  <2>2. /\ RunningActivations' = D!With(Append(Rest(made, argc), Newest(made)))
        /\ RunningObjects' = made.heap /\ status' = status
    BY <1>9, <2>1, ReturnValueResult
  <2>3. QED
    BY <1>3, <1>8, <1>9, <1>12, <2>2 DEF creates, class
<1>13. QED
  BY <1>10, <1>11, <1>12
LEMMA PreparedShown ==
  ASSUME FullInv, status = "running", NEW m, NEW argc, Ready(m, argc)
  PROVE  LET p == PrepareCallFrame(m, argc) IN
         /\ Prepared(p, argc) /\ p.heap = m.heap /\ IsMachine(p)
         /\ Receiver(p) = Top(m, argc)
         /\ Given(p, argc) = Given(m, argc) /\ Rest(p, argc) = Rest(m, argc)
<1> DEFINE p == PrepareCallFrame(m, argc)
<1>1. Prepared(p, argc) /\ p.stack = m.stack /\ p.heap = m.heap /\ Receiver(p) = Top(m, argc)
  BY PrepareReady DEF FullInv
<1> HIDE DEF p
<1>2. IsMachine(p)
  BY <1>1 DEF Prepared, Ready, InFrame
<1>3. QED
  BY <1>1, <1>2 DEF p, Given, Rest

(* A native that looks at its receiver and its arguments only.             *)
LEMMA NativeAnswers ==
  ASSUME FullInv, status = "running", AtExpression, NEW m, NEW argc,
         Prepared(m, argc), m.heap = heap, NEW name, NEW callee,
         name \notin {"class call", "closure call", "clone"},
         Becomes(CallNative(m, name, callee, argc))
  PROVE  D!Answers(D!NativeResult(name, Receiver(m), Given(m, argc)), Rest(m, argc))
<1> DEFINE result == NativeResult(name, Receiver(m), Given(m, argc))
<1>1. /\ Arguments(m, argc) = Given(m, argc)
      /\ Given(m, argc) \in Seq(Values(Made, Len(m.heap)))
  BY GivenIs DEF FullInv
<1>2. Becomes(Conclude(m, result))
  BY <1>1 DEF CallNative
<1>3. Len(m.heap) \in Nat
  BY MachineFacts DEF Prepared, Ready, InFrame
<1>4. result.outcome = "value" => result.value \in Values(Made, Len(m.heap))
  BY <1>1, <1>3, NativeResultType
<1>5. D!NativeResult(name, Receiver(m), Given(m, argc)) = result
  BY SameNatives
<1> HIDE DEF result
<1>6. D!Answers(result, Rest(m, argc))
  BY <1>2, <1>4, AnswersResult
<1>7. QED
  BY <1>5, <1>6

(* What calling a value of a built-in class does.                          *)
LEMMA BuiltinCalls ==
  /\ BuiltinOperations("closure")["call"] = Native("closure call")
  /\ BuiltinOperations("string")["call"] = Null
  /\ BuiltinOperations("class")["call"] = Native("class call")
  /\ BuiltinOperations("string meta")["call"] = Native("string meta call")
  /\ BuiltinOperations("closure meta")["call"] = Native("closure meta call")
  BY DEF BuiltinOperations, CallOfMeta, NoOperations, Slots, Native, Null

LEMMA ClosureCalled ==
  ASSUME NEW m, NEW argc, NEW f, f.k = "closure"
  PROVE  CallValue(m, f, argc) = CallClosure(PrepareCallFrame(m, argc), f, argc)
<1> DEFINE p == PrepareCallFrame(m, argc)
           operation == OperationsOf(p, f)["call"]
<1>1. OperationsOf(p, f) = BuiltinOperations(f.k)
  BY DEF OperationsOf
<1>2. operation = Native("closure call")
  BY <1>1, BuiltinCalls
<1>3. operation.k = "native" /\ operation.name = "closure call" /\ operation # Null
  BY <1>2, Kinds
<1>4. CallValue(m, f, argc) = PerformCall(p, f, argc)
  BY DEF CallValue, IsObject
<1>5. PerformCall(p, f, argc) = CallNative(p, operation.name, f, argc)
  <2> HIDE DEF p
  <2>1. PerformCall(p, f, argc) =
          CASE f.k = "native" -> CallNative(p, f.name, f, argc)
            [] f.k = "bound" -> Undefined(p)
            [] f.k \notin {"native", "bound"} /\ operation = Null -> RuntimeError(p)
            [] f.k \notin {"native", "bound"} /\ operation.k = "native" ->
                 CallNative(p, operation.name, f, argc)
            [] OTHER -> Undefined(p)
    BY DEF PerformCall
  <2> HIDE DEF operation
  <2>2. QED
    BY <1>3, <2>1
<1> HIDE DEF p, operation
<1>6. CallNative(p, "closure call", f, argc) = CallClosure(p, f, argc)
  BY DEF CallNative
<1>7. QED
  BY <1>3, <1>4, <1>5, <1>6 DEF p

(* What can be called on a receiver: a method or an operation of its class. *)
Applicable(f, this) ==
  /\ f.k = "closure" =>
       f \in Closures(Made) /\ (f.super # Null => this.k = "instance")
  /\ f.k = "native" =>
       /\ f.name \notin {"class call", "closure call"}
       /\ f.name = "clone" => this.k = "instance"
  /\ f.k \in {"closure", "native"} \/ ~IsObject(f)

LEMMA AppliesResult ==
  ASSUME FullInv, status = "running", AtExpression, NEW m, NEW argc,
         Ready(m, argc), m.heap = heap, NEW f, Applicable(f, Top(m, argc)),
         Becomes(CallValue(m, f, argc))
  PROVE  D!Applies(f, Top(m, argc), Given(m, argc), Rest(m, argc))
<1> DEFINE p == PrepareCallFrame(m, argc)
<1>1. /\ Prepared(p, argc) /\ p.heap = heap /\ IsMachine(p)
      /\ Receiver(p) = Top(m, argc)
      /\ Given(p, argc) = Given(m, argc) /\ Rest(p, argc) = Rest(m, argc)
  BY PreparedShown
<1> HIDE DEF p
<1>2. CASE f.k = "closure"
  <2>1. Becomes(CallClosure(p, f, argc))
    BY <1>2, ClosureCalled DEF p
  <2>2. f \in Closures(Made) /\ (f.super # Null => Receiver(p).k = "instance")
    BY <1>1, <1>2 DEF Applicable
  <2>3. /\ D!Enters(f, Receiver(p), Given(p, argc), Rest(p, argc))
        /\ RunningObjects' = IF status' = "error" THEN << >> ELSE p.heap
    BY <1>1, <2>1, <2>2, EntersResult
  <2>4. RunningObjects = heap
    BY DEF RunningObjects
  <2>5. QED
    BY <1>1, <1>2, <2>3, <2>4 DEF D!Applies
<1>3. CASE f.k = "native"
  <2>1. CallValue(m, f, argc) = CallNative(p, f.name, f, argc)
    BY <1>3 DEF CallValue, PerformCall, p
  <2>2. CASE f.name = "clone"
    <3>1. Becomes(CallClone(p, argc))
      BY <2>1, <2>2 DEF CallNative
    <3>2. Receiver(p).k = "instance"
      BY <1>1, <1>3, <2>2 DEF Applicable
    <3>3. D!Clones(Receiver(p), Given(p, argc), Rest(p, argc))
      BY <1>1, <3>1, <3>2, ClonesResult
    <3>4. QED
      BY <1>1, <1>3, <2>2, <3>3 DEF D!Applies
  <2>3. CASE f.name # "clone"
    <3> DEFINE name == f.name
    <3>1. name \notin {"class call", "closure call", "clone"}
      BY <1>3, <2>3 DEF Applicable
    <3>2. Becomes(CallNative(p, name, f, argc))
      BY <2>1
    <3> HIDE DEF name
    <3>3. D!Answers(D!NativeResult(name, Receiver(p), Given(p, argc)), Rest(p, argc))
      BY <1>1, <3>1, <3>2, NativeAnswers
    <3>4. QED
      BY <1>1, <1>3, <2>3, <3>3 DEF D!Applies, name
  <2>4. QED
    BY <2>2, <2>3
<1>4. CASE f.k \notin {"closure", "native"}
  <2>1. CallValue(m, f, argc) = RuntimeError(m)
    BY <1>4 DEF Applicable, CallValue
  <2>2. Becomes(RuntimeError(m)) /\ IsMachine(m)
    BY <2>1 DEF Ready, InFrame
  <2>3. D!Fails
    BY <2>2, StoppedResult
  <2>4. QED
    BY <1>4, <2>3 DEF D!Applies
<1>5. QED
  BY <1>2, <1>3, <1>4
(* Built-in classes have names no class of a program has.                  *)
LEMMA BuiltinNames ==
  {"string", "closure", "class", "string meta", "closure meta"} \cap UserClasses = {}
<1>1. {"", "string", "closure", "class", "string meta", "closure meta"}
        \cap UserClasses = {}
  BY CallsAssumption, Zenon
<1>2. {"string", "closure", "class", "string meta", "closure meta"}
        \subseteq {"", "string", "closure", "class", "string meta", "closure meta"}
  BY Zenon
<1>3. QED
  BY <1>1, <1>2, Zenon

(* The operation in the table is the one that looking along the            *)
(* superclasses finds.                                                     *)
LEMMA OperationShown ==
  ASSUME FullInv, status = "running", NEW m, IsMachine(m), m.heap = heap,
         NEW v, HasOperations(m, v), IsObject(v), NEW slot \in Slots
  PROVE  D!Operation(v, slot) = OperationsOf(m, v)[slot]
<1>1. /\ \A c \in Made : D!FindOperation(c, slot) = classes[c].operations[slot]
      /\ \A c : c \notin UserClasses => D!FindOperation(c, slot) = BuiltinOperations(c)[slot]
  BY FindsOperation
<1>2. RunningObjects = heap
  BY DEF RunningObjects
<1>3. CASE v.k = "instance"
  <2>1. heap[v.i].class \in Made
    BY <1>3, HeapObjectType DEF FullInv, HasOperations
  <2>2. D!ClassOf(v) = heap[v.i].class
    BY <1>2, <1>3 DEF D!ClassOf
  <2>3. OperationsOf(m, v) = classes[heap[v.i].class].operations
    BY <1>3 DEF OperationsOf
  <2>4. QED
    BY <1>1, <2>1, <2>2, <2>3 DEF D!Operation
<1>4. CASE v.k = "class" /\ v.class \in UserClasses
  <2>1. D!ClassOf(v) = "class"
    BY <1>4 DEF D!ClassOf
  <2>2. OperationsOf(m, v) = BuiltinOperations("class")
    BY <1>4 DEF OperationsOf
  <2>3. "class" \notin UserClasses
    BY BuiltinNames
  <2>4. QED
    BY <1>1, <2>1, <2>2, <2>3 DEF D!Operation
<1>5. CASE v.k = "class" /\ v.class \notin UserClasses
  <2>1. D!ClassOf(v) = MetaClass(v.class)
    BY <1>5, SameValues DEF D!ClassOf
  <2>2. OperationsOf(m, v) = BuiltinOperations(MetaClass(v.class))
    BY <1>5 DEF OperationsOf
  <2>3. MetaClass(v.class) \notin UserClasses
    BY BuiltinNames DEF MetaClass
  <2>4. QED
    BY <1>1, <2>1, <2>2, <2>3 DEF D!Operation
<1>6. CASE v.k \in {"string", "closure"}
  <2>1. D!ClassOf(v) = v.k
    BY <1>6 DEF D!ClassOf
  <2>2. OperationsOf(m, v) = BuiltinOperations(v.k)
    BY <1>6 DEF OperationsOf
  <2>3. v.k \notin UserClasses
    BY <1>6, BuiltinNames
  <2>4. QED
    BY <1>1, <2>1, <2>2, <2>3 DEF D!Operation
<1>7. QED
  BY <1>3, <1>4, <1>5, <1>6 DEF HasOperations, IsObject

(* Calling a class: of the program, or one that is built in.               *)
LEMMA ClassCalled ==
  ASSUME FullInv, status = "running", AtExpression, NEW m, NEW argc,
         Ready(m, argc), m.heap = heap, Top(m, argc).k = "class",
         Top(m, argc) \in Values(Made, Len(m.heap)),
         Becomes(CallValue(m, Top(m, argc), argc))
  PROVE  D!Calls(Top(m, argc), Given(m, argc), Rest(m, argc))
<1> DEFINE p == PrepareCallFrame(m, argc)
           callee == Top(m, argc)
           operation == OperationsOf(p, callee)["call"]
           args == Given(m, argc)
           rest == Rest(m, argc)
<1>1. /\ Prepared(p, argc) /\ p.heap = heap /\ IsMachine(p)
      /\ Receiver(p) = callee /\ Given(p, argc) = args /\ Rest(p, argc) = rest
  BY PreparedShown
<1>2. callee.class \in Made \cup {"string", "closure"}
  BY MachineFacts, ValueKinds DEF Ready, InFrame
<1>3. CallValue(m, callee, argc) = PerformCall(p, callee, argc)
  BY DEF CallValue, IsObject
<1>4. IsObject(callee) /\ HasOperations(p, callee)
  BY <1>1, ValueHasOperations DEF IsObject
<1>5. \A name : operation = Native(name) =>
        CallValue(m, callee, argc) = CallNative(p, name, callee, argc)
  <2>1. TAKE name
  <2>2. HAVE operation = Native(name)
  <2>3. operation.k = "native" /\ operation.name = name /\ operation # Null
    BY <2>2, Kinds
  <2> HIDE DEF p, callee
  <2>4. PerformCall(p, callee, argc) =
          CASE callee.k = "native" -> CallNative(p, callee.name, callee, argc)
            [] callee.k = "bound" -> Undefined(p)
            [] callee.k \notin {"native", "bound"} /\ operation = Null -> RuntimeError(p)
            [] callee.k \notin {"native", "bound"} /\ operation.k = "native" ->
                 CallNative(p, operation.name, callee, argc)
            [] OTHER -> Undefined(p)
    BY DEF PerformCall
  <2>5. callee.k = "class"
    BY DEF callee
  <2> HIDE DEF operation
  <2>6. QED
    BY <1>3, <2>3, <2>4, <2>5
<1>6. CASE callee.class \in UserClasses
  <2>1. operation = Native("class call")
    <3>1. OperationsOf(p, callee) = BuiltinOperations("class")
      BY <1>6 DEF OperationsOf
    <3>2. QED
      BY <3>1, BuiltinCalls
  <2>2. callee.class \in Made
    BY <1>2, <1>6, BuiltinNames
  <2> HIDE DEF operation
  <2>3. Becomes(CallNative(p, "class call", callee, argc))
    BY <1>5, <2>1
  <2> HIDE DEF p
  <2>4. Becomes(CallClass(p, argc))
    BY <2>3 DEF CallNative
  <2>5. D!Creates([class |-> Receiver(p).class, fields |-> D!NoMethods],
                  Given(p, argc), Rest(p, argc))
    BY <1>1, <2>2, <2>4, CreatesResult
  <2>6. D!Creates([class |-> callee.class, fields |-> D!NoMethods], args, rest)
    BY <1>1, <2>5
  <2> HIDE DEF callee, args, rest
  <2>7. callee.k = "class"
    BY DEF callee
  <2>8. D!Calls(callee, args, rest)
    BY <1>6, <2>6, <2>7 DEF D!Calls
  <2>9. QED
    BY <2>8 DEF callee, args, rest
<1>7. CASE callee.class \notin UserClasses
  <2>1. \E name : name \notin {"class call", "closure call", "clone"}
                  /\ operation = Native(name)
    <3>1. OperationsOf(p, callee) = BuiltinOperations(MetaClass(callee.class))
      BY <1>7 DEF OperationsOf
    <3>2. MetaClass(callee.class) \in {"string meta", "closure meta"}
      BY DEF MetaClass
    <3>3. operation \in {Native("string meta call"), Native("closure meta call")}
      BY <3>1, <3>2, BuiltinCalls
    <3> HIDE DEF operation
    <3>4. QED
      BY <3>3
  <2>2. PICK name : name \notin {"class call", "closure call", "clone"}
                    /\ operation = Native(name)
    BY <2>1
  <2>3. D!Operation(callee, "call") = operation
    <3>1. PICK slot \in Slots : slot = "call"
      BY DEF Slots
    <3>2. D!Operation(callee, slot) = OperationsOf(p, callee)[slot]
      BY <1>1, <1>4, OperationShown
    <3>3. QED
      BY <3>1, <3>2
  <2> HIDE DEF operation
  <2>4. D!Operation(callee, "call").name = name
    <3>1. operation.name = name
      BY <2>2, Kinds
    <3> HIDE DEF callee
    <3>2. QED
      BY <2>3, <3>1
  <2>5. Becomes(CallNative(p, name, callee, argc))
    BY <1>5, <2>2
  <2> HIDE DEF p
  <2>6. D!Answers(D!NativeResult(name, Receiver(p), Given(p, argc)), Rest(p, argc))
    BY <1>1, <2>2, <2>5, NativeAnswers
  <2>7. D!Answers(D!NativeResult(name, callee, args), rest)
    BY <1>1, <2>6
  <2> HIDE DEF callee, args, rest
  <2>8. callee.k = "class"
    BY DEF callee
  <2>9. D!Calls(callee, args, rest)
    BY <1>7, <2>4, <2>7, <2>8 DEF D!Calls
  <2>10. QED
    BY <2>9 DEF callee, args, rest
<1>8. QED
  BY <1>6, <1>7

(* Calling an instance reaches a native that misreads it, or a closure     *)
(* that is called as if it were a native, or nothing.                      *)
LEMMA InstanceCalled ==
  ASSUME FullInv, status = "running", AtExpression, NEW m, NEW argc,
         Ready(m, argc), m.heap = heap, Top(m, argc).k = "instance",
         Top(m, argc) \in Values(Made, Len(m.heap)),
         Becomes(CallValue(m, Top(m, argc), argc))
  PROVE  D!Calls(Top(m, argc), Given(m, argc), Rest(m, argc))
<1> DEFINE p == PrepareCallFrame(m, argc)
           callee == Top(m, argc)
           operation == OperationsOf(p, callee)["call"]
           args == Given(m, argc)
           rest == Rest(m, argc)
<1>1. Prepared(p, argc) /\ p.heap = heap /\ IsMachine(p)
  BY PreparedShown
<1>2. CallValue(m, callee, argc) = PerformCall(p, callee, argc)
  BY DEF CallValue, IsObject
<1>3. IsObject(callee) /\ HasOperations(p, callee)
  BY <1>1, ValueHasOperations DEF IsObject
<1>4. PICK slot \in Slots : slot = "call"
  BY DEF Slots
<1>5. D!Operation(callee, "call") = operation
  <2>1. D!Operation(callee, slot) = OperationsOf(p, callee)[slot]
    BY <1>1, <1>3, <1>4, OperationShown
  <2>2. QED
    BY <1>4, <2>1
<1>6. operation \in Closures(Made) \cup {Null, Native("closure call")}
  <2>1. OperationsOf(p, callee) = classes[heap[callee.i].class].operations
    BY <1>1 DEF OperationsOf
  <2>2. heap[callee.i].class \in Made
    BY <1>1, <1>3, HeapObjectType DEF FullInv, HasOperations
  <2>3. classes[heap[callee.i].class].operations[slot]
          \in Closures(Made) \cup {Null, Native("closure call")}
    <3> DEFINE c == heap[callee.i].class
    <3>1. c \in Made
      BY <2>2
    <3> HIDE DEF c
    <3>2. classes[c].operations[slot] \in Closures(Made) \cup {Null, Native("closure call")}
      BY <1>4, <3>1, InheritedSlots
    <3>3. QED
      BY <3>2 DEF c
  <2>4. QED
    BY <1>4, <2>1, <2>3
<1> HIDE DEF p
<1>7. PerformCall(p, callee, argc) =
        CASE callee.k = "native" -> CallNative(p, callee.name, callee, argc)
          [] callee.k = "bound" -> Undefined(p)
          [] callee.k \notin {"native", "bound"} /\ operation = Null -> RuntimeError(p)
          [] callee.k \notin {"native", "bound"} /\ operation.k = "native" ->
               CallNative(p, operation.name, callee, argc)
          [] OTHER -> Undefined(p)
  BY DEF PerformCall
<1> HIDE DEF operation
<1>8. PerformCall(p, callee, argc) = IF operation = Null THEN RuntimeError(p) ELSE Undefined(p)
  <2>1. CASE operation = Null
    <3>1. operation.k = "null" /\ callee.k = "instance"
      BY <2>1, Kinds
    <3> HIDE DEF callee
    <3>2. QED
      BY <1>7, <2>1, <3>1
  <2>2. CASE operation = Native("closure call")
    <3>1. operation.k = "native" /\ operation.name = "closure call" /\ operation # Null
      BY <2>2, Kinds
    <3>2. CallNative(p, "closure call", callee, argc) = Undefined(p)
      BY DEF CallNative
    <3>3. QED
      BY <1>7, <3>1, <3>2
  <2>3. CASE operation \in Closures(Made)
    <3>1. operation.k = "closure" /\ operation # Null
      BY <2>3, Kinds
    <3>2. QED
      BY <1>7, <3>1
  <2>4. QED
    BY <1>6, <2>1, <2>2, <2>3
<1>9. D!Null = Null
  BY SameValues
<1>10. Becomes(IF operation = Null THEN RuntimeError(p) ELSE Undefined(p))
  BY <1>2, <1>8
<1>11. IF operation = Null THEN D!Fails ELSE D!Hole
  BY <1>1, <1>10, StoppedResult
<1>12. callee.k = "instance"
  OBVIOUS
<1> HIDE DEF callee, args, rest
<1>13. D!Calls(callee, args, rest)
  BY <1>5, <1>9, <1>11, <1>12 DEF D!Calls
<1>14. QED
  BY <1>13 DEF callee, args, rest

LEMMA CallsResult ==
  ASSUME FullInv, status = "running", AtExpression, NEW m, NEW argc,
         Ready(m, argc), m.heap = heap,
         Becomes(CallValue(m, Top(m, argc), argc))
  PROVE  D!Calls(Top(m, argc), Given(m, argc), Rest(m, argc))
<1> DEFINE p == PrepareCallFrame(m, argc)
           callee == Top(m, argc)
           args == Given(m, argc)
           rest == Rest(m, argc)
<1>1. IsMachine(m) /\ IsMachine(p) /\ argc \in Nat /\ Len(m.stack) > Floor + argc
      /\ InFrame(m)
  BY PreparedShown DEF Ready, InFrame
<1>2. callee \in Values(Made, Len(m.heap))
  BY <1>1, TopType DEF FullInv
<1>3. callee.k \in {"null", "number", "bool", "string", "class", "closure",
                    "native", "instance", "bound"}
  BY <1>1, <1>2, MachineFacts, ValueKinds
<1>4. CASE callee.k \in {"closure", "native"}
  <2>1. /\ callee.k = "closure" => callee \in GlobalFunctions
        /\ callee.k = "native" => callee.name \in {"clock", "srand"}
    BY <1>1, <1>2, MachineFacts, ValueKinds
  <2>2. callee \in GlobalFunctions => callee \in Closures(Made) /\ callee.super = Null
    BY DEF GlobalFunctions, Closures, FunctionKinds
  <2> HIDE DEF callee
  <2>3. Applicable(callee, callee)
    BY <1>4, <2>1, <2>2 DEF Applicable
  <2>4. D!Applies(callee, callee, args, rest)
    BY <2>3, AppliesResult DEF callee
  <2> HIDE DEF args, rest
  <2>5. D!Calls(callee, args, rest)
    BY <1>4, <2>4 DEF D!Calls
  <2>6. QED
    BY <2>5 DEF callee, args, rest
<1>5. CASE callee.k = "class"
  BY <1>2, <1>5, ClassCalled
<1>6. CASE callee.k = "instance"
  BY <1>2, <1>6, InstanceCalled
<1>7. CASE callee.k = "bound"
  <2>1. CallValue(m, callee, argc) = Undefined(p)
    BY <1>7 DEF CallValue, PerformCall, IsObject
  <2>2. D!Hole
    BY <1>1, <2>1, StoppedResult
  <2> HIDE DEF callee, args, rest
  <2>3. D!Calls(callee, args, rest)
    BY <1>7, <2>2 DEF D!Calls
  <2>4. QED
    BY <2>3 DEF callee, args, rest
<1>8. CASE callee.k \in {"null", "number", "bool"}
  <2>1. CallValue(m, callee, argc) = RuntimeError(m)
    BY <1>8 DEF CallValue, IsObject
  <2>2. D!Fails
    BY <1>1, <2>1, StoppedResult
  <2> HIDE DEF callee, args, rest
  <2>3. D!Calls(callee, args, rest)
    BY <1>8, <2>2 DEF D!Calls
  <2>4. QED
    BY <2>3 DEF callee, args, rest
<1>9. CASE callee.k = "string"
  <2> DEFINE operation == OperationsOf(p, callee)["call"]
  <2>1. operation = Null
    BY <1>9, BuiltinCalls DEF OperationsOf
  <2>2. CallValue(m, callee, argc) = PerformCall(p, callee, argc)
    BY <1>9 DEF CallValue, IsObject
  <2>3. operation.k = "null"
    BY <2>1, Kinds
  <2> HIDE DEF p, callee
  <2>4. PerformCall(p, callee, argc) =
          CASE callee.k = "native" -> CallNative(p, callee.name, callee, argc)
            [] callee.k = "bound" -> Undefined(p)
            [] callee.k \notin {"native", "bound"} /\ operation = Null -> RuntimeError(p)
            [] callee.k \notin {"native", "bound"} /\ operation.k = "native" ->
                 CallNative(p, operation.name, callee, argc)
            [] OTHER -> Undefined(p)
    BY DEF PerformCall
  <2> HIDE DEF operation, args, rest
  <2>5. PerformCall(p, callee, argc) = RuntimeError(p)
    BY <1>9, <2>1, <2>3, <2>4
  <2>6. D!Fails
    <3>1. CallValue(m, callee, argc) = RuntimeError(p)
      BY <2>2, <2>5
    <3>2. Becomes(RuntimeError(p))
      BY <3>1 DEF callee
    <3>3. QED
      BY <1>1, <3>2, StoppedResult
  <2>7. D!Calls(callee, args, rest)
    BY <1>9, <2>6 DEF D!Calls
  <2>8. QED
    BY <2>7 DEF callee, args, rest
<1>10. QED
  BY <1>3, <1>4, <1>5, <1>6, <1>7, <1>8, <1>9

(***************************************************************************)
(* Expressions do what DynamicDispatch says of them                        *)
(***************************************************************************)

(* Methods are looked up in the classes of programs only.                  *)
LEMMA MethodShown ==
  ASSUME FullInv, NEW c \in Made \cup {"string", "closure"}, NEW n \in Names
  PROVE  /\ D!FindMethod(c, n) = MethodsOf(c)[n]
         /\ MethodsOf(c)[n] \in Closures(Made) \cup {Absent, Native("clone")}
<1>1. MethodsOf(c) \in [Names -> Closures(Made) \cup {Absent, Native("clone")}]
  BY TableOfType DEF FullInv
<1>2. CASE c \in Made
  <2>1. c \in UserClasses
    BY <1>2 DEF Made
  <2>2. QED
    BY <1>1, <1>2, <2>1, FindsMethod DEF MethodsOf
<1>3. CASE c \in {"string", "closure"}
  <2>1. c \notin UserClasses
    BY <1>3, BuiltinNames
  <2>2. D!FindMethod(c, n) = D!Absent
    BY <2>1 DEF D!FindMethod
  <2>3. QED
    BY <1>1, <2>1, <2>2, SameValues DEF MethodsOf, NoMethods
<1>4. QED
  BY <1>2, <1>3

LEMMA InvokeFromClassResult ==
  ASSUME FullInv, status = "running", AtExpression, NEW m, NEW argc,
         Ready(m, argc), m.heap = heap, Top(m, argc).k = "instance",
         NEW c \in Made \cup {"string", "closure"}, NEW n \in Names,
         Becomes(InvokeFromClass(m, c, n, argc))
  PROVE  D!Applies(D!FindMethod(c, n), Top(m, argc), Given(m, argc), Rest(m, argc))
<1> DEFINE method == MethodsOf(c)[n]
           this == Top(m, argc)
           args == Given(m, argc)
           rest == Rest(m, argc)
<1>1. D!FindMethod(c, n) = method
      /\ method \in Closures(Made) \cup {Absent, Native("clone")}
  BY MethodShown
<1>2. IsMachine(m)
  BY DEF Ready, InFrame
<1>3. CASE method = Absent
  <2>1. InvokeFromClass(m, c, n, argc) = RuntimeError(m)
    BY <1>3 DEF InvokeFromClass
  <2>2. D!Fails
    BY <1>2, <2>1, StoppedResult
  <2>3. method.k = "absent"
    BY <1>3, Kinds
  <2> HIDE DEF method, this, args, rest
  <2>4. D!Applies(method, this, args, rest)
    BY <2>2, <2>3 DEF D!Applies
  <2>5. QED
    BY <1>1, <2>4 DEF this, args, rest
<1>4. CASE method # Absent
  <2>1. InvokeFromClass(m, c, n, argc) = CallValue(m, method, argc)
    BY <1>4 DEF InvokeFromClass
  <2>2. this.k = "instance"
    OBVIOUS
  <2>3. method \in Closures(Made) \/ method = Native("clone")
    BY <1>1, <1>4
  <2> HIDE DEF method
  <2>4. Applicable(method, this)
    <3> HIDE DEF this
    <3>1. CASE method \in Closures(Made)
      BY <2>2, <3>1, Kinds DEF Applicable
    <3>2. CASE method = Native("clone")
      <4>1. method.k = "native" /\ method.name = "clone"
        BY <3>2, Kinds
      <4>2. QED
        BY <2>2, <4>1 DEF Applicable
    <3>3. QED
      BY <2>3, <3>1, <3>2
  <2>5. D!Applies(method, this, args, rest)
    BY <2>1, <2>4, AppliesResult
  <2>6. QED
    BY <1>1, <2>5
<1>5. QED
  BY <1>3, <1>4

(* A field is called in its own place, a method on its receiver.           *)
LEMMA InvokeDispatch ==
  ASSUME FullInv, status = "running", AtExpression, NEW n \in Names,
         NEW argc \in Nat, OpInvoke(n, argc)
  PROVE  D!Invoke(n, argc)
<1> DEFINE this == Top(Machine, argc)
           args == Given(Machine, argc)
           rest == Rest(Machine, argc)
           object == heap[this.i]
           field == object.fields[n]
<1>1. IInv /\ decls = << >> /\ Operands > argc
  BY DEF FullInv, AtExpression, OpInvoke
<1>2. /\ Len(D!Operands) > argc /\ RunningObjects = heap
      /\ D!Operand(argc) = this /\ D!Args(argc) = args /\ D!Below(argc + 1) = rest
  BY <1>1, OperandsShown, OperandShown
<1>3. Ready(Machine, argc) /\ InFrame(Machine) /\ IsMachine(Machine)
      /\ Machine.heap = heap /\ Machine.stack = stack
  BY <1>1, OperandsReady, MachineInFrame DEF InFrame
<1>4. Becomes(InvokeMember(Machine, n, argc))
  BY DEF OpInvoke
<1>5. CASE this.k # "instance"
  <2>1. InvokeMember(Machine, n, argc) = RuntimeError(Machine)
    BY <1>5 DEF InvokeMember
  <2>2. D!Fails
    BY <1>3, <1>4, <2>1, StoppedResult
  <2> HIDE DEF this, args, rest
  <2>3. QED
    BY <1>2, <1>5, <2>2 DEF D!Invoke
<1>6. CASE this.k = "instance"
  <2>1. this \in Values(Made, Len(heap))
    BY <1>1, <1>3, TopType DEF Ready
  <2>2. this.i \in 1 .. Len(heap)
    BY <1>3, <1>6, <2>1, ValueKinds, MachineFacts
  <2>3. object \in HeapObjects(Made, Len(heap)) /\ object.class \in Made
    BY <1>1, <1>3, <2>2, HeapObjectType
  <2>4. field \in Values(Made, Len(heap)) \cup {Absent}
    BY <2>3 DEF HeapObjects
  <2>5. D!Absent = Absent
    BY SameValues
  <2>6. CASE field # Absent
    <3> DEFINE s == SetTop(Machine, argc, field)
    <3>1. Becomes(CallValue(s, field, argc))
      BY <1>3, <1>4, <1>6, <2>6 DEF InvokeMember
    <3>2. /\ Ready(s, argc) /\ s.heap = heap /\ Top(s, argc) = field
          /\ Rest(s, argc) = rest /\ Given(s, argc) = args
      BY <1>1, <1>3, <2>4, <2>6, SetTopReady, SetTopKeeps
    <3> HIDE DEF s, field, this, args, rest
    <3>3. D!Calls(field, args, rest)
      BY <3>1, <3>2, CallsResult
    <3>4. QED
      BY <1>2, <1>6, <2>5, <2>6, <3>3 DEF D!Invoke, field
  <2>7. CASE field = Absent
    <3>1. Becomes(InvokeFromClass(Machine, object.class, n, argc))
      BY <1>3, <1>4, <1>6, <2>7 DEF InvokeMember
    <3> DEFINE c == object.class
    <3>2. c \in Made /\ Becomes(InvokeFromClass(Machine, c, n, argc))
      BY <2>3, <3>1
    <3> HIDE DEF c
    <3>3. D!Applies(D!FindMethod(c, n), this, args, rest)
      BY <1>3, <1>6, <3>2, InvokeFromClassResult
    <3> HIDE DEF this, args, rest
    <3>4. QED
      BY <1>2, <1>6, <2>5, <2>7, <3>3 DEF D!Invoke, c
  <2>8. QED
    BY <2>6, <2>7
<1>7. QED
  BY <1>5, <1>6
(* What an instruction that goes on leaves to the activation it runs in.   *)
Shown(m) == SubSeq(m.stack, Floor + 1, Len(m.stack))

LEMMA ContinuesResult ==
  ASSUME FullInv, status = "running", AtExpression, NEW m, InFrame(m),
         m.heap = heap,
         Becomes(m) \/ (stack' = m.stack /\ frames' = m.frames /\ heap' = m.heap
                        /\ status' = m.status)
  PROVE  D!Continues(Shown(m))
<1>1. /\ RunningActivations' = D!With(Shown(m))
      /\ RunningObjects' = heap /\ status' = status
  BY InFrameResult DEF Shown
<1>2. RunningObjects = heap
  BY ShownActivations
<1>3. QED
  BY <1>1, <1>2 DEF D!Continues

LEMMA PopShown ==
  ASSUME IInv, status = "running", NEW m, NEW argc, Ready(m, argc)
  PROVE  Shown(Pop(m, argc + 1)) = Rest(m, argc)
<1> DEFINE b == Len(m.stack) - argc - 1
           s == m.stack
           V == Values(Made, Len(m.heap))
<1>1. /\ InFrame(m) /\ IsMachine(m) /\ argc \in Nat /\ Len(m.stack) > Floor + argc
  BY DEF Ready, InFrame
<1>2. /\ Floor \in Nat /\ Len(s) \in Nat /\ \A i \in 1 .. Len(s) : s[i] \in V
  BY <1>1, FrameFacts, MachineFacts
<1>3. Pop(m, argc + 1).stack = SubSeq(s, 1, b)
  <2>1. Pop(m, argc + 1).stack = SubSeq(s, 1, Len(s) - (argc + 1))
    BY <1>1 DEF Pop, IsMachine
  <2>2. Len(s) - (argc + 1) = b
    BY <1>1, <1>2
  <2>3. QED
    BY <2>1, <2>2
<1>4. Len(SubSeq(s, 1, b)) = b
  <2>1. b \in 0 .. Len(s) /\ s \in Seq(V)
    BY <1>1, <1>2, MachineFacts
  <2> HIDE DEF s, b, V
  <2>2. QED
    BY <2>1, TakePrefix
<1>5. Floor + 1 \in Nat \ {0} /\ b \in Int /\ b <= b - 1 + 1
      /\ 1 + (Floor + 1) - 1 = Floor + 1 /\ 1 + b - 1 = b
      /\ \A i \in 1 .. b : s[i] \in V
  BY <1>1, <1>2
<1> HIDE DEF s, b, V
<1>6. SubSeq(SubSeq(s, 1, b), Floor + 1, b) = SubSeq(s, 1 + (Floor + 1) - 1, 1 + b - 1)
  BY <1>5, CutOfCut
<1>7. QED
  BY <1>3, <1>4, <1>5, <1>6 DEF Shown, Rest, s, b

LEMMA PushShown ==
  ASSUME IInv, status = "running", NEW m, InFrame(m),
         NEW v \in Values(Made, Len(m.heap))
  PROVE  InFrame(Push(m, v)) /\ Push(m, v).heap = m.heap
         /\ Shown(Push(m, v)) = Append(Shown(m), v)
<1> DEFINE V == Values(Made, Len(m.heap))
<1>1. /\ IsMachine(m) /\ Floor \in 0 .. Len(m.stack) /\ m.stack \in Seq(V)
  BY FrameFacts, MachineFacts DEF InFrame, KeepsFloor
<1>2. Push(m, v).stack = Append(m.stack, v)
  BY <1>1 DEF Push, IsMachine
<1>3. Len(Append(m.stack, v)) = Len(m.stack) + 1
  BY <1>1, AppendProperties
<1> HIDE DEF V
<1>4. SubSeq(Append(m.stack, v), Floor + 1, Len(m.stack) + 1)
        = Append(SubSeq(m.stack, Floor + 1, Len(m.stack)), v)
  BY <1>1, CutOfAppend DEF V
<1>5. QED
  BY <1>2, <1>3, <1>4, PushInFrame DEF Shown

LEMMA SetTopShown ==
  ASSUME IInv, status = "running", NEW m, Ready(m, 0),
         NEW v \in Values(Made, Len(m.heap))
  PROVE  Shown(SetTop(m, 0, v)) = Append(Rest(m, 0), v)
<1> DEFINE p == SetTop(m, 0, v)
           s == p.stack
           V == Values(Made, Len(m.heap))
<1>1. /\ Ready(p, 0) /\ p.heap = m.heap /\ Top(p, 0) = v /\ Len(s) = Len(m.stack)
      /\ Rest(p, 0) = Rest(m, 0)
  BY SetTopReady, SetTopKeeps
<1>2. /\ IsMachine(p) /\ Len(s) > Floor + 0 /\ Floor \in Nat
  BY <1>1, FrameFacts DEF Ready, InFrame
<1> HIDE DEF p
<1>3. s \in Seq(V) /\ Floor + 1 \in 1 .. Len(s)
  BY <1>1, <1>2, MachineFacts
<1>4. Len(s) - 0 = Len(s) /\ Len(s) - 0 - 1 = Len(s) - 1
  BY <1>3
<1>5. Top(p, 0) = s[Len(s)] /\ Rest(p, 0) = SubSeq(s, Floor + 1, Len(s) - 1)
  BY <1>4 DEF Top, Rest
<1> HIDE DEF s, V
<1>6. SubSeq(s, Floor + 1, Len(s)) = Append(SubSeq(s, Floor + 1, Len(s) - 1), s[Len(s)])
  BY <1>3, CutAtLast
<1>7. QED
  BY <1>1, <1>5, <1>6 DEF Shown, s, p

(* bind_a_method: the receiver is replaced by what is bound to it.         *)
LEMMA BindMethodResult ==
  ASSUME FullInv, status = "running", AtExpression, NEW m, Ready(m, 0),
         m.heap = heap, Top(m, 0).k = "instance",
         NEW c \in Made \cup {"string", "closure"}, NEW n \in Names,
         Becomes(BindMethod(m, c, n))
  PROVE  LET method == D!FindMethod(c, n) IN
         IF method = D!Absent THEN D!Fails
         ELSE D!Continues(Append(Rest(m, 0), D!BoundMethod(Top(m, 0), method)))
<1> DEFINE method == MethodsOf(c)[n]
           bound == BoundMethod(Top(m, 0), method)
<1>1. D!FindMethod(c, n) = method
      /\ method \in Closures(Made) \cup {Absent, Native("clone")}
  BY MethodShown
<1>2. IInv /\ IsMachine(m) /\ InFrame(m) /\ Len(m.stack) > Floor + 0
  BY DEF Ready, InFrame, FullInv
<1>3. D!Absent = Absent /\ D!BoundMethod(Top(m, 0), method) = bound
  BY SameValues
<1>4. CASE method = Absent
  <2>1. BindMethod(m, c, n) = RuntimeError(m)
    BY <1>4 DEF BindMethod
  <2>2. D!Fails
    BY <1>2, <2>1, StoppedResult
  <2> HIDE DEF method
  <2>3. QED
    BY <1>1, <1>3, <1>4, <2>2
<1>5. CASE method # Absent
  <2>1. BindMethod(m, c, n) = SetTop(m, 0, bound)
    BY <1>5 DEF BindMethod
  <2>2. Top(m, 0) \in Instances(Len(m.heap))
    BY <1>2, TopType, ValueKinds, MachineFacts
  <2> HIDE DEF method
  <2>3. bound \in Values(Made, Len(m.heap))
    <3>1. bound \in BoundMethods(Made, Len(m.heap))
      BY <1>1, <1>5, <2>2 DEF BoundMethods, BoundMethod
    <3>2. QED
      BY <3>1 DEF Values
  <2> HIDE DEF bound
  <2>4. InFrame(SetTop(m, 0, bound)) /\ SetTop(m, 0, bound).heap = heap
    BY <1>2, <2>3, SetTopReady DEF Ready
  <2>5. Shown(SetTop(m, 0, bound)) = Append(Rest(m, 0), bound)
    BY <1>2, <2>3, SetTopShown
  <2>6. D!Continues(Append(Rest(m, 0), bound))
    BY <2>1, <2>4, <2>5, ContinuesResult
  <2>7. QED
    BY <1>1, <1>3, <1>5, <2>6
<1>6. QED
  BY <1>4, <1>5
(* Without the superclass on top, the machine is ready for what is below.  *)
LEMMA BelowSuper ==
  ASSUME FullInv, status = "running", decls = << >>, NEW n \in Nat,
         Operands > n + 1, Running.super # Null, Top(Machine, n + 1) = This
  PROVE  LET p == Pop(Machine, 1) IN
         /\ Ready(p, n) /\ IsMachine(p) /\ p.heap = heap
         /\ Top(p, n) = This /\ This.k = "instance"
         /\ Rest(p, n) = D!Below(n + 2)
         /\ Len(p.stack) = Len(stack) - 1
         /\ p.stack = SubSeq(stack, 1, Len(stack) - 1)
<1> DEFINE p == Pop(Machine, 1)
           V == Values(Made, Len(heap))
           b == Len(stack) - 1 - n - 1
<1>1. IInv /\ n + 1 \in Nat /\ Operands > n + 1
  BY DEF FullInv
<1>2. /\ InFrame(Machine) /\ IsMachine(Machine) /\ Machine.stack = stack
      /\ Machine.heap = heap /\ Ready(Machine, n + 1) /\ Ready(Machine, 1)
      /\ Len(stack) > Floor + n + 1
  <2>1. InFrame(Machine) /\ Machine.stack = stack /\ Machine.heap = heap
    BY <1>1, MachineInFrame
  <2>2. Ready(Machine, n + 1) /\ Len(stack) > Floor + (n + 1)
    BY <1>1, OperandsReady
  <2>3. 1 \in Nat /\ Operands > 1
    BY <1>1, FrameFacts DEF Operands
  <2>4. Ready(Machine, 1)
    BY <1>1, <2>3, OperandsReady
  <2>5. QED
    BY <1>1, <2>1, <2>2, <2>4, FrameFacts DEF InFrame
<1>3. Ready(p, n) /\ Top(p, n).k = "instance"
  BY <1>1, WithoutSuper
<1>4. Floor \in Nat /\ Len(stack) \in Nat /\ stack \in Seq(V)
  BY <1>1, <1>2, FrameFacts, MachineFacts
<1>5. p.stack = SubSeq(stack, 1, Len(stack) - 1) /\ p.heap = heap
  BY <1>2 DEF Pop, Machine
<1>6. Len(p.stack) = Len(stack) - 1
      /\ \A i \in 1 .. Len(stack) - 1 : p.stack[i] = stack[i]
  <2>1. Len(stack) - 1 \in 0 .. Len(stack)
    BY <1>1, <1>2, <1>4
  <2> HIDE DEF V, p
  <2>2. QED
    BY <1>4, <1>5, <2>1, TakePrefix
<1>7. Top(p, n) = This
  <2>1. Len(stack) - 1 - n \in 1 .. Len(stack) - 1
        /\ Len(stack) - 1 - n = Len(stack) - (n + 1)
    BY <1>1, <1>2, <1>4
  <2>2. p.stack[Len(stack) - 1 - n] = stack[Len(stack) - (n + 1)]
    BY <1>6, <2>1
  <2>3. QED
    BY <1>2, <1>6, <2>2 DEF Top
<1>8. Rest(p, n) = D!Below(n + 2)
  <2>1. D!Below(n + 1 + 1) = Rest(Machine, n + 1)
    BY <1>1, OperandShown
  <2>2. n + 1 + 1 = n + 2 /\ Len(stack) - (n + 1) - 1 = b /\ Len(p.stack) - n - 1 = b
    BY <1>1, <1>4, <1>6
  <2>3. Rest(Machine, n + 1) = SubSeq(stack, Floor + 1, b)
        /\ Rest(p, n) = SubSeq(p.stack, Floor + 1, b)
    BY <1>2, <2>2 DEF Rest
  <2>4. Floor + 1 \in Int /\ b \in Int
        /\ \A i \in Floor + 1 .. b : stack[i] \in V /\ p.stack[i] = stack[i]
    BY <1>1, <1>2, <1>4, <1>6, ElementOfSeq
  <2> HIDE DEF b, V, p
  <2>5. SubSeq(p.stack, Floor + 1, b) = SubSeq(stack, Floor + 1, b)
    BY <2>4, SameCut
  <2>6. QED
    BY <2>1, <2>2, <2>3, <2>5
<1>9. QED
  BY <1>3, <1>5, <1>6, <1>7, <1>8 DEF Ready, InFrame

(* op_get_super                                                            *)
LEMMA GetSuperDispatch ==
  ASSUME FullInv, status = "running", AtExpression, NEW n \in Names, OpGetSuper(n)
  PROVE  D!GetSuper(n)
<1> DEFINE p == Pop(Machine, 1)
           super == Top(Machine, 0)
           c == super.class
<1>1. IInv /\ decls = << >> /\ Operands > 1 /\ Operands > 0 + 1 /\ Operands > 0
      /\ 0 \in Nat /\ 1 \in Nat
  <2>1. IInv /\ decls = << >> /\ Operands > 1
    BY DEF FullInv, AtExpression, OpGetSuper
  <2>2. Operands \in Int
    BY <2>1, FrameFacts DEF Operands
  <2>3. QED
    BY <2>1, <2>2
<1>2. /\ D!Operand(0) = super /\ D!Operand(1) = Top(Machine, 1)
      /\ Len(D!Operands) > 1
      /\ D!Running.function = Running /\ D!Running.this = This
  <2>1. D!Operand(0) = super
    BY <1>1, OperandShown
  <2>2. D!Operand(1) = Top(Machine, 1)
    BY <1>1, OperandShown
  <2>3. QED
    BY <1>1, <2>1, <2>2, OperandsShown
<1>3. /\ Running.super # Null /\ super = Running.super /\ Top(Machine, 1) = This
      /\ Top(Machine, 0 + 1) = This
      /\ Becomes(BindMethod(p, c, n))
  BY DEF OpGetSuper
<1>4. /\ Ready(p, 0) /\ p.heap = heap /\ Top(p, 0) = This
      /\ This.k = "instance" /\ Rest(p, 0) = D!Below(0 + 2)
  BY <1>1, <1>3, BelowSuper
<1>5. c \in Made \cup {"string", "closure"}
  BY <1>1, <1>3, StackValues DEF ClassValues, Class
<1>6. D!Null = Null
  BY SameValues
<1> HIDE DEF p, super, c
<1> DEFINE method == D!FindMethod(c, n)
<1>7. IF method = D!Absent THEN D!Fails
      ELSE D!Continues(Append(Rest(p, 0), D!BoundMethod(Top(p, 0), method)))
  BY <1>3, <1>4, <1>5, BindMethodResult
<1> HIDE DEF method
<1>8. IF method = D!Absent THEN D!Fails
      ELSE D!Continues(Append(D!Below(2), D!BoundMethod(This, method)))
  BY <1>4, <1>7
<1>9. QED
  BY <1>2, <1>3, <1>6, <1>8 DEF D!GetSuper, method, c

(* What an instruction looks at on top of the stack.                       *)
LEMMA TopOperand ==
  ASSUME FullInv, status = "running", decls = << >>, NEW n \in Nat, Operands > n
  PROVE  /\ Ready(Machine, n) /\ InFrame(Machine) /\ IsMachine(Machine)
         /\ Machine.heap = heap /\ Machine.stack = stack
         /\ Len(D!Operands) > n /\ D!Operands # << >>
         /\ D!Operand(n) = Top(Machine, n)
         /\ D!Args(n) = Given(Machine, n) /\ D!Below(n + 1) = Rest(Machine, n)
         /\ RunningObjects = heap
         /\ Top(Machine, n) \in Values(Made, Len(heap))
         /\ Top(Machine, n).k = "instance" =>
              /\ Top(Machine, n).i \in 1 .. Len(heap)
              /\ heap[Top(Machine, n).i] \in HeapObjects(Made, Len(heap))
              /\ heap[Top(Machine, n).i].class \in Made
<1>1. IInv
  BY DEF FullInv
<1>2. Ready(Machine, n) /\ InFrame(Machine) /\ IsMachine(Machine)
      /\ Machine.heap = heap /\ Machine.stack = stack
  BY <1>1, OperandsReady, MachineInFrame DEF InFrame
<1>3. Len(D!Operands) > n /\ RunningObjects = heap
  BY <1>1, OperandsShown
<1>4. D!Operands # << >>
  BY <1>3
<1>5. Top(Machine, n) \in Values(Made, Len(heap))
  BY <1>1, <1>2, TopType DEF Ready
<1>6. Top(Machine, n).k = "instance" => Top(Machine, n).i \in 1 .. Len(heap)
  BY <1>2, <1>5, ValueKinds, MachineFacts
<1>7. Top(Machine, n).k = "instance" =>
        /\ heap[Top(Machine, n).i] \in HeapObjects(Made, Len(heap))
        /\ heap[Top(Machine, n).i].class \in Made
  BY <1>1, <1>2, <1>6, HeapObjectType
<1>8. QED
  BY <1>1, <1>2, <1>3, <1>4, <1>5, <1>6, <1>7, OperandShown

(* op_get_property                                                         *)
LEMMA GetPropertyDispatch ==
  ASSUME FullInv, status = "running", AtExpression, NEW n \in Properties,
         OpGetProperty(n)
  PROVE  D!GetProperty(n)
<1> DEFINE this == Top(Machine, 0)
           object == heap[this.i]
           field == object.fields[n]
           result == IF this.k # "instance"
                     THEN IF IsObject(this) THEN RuntimeError(Machine)
                          ELSE Undefined(Machine)
                     ELSE IF field # Absent THEN SetTop(Machine, 0, field)
                          ELSE BindMethod(Machine, object.class, n)
<1>1. IInv /\ decls = << >> /\ Operands > 0 /\ 0 \in Nat /\ n \in Names
  BY CallsAssumption DEF FullInv, AtExpression, OpGetProperty
<1>2. /\ Ready(Machine, 0) /\ InFrame(Machine) /\ IsMachine(Machine)
      /\ Machine.heap = heap
      /\ D!Operands # << >> /\ D!Operand(0) = this /\ RunningObjects = heap
      /\ D!Below(0 + 1) = Rest(Machine, 0)
      /\ this.k = "instance" => /\ object \in HeapObjects(Made, Len(heap))
                                /\ object.class \in Made
  BY <1>1, TopOperand
<1>3. D!Below(1) = Rest(Machine, 0)
  BY <1>2
<1>4. Becomes(result)
  BY DEF OpGetProperty
<1>5. D!Absent = Absent /\ (D!IsObject(this) <=> IsObject(this))
  BY SameValues, SameNatives
<1>6. CASE this.k # "instance"
  <2>1. result = IF IsObject(this) THEN RuntimeError(Machine) ELSE Undefined(Machine)
    BY <1>6
  <2>2. IF IsObject(this) THEN D!Fails ELSE D!Hole
    BY <1>2, <1>4, <2>1, StoppedResult
  <2> HIDE DEF this
  <2>3. QED
    BY <1>2, <1>5, <1>6, <2>2 DEF D!GetProperty
<1>7. CASE this.k = "instance" /\ field # Absent
  <2>1. field \in Values(Made, Len(heap))
    BY <1>1, <1>2, <1>7 DEF HeapObjects
  <2>2. Becomes(SetTop(Machine, 0, field))
    BY <1>4, <1>7
  <2> DEFINE f == field
             p == SetTop(Machine, 0, f)
  <2>3. f \in Values(Made, Len(heap)) /\ Becomes(p)
    BY <2>1, <2>2
  <2> HIDE DEF f
  <2>4. InFrame(p) /\ p.heap = heap /\ Shown(p) = Append(Rest(Machine, 0), f)
    BY <1>1, <1>2, <2>3, SetTopReady, SetTopShown DEF Ready
  <2>5. D!Continues(Append(D!Below(1), f))
    <3> HIDE DEF p
    <3>1. D!Continues(Shown(p))
      BY <2>3, <2>4, ContinuesResult
    <3>2. QED
      BY <1>3, <2>4, <3>1
  <2> HIDE DEF this
  <2>6. QED
    BY <1>2, <1>5, <1>7, <2>5 DEF D!GetProperty, f
<1>8. CASE this.k = "instance" /\ field = Absent
  <2> DEFINE c == object.class
             method == D!FindMethod(c, n)
  <2>1. c \in Made /\ Becomes(BindMethod(Machine, c, n))
    BY <1>2, <1>4, <1>8
  <2> HIDE DEF c
  <2>2. IF method = D!Absent THEN D!Fails
        ELSE D!Continues(Append(Rest(Machine, 0), D!BoundMethod(this, method)))
    BY <1>1, <1>2, <1>8, <2>1, BindMethodResult
  <2> HIDE DEF this, method
  <2>3. IF method = D!Absent THEN D!Fails
        ELSE D!Continues(Append(D!Below(1), D!BoundMethod(this, method)))
    BY <1>3, <2>2
  <2> DEFINE dobject == RunningObjects[this.i]
  <2>4. dobject.fields[n] = D!Absent /\ D!FindMethod(dobject.class, n) = method
    BY <1>2, <1>5, <1>8 DEF method, c
  <2>5. (CASE dobject.fields[n] # D!Absent ->
                  D!Continues(Append(D!Below(1), dobject.fields[n]))
           [] dobject.fields[n] = D!Absent /\ method # D!Absent ->
                  D!Continues(Append(D!Below(1), D!BoundMethod(this, method)))
           [] OTHER -> D!Fails)
    <3> HIDE DEF dobject
    <3>1. QED
      BY <2>3, <2>4
  <2>6. QED
    BY <1>2, <1>8, <2>4, <2>5 DEF D!GetProperty
<1>9. QED
  BY <1>6, <1>7, <1>8
(* op_set_property: the value stays in the place of the instance.          *)
LEMMA SetPropertyDispatch ==
  ASSUME FullInv, status = "running", AtExpression, NEW n \in Properties,
         OpSetProperty(n)
  PROVE  D!SetProperty(n)
<1> DEFINE this == Top(Machine, 1)
           value == Top(Machine, 0)
           i == this.i
           h == [Machine EXCEPT !.heap = [@ EXCEPT ![i].fields[n] = value]]
           p == Pop(h, 2)
           result == IF this.k # "instance"
                     THEN IF IsObject(this) THEN RuntimeError(Machine)
                          ELSE Undefined(Machine)
                     ELSE Push(p, value)
<1>1. IInv /\ decls = << >> /\ Operands > 1 /\ Operands > 0 /\ 0 \in Nat /\ 1 \in Nat
      /\ n \in Names
  <2>1. IInv /\ decls = << >> /\ Operands > 1 /\ n \in Names
    BY CallsAssumption DEF FullInv, AtExpression, OpSetProperty
  <2>2. Operands \in Int
    BY <2>1, FrameFacts DEF Operands
  <2>3. QED
    BY <2>1, <2>2
<1>2. /\ Ready(Machine, 1) /\ IsMachine(Machine) /\ Machine.stack = stack
      /\ Len(D!Operands) > 1 /\ D!Operand(1) = this /\ RunningObjects = heap
      /\ D!Below(1 + 1) = Rest(Machine, 1)
      /\ this.k = "instance" => i \in 1 .. Len(heap)
  BY <1>1, TopOperand
<1>3. D!Operand(0) = value /\ value \in Values(Made, Len(heap))
  BY <1>1, TopOperand
<1>4. D!Below(2) = Rest(Machine, 1)
  BY <1>2
<1>5. Becomes(result)
  BY DEF OpSetProperty
<1>6. CASE this.k # "instance"
  <2>1. result = IF IsObject(this) THEN RuntimeError(Machine) ELSE Undefined(Machine)
    BY <1>6
  <2>2. IF IsObject(this) THEN D!Fails ELSE D!Hole
    BY <1>2, <1>5, <2>1, StoppedResult
  <2>3. D!IsObject(this) <=> IsObject(this)
    BY SameNatives
  <2> HIDE DEF this
  <2>4. QED
    BY <1>2, <1>6, <2>2, <2>3 DEF D!SetProperty
<1>7. CASE this.k = "instance"
  <2>1. Becomes(Push(p, value))
    BY <1>5, <1>7
  <2>2. i \in 1 .. Len(heap)
    BY <1>2, <1>7
  <2>3. h.heap = [heap EXCEPT ![i].fields[n] = value]
    BY DEF Machine
  <2> HIDE DEF this, value, i
  <2>4. InFrame(h) /\ h.stack = stack /\ Len(h.heap) = Len(heap)
    BY <1>1, <1>3, <2>2, SetField
  <2> HIDE DEF h
  <2>5. Ready(h, 1) /\ Rest(h, 1) = D!Below(2)
    BY <1>2, <1>4, <2>4 DEF Ready, Rest
  <2>6. InFrame(p) /\ p.heap = h.heap
    <3>1. 2 \in Nat /\ Len(h.stack) >= Floor + 2
      BY <1>1, <2>4, <2>5, FrameFacts DEF Ready
    <3>2. QED
      BY <1>1, <2>4, <3>1, PopInFrame
  <2>7. Shown(p) = D!Below(2)
    <3>1. Shown(Pop(h, 1 + 1)) = Rest(h, 1)
      BY <1>1, <2>5, PopShown
    <3>2. QED
      BY <2>5, <3>1
  <2> HIDE DEF p
  <2>8. value \in Values(Made, Len(p.heap))
    BY <1>3, <2>4, <2>6
  <2> DEFINE q == Push(p, value)
  <2>9. InFrame(q) /\ q.heap = p.heap /\ Shown(q) = Append(D!Below(2), value)
    BY <1>1, <2>6, <2>7, <2>8, PushShown
  <2>10. Becomes(q)
    BY <2>1
  <2> HIDE DEF q
  <2>11. /\ RunningActivations' = D!With(Append(D!Below(2), value))
         /\ RunningObjects' = [heap EXCEPT ![i].fields[n] = value]
         /\ status' = status
    BY <2>3, <2>6, <2>9, <2>10, InFrameResult DEF Shown
  <2>12. QED
    BY <1>2, <1>3, <1>7, <2>11 DEF D!SetProperty, i
<1>8. QED
  BY <1>6, <1>7

(* op_invoke_super: what is on top is taken for the superclass.            *)
LEMMA InvokeSuperDispatch ==
  ASSUME FullInv, status = "running", AtExpression, NEW n \in Names,
         NEW argc \in Nat, OpInvokeSuper(n, argc)
  PROVE  D!InvokeSuper(n, argc)
<1> DEFINE p == Pop(Machine, 1)
           parent == Top(Machine, 0)
           args == IF argc = 0 THEN << >>
                   ELSE <<D!Operand(argc)>> \o D!Front(D!Args(argc))
           V == Values(Made, Len(heap))
<1>1. IInv /\ decls = << >> /\ Operands > argc + 1 /\ Operands > argc /\ Operands > 0
      /\ 0 \in Nat /\ argc + 1 \in Nat
  <2>1. IInv /\ decls = << >> /\ Operands > argc + 1
    BY DEF FullInv, AtExpression, OpInvokeSuper
  <2>2. Operands \in Int
    BY <2>1, FrameFacts DEF Operands
  <2>3. QED
    BY <2>1, <2>2
<1>2. /\ Running.super # Null
      /\ Top(Machine, argc) = Running.super /\ Top(Machine, argc + 1) = This
      /\ Becomes(IF parent.k = "class" THEN InvokeFromClass(p, parent.class, n, argc)
                 ELSE Undefined(Machine))
  BY DEF OpInvokeSuper
<1>3. D!Operand(0) = parent /\ parent \in V /\ IsMachine(Machine) /\ Machine.stack = stack
      /\ Machine.heap = heap
  BY <1>1, TopOperand
<1>4. D!Operand(argc) = Top(Machine, argc) /\ D!Args(argc) = Given(Machine, argc)
  BY <1>1, TopOperand
<1>5. D!Operand(argc + 1) = Top(Machine, argc + 1) /\ Len(D!Operands) > argc + 1
  BY <1>1, TopOperand
<1>6. D!Running.function = Running /\ D!Running.this = This /\ D!Null = Null
  BY <1>1, OperandsShown, SameValues
<1>7. /\ Ready(p, argc) /\ p.heap = heap /\ Top(p, argc) = This
      /\ This.k = "instance" /\ Rest(p, argc) = D!Below(argc + 2)
      /\ Len(p.stack) = Len(stack) - 1 /\ p.stack = SubSeq(stack, 1, Len(stack) - 1)
  BY <1>1, <1>2, BelowSuper
<1>8. Given(p, argc) = args
  <2>1. /\ stack \in Seq(V) /\ Len(stack) \in Nat /\ Len(stack) > argc + 1
        /\ \A i \in 1 .. Len(stack) : stack[i] \in V
    BY <1>1, <1>3, FrameFacts, MachineFacts, OperandsShown
  <2> DEFINE a == Len(stack) - argc
             b == Len(stack) - 1
  <2>2. Given(p, argc) = SubSeq(p.stack, a, b)
    <3>1. Len(stack) - 1 - argc + 1 = a
      BY <2>1
    <3>2. QED
      BY <1>7, <3>1 DEF Given
  <2>3. SubSeq(p.stack, a, b) = SubSeq(stack, a, b)
    <3>1. /\ a \in Nat \ {0} /\ b \in Int /\ b <= b - 1 + 1 /\ 1 \in Int
          /\ 1 + a - 1 = a /\ 1 + b - 1 = b /\ \A i \in 1 .. b : stack[i] \in V
      BY <2>1
    <3> HIDE DEF a, b, V
    <3>2. SubSeq(SubSeq(stack, 1, b), a, b) = SubSeq(stack, 1 + a - 1, 1 + b - 1)
      BY <3>1, CutOfCut
    <3>3. QED
      BY <1>7, <3>1, <3>2 DEF b
  <2>4. CASE argc = 0
    <3>1. SubSeq(stack, a, b) = << >>
      BY <2>1, <2>4, SubSeqEmpty
    <3>2. QED
      BY <2>2, <2>3, <2>4, <3>1
  <2>5. CASE argc # 0
    <3>1. a \in 1 .. Len(stack) /\ a < Len(stack)
      BY <2>1, <2>5
    <3> HIDE DEF V
    <3>2. <<stack[a]>> \o Front(SubSeq(stack, a + 1, Len(stack))) = SubSeq(stack, a, b)
      BY <2>1, <3>1, ShiftedCut
    <3>3. D!Operand(argc) = stack[a] /\ D!Args(argc) = SubSeq(stack, a + 1, Len(stack))
      BY <1>3, <1>4 DEF Top, Given
    <3>4. \A s : D!Front(s) = Front(s)
      BY DEF D!Front, Front
    <3> HIDE DEF a, b
    <3>5. QED
      BY <2>2, <2>3, <2>5, <3>2, <3>3, <3>4
  <2>6. QED
    BY <2>4, <2>5
<1> HIDE DEF args
<1>9. CASE parent.k = "class"
  <2> DEFINE c == parent.class
  <2>1. c \in Made \cup {"string", "closure"}
    BY <1>3, <1>9, ValueKinds, MachineFacts
  <2>2. Becomes(InvokeFromClass(p, c, n, argc))
    BY <1>2, <1>9
  <2> HIDE DEF c, p, parent
  <2>3. D!Applies(D!FindMethod(c, n), This, args, D!Below(argc + 2))
    BY <1>7, <1>8, <2>1, <2>2, InvokeFromClassResult
  <2>4. QED
    BY <1>2, <1>3, <1>4, <1>5, <1>6, <1>9, <2>3 DEF D!InvokeSuper, c, args
<1>10. CASE parent.k # "class"
  <2>1. Becomes(Undefined(Machine))
    BY <1>2, <1>10
  <2>2. D!Hole
    BY <1>3, <2>1, StoppedResult
  <2> HIDE DEF p, parent
  <2>3. QED
    BY <1>2, <1>3, <1>4, <1>5, <1>6, <1>10, <2>2 DEF D!InvokeSuper
<1>11. QED
  BY <1>9, <1>10
(* The arguments of a unary and of a binary operator.                      *)
LEMMA GivenOne ==
  ASSUME IInv, status = "running", NEW m, Ready(m, 1)
  PROVE  Given(m, 1) = <<Top(m, 0)>>
<1> DEFINE s == m.stack
           n == Len(s)
           V == Values(Made, Len(m.heap))
<1>1. s \in Seq(V) /\ n \in Nat \ {0} /\ n \in 1 .. n /\ n - 1 + 1 = n /\ n - 0 = n
  BY MachineFacts, FrameFacts DEF Ready, InFrame
<1>2. Given(m, 1) = SubSeq(s, n, n) /\ Top(m, 0) = s[n]
  BY <1>1 DEF Given, Top
<1> HIDE DEF s, V
<1>3. SubSeq(s, n, n) = Append(SubSeq(s, n, n - 1), s[n])
  BY <1>1, CutAtLast
<1>4. SubSeq(s, n, n - 1) = << >>
  BY <1>1, SubSeqEmpty
<1>5. QED
  BY <1>2, <1>3, <1>4

LEMMA GivenNone ==
  ASSUME IInv, status = "running", NEW m, Ready(m, 0)
  PROVE  Given(m, 0) = << >>
<1>1. Len(m.stack) \in Nat /\ Len(m.stack) - 0 + 1 \in Int
      /\ Len(m.stack) < Len(m.stack) - 0 + 1
  BY MachineFacts DEF Ready, InFrame
<1>2. QED
  BY <1>1, SubSeqEmpty DEF Given

(* The native that calls a closure is an operation for "()" only.          *)
LEMMA OnlyCallCalls ==
  ASSUME FullInv, NEW m, IsMachine(m), NEW v, HasOperations(m, v),
         NEW slot \in Slots, slot # "call"
  PROVE  LET o == OperationsOf(m, v)[slot] IN
         o.k = "native" => o.name # "closure call"
<1> DEFINE o == OperationsOf(m, v)[slot]
<1>1. IInv
  BY DEF FullInv
<1>2. CASE v.k = "instance"
  <2> DEFINE c == m.heap[v.i].class
  <2>1. c \in Made /\ classes[c] \in Tables(Made)
    BY <1>1, <1>2, HeapObjectType DEF HasOperations
  <2>2. o = classes[c].operations[slot]
    BY <1>2 DEF OperationsOf
  <2> HIDE DEF c
  <2>3. classes[c].operations[slot] # Native("closure call")
    BY <2>1, InheritedSlots
  <2>4. classes[c].operations[slot] \in Closures(Made) \cup {Null} \cup OperationNatives
    BY <2>1 DEF Tables, OperationTables
  <2> HIDE DEF o
  <2>5. CASE o \in Closures(Made) \cup {Null}
    <3>1. o.k # "native"
      BY <2>5, Kinds
    <3>2. QED
      BY <3>1 DEF o
  <2>6. CASE o \in OperationNatives
    <3>1. o # Native("closure call")
      BY <2>2, <2>3
    <3>2. PICK n : o = Native(n)
      BY <2>6 DEF OperationNatives
    <3>3. o.name = n
      BY <3>2, Kinds
    <3>4. QED
      BY <3>1, <3>2, <3>3 DEF o
  <2>7. QED
    BY <2>2, <2>4, <2>5, <2>6
<1>3. CASE v.k = "class"
  <2> DEFINE c == IF v.class \in UserClasses THEN "class" ELSE MetaClass(v.class)
  <2>1. o = BuiltinOperations(c)[slot]
    BY <1>3 DEF OperationsOf
  <2>2. c \in {"class", "string meta", "closure meta"}
    BY DEF MetaClass
  <2> HIDE DEF c
  <2>3. BuiltinOperations(c)[slot]
          \in {Native("class equal"), Native("class print"), Null}
    BY <2>2 DEF BuiltinOperations, CallOfMeta, NoOperations, Slots
  <2>4. \A x \in {Native("class equal"), Native("class print"), Null} :
          x.k = "native" => x.name # "closure call"
    <3>1. Null.k = "null" /\ \A n : Native(n).name = n
      BY Kinds
    <3>2. \A n : n # "closure call" => Native(n).name # "closure call"
      BY <3>1
    <3>3. QED
      BY <3>1, <3>2
  <2> HIDE DEF o
  <2>5. QED
    BY <2>1, <2>3, <2>4 DEF o
<1>4. CASE v.k \in {"null", "number", "bool", "string", "closure", "native"}
  <2> DEFINE c == v.k
  <2>1. o = BuiltinOperations(c)[slot]
    BY <1>4 DEF OperationsOf
  <2>2. c \in {"null", "number", "bool", "string", "closure", "native"}
    BY <1>4
  <2> HIDE DEF c
  <2>3. BuiltinOperations(c)[slot]
          \in {Native("string plus"), Native("string equal"), Native("string print"),
               Native("closure equal"), Native("closure print"), Null}
    BY <2>2 DEF BuiltinOperations, CallOfMeta, NoOperations, Slots
  <2>4. \A x \in {Native("string plus"), Native("string equal"), Native("string print"),
                  Native("closure equal"), Native("closure print"), Null} :
          x.k = "native" => x.name # "closure call"
    <3>1. Null.k = "null" /\ \A n : Native(n).name = n
      BY Kinds
    <3>2. \A n : n # "closure call" => Native(n).name # "closure call"
      BY <3>1
    <3>3. QED
      BY <3>1, <3>2
  <2> HIDE DEF o
  <2>5. QED
    BY <2>1, <2>3, <2>4 DEF o
<1>5. QED
  BY <1>2, <1>3, <1>4 DEF HasOperations

(* Every operator that is not for numbers calls the operation of the class *)
(* of its first operand.                                                   *)
LEMMA OverloadedResult ==
  ASSUME FullInv, status = "running", AtExpression, NEW m, NEW argc,
         Ready(m, argc), m.heap = heap, IsObject(Top(m, argc)),
         NEW slot \in Slots, slot # "call",
         Becomes(CallOperation(m, Top(m, argc), slot, argc))
  PROVE  D!Overloaded(slot, Top(m, argc), Given(m, argc), Rest(m, argc))
<1> DEFINE this == Top(m, argc)
           o == OperationsOf(m, this)[slot]
           args == Given(m, argc)
           rest == Rest(m, argc)
<1>1. IInv /\ IsMachine(m) /\ InFrame(m) /\ argc \in Nat /\ Len(m.stack) > Floor + argc
  BY DEF FullInv, Ready, InFrame
<1>2. CASE this.k = "bound"
  <2>1. CallOperation(m, this, slot, argc) = Undefined(m)
    BY <1>2 DEF CallOperation
  <2>2. D!Hole
    BY <1>1, <2>1, StoppedResult
  <2> HIDE DEF this, args, rest
  <2>3. D!Overloaded(slot, this, args, rest)
    BY <1>2, <2>2 DEF D!Overloaded
  <2>4. QED
    BY <2>3 DEF this, args, rest
<1>3. CASE this.k # "bound"
  <2>1. CallOperation(m, this, slot, argc) = CallValue(m, o, argc)
    BY <1>3 DEF CallOperation
  <2>2. HasOperations(m, this)
    BY <1>1, <1>3, TopType, ValueHasOperations
  <2>3. IsOperation(o, this, slot)
    BY <1>1, <2>2, OperationType
  <2>4. o.k = "native" => o.name # "closure call"
    BY <1>1, <2>2, OnlyCallCalls
  <2>5. D!Operation(this, slot) = o
    BY <1>1, <2>2, OperationShown
  <2>6. Becomes(CallValue(m, o, argc))
    BY <2>1
  <2> HIDE DEF o
  <2>7. Applicable(o, this)
    <3> HIDE DEF this
    <3>1. QED
      BY <2>3, <2>4 DEF IsOperation, Applicable, IsObject
  <2>8. D!Applies(o, this, args, rest)
    BY <2>6, <2>7, AppliesResult
  <2> HIDE DEF this, args, rest
  <2>9. D!Overloaded(slot, this, args, rest)
    BY <1>3, <2>5, <2>8 DEF D!Overloaded
  <2>10. QED
    BY <2>9 DEF this, args, rest
<1>4. QED
  BY <1>2, <1>3
(* The result takes the place of two operands.                             *)
LEMMA TwoReplaced ==
  ASSUME FullInv, status = "running", AtExpression, NEW m, Ready(m, 1),
         m.heap = heap, NEW v \in Values(Made, Len(heap)),
         Becomes(Push(Pop(m, 2), v))
  PROVE  D!Continues(Append(Rest(m, 1), v))
<1> DEFINE p == Pop(m, 2)
           q == Push(p, v)
<1>1. IInv /\ InFrame(m) /\ Len(m.stack) > Floor + 1 /\ Floor \in Nat
      /\ Len(m.stack) \in Nat /\ 2 \in Nat
  BY FrameFacts, MachineFacts DEF FullInv, Ready, InFrame
<1>2. InFrame(p) /\ p.heap = heap
  BY <1>1, PopInFrame
<1>3. Shown(p) = Rest(m, 1)
  <2>1. Shown(Pop(m, 1 + 1)) = Rest(m, 1)
    BY <1>1, PopShown
  <2>2. QED
    BY <2>1
<1> HIDE DEF p
<1>4. InFrame(q) /\ q.heap = heap /\ Shown(q) = Append(Rest(m, 1), v)
  BY <1>1, <1>2, <1>3, PushShown
<1>5. Becomes(q)
  BY DEF p
<1> HIDE DEF q
<1>6. QED
  BY <1>4, <1>5, ContinuesResult

LEMMA PopIsMachine ==
  ASSUME IInv, status = "running", NEW m, NEW n, Ready(m, n)
  PROVE  IsMachine(Pop(m, n + 1)) /\ Pop(m, n + 1).heap = m.heap
         /\ InFrame(Pop(m, n + 1))
<1>1. InFrame(m) /\ Len(m.stack) > Floor + n /\ Floor \in Nat /\ n \in Nat
      /\ Len(m.stack) \in Nat
  BY FrameFacts, MachineFacts DEF Ready, InFrame
<1>2. n + 1 \in Nat /\ Len(m.stack) >= Floor + (n + 1)
  BY <1>1
<1>3. QED
  BY <1>1, <1>2, PopInFrame DEF InFrame

LEMMA ConstantValues ==
  ASSUME NEW K, NEW n
  PROVE  Number \in Values(K, n) /\ Bool \in Values(K, n) /\ Null \in Values(K, n)
BY DEF Values

(* perform_binary_infix: two numbers, or what the first operand's class    *)
(* says.                                                                   *)
LEMMA NumbersOrDispatch ==
  ASSUME FullInv, status = "running", AtExpression, Operands > 1,
         NEW slot \in Slots, slot \notin {"call", "equal"}, NEW v \in {Number, Bool},
         v = (IF slot = "less" THEN Bool ELSE Number),
         Becomes(NumbersOr(Machine, slot, v))
  PROVE  D!Infix(slot)
<1> DEFINE this == Top(Machine, 1)
           other == Top(Machine, 0)
<1>1. decls = << >> /\ 1 \in Nat /\ 0 \in Nat /\ Operands > 0 /\ IInv
  <2>1. IInv /\ decls = << >>
    BY DEF FullInv, AtExpression
  <2>2. Operands \in Int
    BY <2>1, FrameFacts DEF Operands
  <2>3. QED
    BY <2>1, <2>2
<1>2. /\ Ready(Machine, 1) /\ Machine.heap = heap /\ Len(D!Operands) > 1
      /\ D!Operand(1) = this /\ D!Below(1 + 1) = Rest(Machine, 1)
  BY <1>1, TopOperand
<1>3. D!Operand(0) = other
  BY <1>1, TopOperand
<1>4. D!Below(2) = Rest(Machine, 1) /\ Given(Machine, 1) = <<other>>
  BY <1>1, <1>2, GivenOne
<1>5. D!IsObject(this) <=> IsObject(this)
  BY SameNatives
<1>6. D!Number = Number /\ D!Bool = Bool
  BY SameValues
<1>7. CASE IsObject(this)
  <2>1. ~ (this = Number)
    BY <1>7, Kinds DEF IsObject
  <2>2. NumbersOr(Machine, slot, v) = CallOperation(Machine, this, slot, 1)
    BY <1>7, <2>1 DEF NumbersOr
  <2>3. D!Overloaded(slot, this, Given(Machine, 1), Rest(Machine, 1))
    BY <1>2, <1>7, <2>2, OverloadedResult
  <2> HIDE DEF this, other
  <2>4. D!Overloaded(slot, this, <<other>>, D!Below(2))
    BY <1>4, <2>3
  <2>5. QED
    BY <1>2, <1>3, <1>5, <1>7, <2>4 DEF D!Infix
<1>8. CASE ~ IsObject(this) /\ this = Number /\ other = Number
  <2>1. NumbersOr(Machine, slot, v) = Push(Pop(Machine, 2), v)
    BY <1>8 DEF NumbersOr
  <2>2. v \in Values(Made, Len(heap))
    BY ConstantValues
  <2>3. D!Continues(Append(D!Below(2), v))
    BY <1>2, <1>4, <2>1, <2>2, TwoReplaced
  <2>4. (IF slot \in {"equal", "less"} THEN D!Bool ELSE D!Number) = v
    BY <1>6
  <2> HIDE DEF this, other
  <2>5. QED
    BY <1>2, <1>3, <1>5, <1>6, <1>8, <2>3, <2>4 DEF D!Infix
<1>9. CASE ~ IsObject(this) /\ ~ (this = Number /\ other = Number)
  <2>1. NumbersOr(Machine, slot, v) = RuntimeError(Pop(Machine, 2))
    BY <1>9 DEF NumbersOr
  <2>2. IsMachine(Pop(Machine, 1 + 1))
    BY <1>1, <1>2, PopIsMachine
  <2>3. D!Fails
    BY <2>1, <2>2, StoppedResult
  <2> HIDE DEF this, other
  <2>4. QED
    BY <1>2, <1>3, <1>5, <1>6, <1>9, <2>3 DEF D!Infix
<1>10. QED
  BY <1>7, <1>8, <1>9

LEMMA EqualityDispatch ==
  ASSUME FullInv, status = "running", AtExpression, Operands > 1,
         Becomes(PerformEquality(Machine))
  PROVE  D!Infix("equal")
<1> DEFINE this == Top(Machine, 1)
           other == Top(Machine, 0)
<1>1. decls = << >> /\ 1 \in Nat /\ 0 \in Nat /\ Operands > 0 /\ IInv
  <2>1. IInv /\ decls = << >>
    BY DEF FullInv, AtExpression
  <2>2. Operands \in Int
    BY <2>1, FrameFacts DEF Operands
  <2>3. QED
    BY <2>1, <2>2
<1>2. /\ Ready(Machine, 1) /\ Machine.heap = heap /\ Len(D!Operands) > 1
      /\ D!Operand(1) = this /\ D!Below(1 + 1) = Rest(Machine, 1)
  BY <1>1, TopOperand
<1>3. D!Operand(0) = other
  BY <1>1, TopOperand
<1>4. D!Below(2) = Rest(Machine, 1) /\ Given(Machine, 1) = <<other>>
  BY <1>1, <1>2, GivenOne
<1>5. D!IsObject(this) <=> IsObject(this)
  BY SameNatives
<1>6. D!Bool = Bool
  BY SameValues
<1>7. CASE IsObject(this)
  <2>1. PerformEquality(Machine) = CallOperation(Machine, this, "equal", 1)
    BY <1>7 DEF PerformEquality
  <2>2. PICK slot \in Slots : slot = "equal"
    BY DEF Slots
  <2>3. slot # "call" /\ Becomes(CallOperation(Machine, this, slot, 1))
    BY <2>1, <2>2
  <2>4. D!Overloaded(slot, this, Given(Machine, 1), Rest(Machine, 1))
    BY <1>2, <1>7, <2>3, OverloadedResult
  <2> HIDE DEF this, other
  <2>5. D!Overloaded("equal", this, <<other>>, D!Below(2))
    BY <1>4, <2>2, <2>4
  <2>6. QED
    BY <1>2, <1>3, <1>5, <1>7, <2>5 DEF D!Infix
<1>8. CASE ~ IsObject(this)
  <2>1. PerformEquality(Machine) = Push(Pop(Machine, 2), Bool)
    BY <1>8 DEF PerformEquality
  <2>2. Bool \in Values(Made, Len(heap))
    BY ConstantValues
  <2>3. D!Continues(Append(D!Below(2), Bool))
    BY <1>2, <1>4, <2>1, <2>2, TwoReplaced
  <2> HIDE DEF this, other
  <2>4. QED
    BY <1>2, <1>3, <1>5, <1>6, <1>8, <2>3 DEF D!Infix
<1>9. QED
  BY <1>7, <1>8

LEMMA InfixDispatch ==
  ASSUME FullInv, status = "running", AtExpression, OpInfix
  PROVE  \E s \in D!Arithmetic \cup D!Updates \cup {"equal", "less"} : D!Infix(s)
<1>1. Operands > 1
  BY DEF OpInfix
<1>2. D!Arithmetic = Arithmetic /\ D!Updates = Updates
  BY SameValues
<1>3. ASSUME NEW s \in Arithmetic \cup Updates, Becomes(NumbersOr(Machine, s, Number))
      PROVE  D!Infix(s)
  <2>1. s \in Slots /\ s \notin {"call", "equal", "less"}
    BY DEF Slots, Arithmetic, Updates
  <2>2. QED
    BY <1>1, <1>3, <2>1, NumbersOrDispatch
<1>4. ASSUME Becomes(PerformComparison(Machine)) PROVE D!Infix("less")
  <2>1. PICK s \in Slots : s = "less"
    BY DEF Slots
  <2>2. s \notin {"call", "equal"} /\ Becomes(NumbersOr(Machine, s, Bool))
    BY <1>4, <2>1 DEF PerformComparison
  <2>3. D!Infix(s)
    BY <1>1, <2>1, <2>2, NumbersOrDispatch
  <2>4. QED
    BY <2>1, <2>3
<1>5. ASSUME Becomes(PerformEquality(Machine)) PROVE D!Infix("equal")
  BY <1>1, <1>5, EqualityDispatch
<1>6. CASE \E s \in Arithmetic \cup Updates : Becomes(NumbersOr(Machine, s, Number))
  BY <1>2, <1>3, <1>6
<1>7. CASE Becomes(PerformComparison(Machine))
  BY <1>4, <1>7
<1>8. CASE Becomes(PerformEquality(Machine))
  BY <1>5, <1>8
<1>9. QED
  BY <1>6, <1>7, <1>8 DEF OpInfix, PerformArithmetic, PerformUpdate
(* perform_unary_prefix: a number is left where it is.                     *)
LEMMA PrefixDispatch ==
  ASSUME FullInv, status = "running", AtExpression, OpNegate
  PROVE  D!Prefix
<1> DEFINE this == Top(Machine, 0)
<1>1. decls = << >> /\ 0 \in Nat /\ Operands > 0 /\ IInv
      /\ Becomes(PerformPrefix(Machine))
  BY DEF FullInv, AtExpression, OpNegate
<1>2. /\ Ready(Machine, 0) /\ InFrame(Machine) /\ Machine.heap = heap
      /\ D!Operands # << >> /\ Machine.stack = stack
      /\ D!Operand(0) = this /\ D!Below(0 + 1) = Rest(Machine, 0)
  BY <1>1, TopOperand
<1>3. D!Below(1) = Rest(Machine, 0) /\ Given(Machine, 0) = << >>
  BY <1>1, <1>2, GivenNone
<1>4. (D!IsObject(this) <=> IsObject(this)) /\ D!Number = Number
  BY SameNatives, SameValues
<1>5. CASE IsObject(this)
  <2>1. ~ (this = Number)
    BY <1>5, Kinds DEF IsObject
  <2>2. PerformPrefix(Machine) = CallOperation(Machine, this, "negate", 0)
    BY <1>5, <2>1 DEF PerformPrefix
  <2>3. PICK slot \in Slots : slot = "negate"
    BY DEF Slots
  <2>4. slot # "call" /\ Becomes(CallOperation(Machine, this, slot, 0))
    BY <1>1, <2>2, <2>3
  <2>5. D!Overloaded(slot, this, Given(Machine, 0), Rest(Machine, 0))
    BY <1>2, <1>5, <2>4, OverloadedResult
  <2> HIDE DEF this
  <2>6. D!Overloaded("negate", this, << >>, D!Below(1))
    BY <1>3, <2>3, <2>5
  <2>7. QED
    BY <1>2, <1>4, <1>5, <2>1, <2>6 DEF D!Prefix
<1>6. CASE ~ IsObject(this) /\ this = Number
  <2>1. PerformPrefix(Machine) = Machine
    BY <1>6 DEF PerformPrefix
  <2>2. D!Continues(Shown(Machine))
    BY <1>1, <1>2, <2>1, ContinuesResult
  <2>3. D!Operands = Shown(Machine)
    BY <1>1, <1>2, OperandsShown DEF Shown
  <2> HIDE DEF this
  <2>4. QED
    BY <1>2, <1>4, <1>6, <2>2, <2>3 DEF D!Prefix
<1>7. CASE ~ IsObject(this) /\ this # Number
  <2>1. PerformPrefix(Machine) = RuntimeError(Pop(Machine, 1))
    BY <1>7 DEF PerformPrefix
  <2>2. IsMachine(Pop(Machine, 0 + 1))
    BY <1>1, <1>2, PopIsMachine
  <2>3. D!Fails
    BY <1>1, <2>1, <2>2, StoppedResult
  <2> HIDE DEF this
  <2>4. QED
    BY <1>2, <1>4, <1>7, <2>3 DEF D!Prefix
<1>8. QED
  BY <1>5, <1>6, <1>7

(* What is pushed is no part of what was below the top.                    *)
LEMMA PushKeepsRest ==
  ASSUME IInv, status = "running", NEW m, Ready(m, 0),
         NEW v \in Values(Made, Len(m.heap))
  PROVE  Rest(Push(m, v), 1) = Rest(m, 0)
<1> DEFINE V == Values(Made, Len(m.heap))
           p == Push(m, v)
           t == p.stack
           b == Len(m.stack) - 1
<1>1. InFrame(m) /\ IsMachine(m)
  BY DEF Ready, InFrame
<1>2. /\ Len(m.stack) \in Nat /\ Len(t) = Len(m.stack) + 1
      /\ \A i \in 1 .. Len(m.stack) : t[i] = m.stack[i] /\ m.stack[i] \in V
  BY <1>1, PushInFrame, MachineFacts
<1>3. Floor + 1 \in Int /\ b \in Int /\ Floor \in Nat
      /\ \A i \in Floor + 1 .. b : i \in 1 .. Len(m.stack)
  BY <1>2, FrameFacts
<1>4. Len(t) - 1 - 1 = b /\ Len(m.stack) - 0 - 1 = b
  BY <1>2
<1> HIDE DEF V, b, p
<1>5. SubSeq(t, Floor + 1, b) = SubSeq(m.stack, Floor + 1, b)
  BY <1>2, <1>3, SameCut
<1>6. QED
  BY <1>4, <1>5 DEF Rest, p

(* The operator after its operand is called with one argument more.        *)
LEMMA PostfixDispatch ==
  ASSUME FullInv, status = "running", AtExpression, OpPostincrement
  PROVE  D!Postfix
<1> DEFINE this == Top(Machine, 0)
           p == Push(Machine, Null)
<1>1. decls = << >> /\ 0 \in Nat /\ Operands > 0 /\ IInv
      /\ Becomes(PerformPostfix(Machine))
  BY DEF FullInv, AtExpression, OpPostincrement
<1>2. /\ Ready(Machine, 0) /\ InFrame(Machine) /\ IsMachine(Machine)
      /\ Machine.heap = heap /\ Machine.stack = stack
      /\ D!Operands # << >> /\ D!Operand(0) = this /\ D!Below(0 + 1) = Rest(Machine, 0)
  BY <1>1, TopOperand
<1>3. D!Below(1) = Rest(Machine, 0)
  BY <1>2
<1>4. (D!IsObject(this) <=> IsObject(this)) /\ D!Null = Null
  BY SameNatives, SameValues
<1>5. CASE IsObject(this)
  <2>1. PerformPostfix(Machine) = CallOperation(p, this, "increment", 1)
    BY <1>5 DEF PerformPostfix
  <2>2. Null \in Values(Made, Len(heap))
    BY ConstantValues
  <2>3. Ready(p, 1) /\ Top(p, 1) = this /\ Top(p, 0) = Null /\ p.heap = heap
    BY <1>1, <1>2, <2>2, PushOneMore
  <2>4. Given(p, 1) = <<Null>>
    BY <1>1, <2>3, GivenOne
  <2>5. Rest(p, 1) = Rest(Machine, 0)
    BY <1>1, <1>2, <2>2, PushKeepsRest
  <2>6. PICK slot \in Slots : slot = "increment"
    BY DEF Slots
  <2>7. slot # "call" /\ Becomes(CallOperation(p, this, slot, 1))
    BY <1>1, <2>1, <2>6
  <2> HIDE DEF p, this
  <2>8. D!Overloaded(slot, this, Given(p, 1), Rest(p, 1))
    BY <1>5, <2>3, <2>7, OverloadedResult
  <2>9. D!Overloaded("increment", this, <<Null>>, D!Below(1))
    BY <1>3, <2>4, <2>5, <2>6, <2>8
  <2>10. QED
    BY <1>2, <1>4, <1>5, <2>9 DEF D!Postfix
<1>6. CASE ~ IsObject(this)
  <2>1. PerformPostfix(Machine) = RuntimeError(Machine)
    BY <1>6 DEF PerformPostfix
  <2>2. D!Fails
    BY <1>1, <1>2, <2>1, StoppedResult
  <2> HIDE DEF this
  <2>3. QED
    BY <1>2, <1>4, <1>6, <2>2 DEF D!Postfix
<1>7. QED
  BY <1>5, <1>6

(* Types are told by the number a class has got.                           *)
LEMMA TypeShown ==
  ASSUME FullInv, status = "running", NEW v \in Values(Made, Len(heap))
  PROVE  D!TypeOf(v) = TypeOf(Machine, v)
<1>1. /\ \A c \in Made : classes[c].type = graph[c].type
      /\ Len(heap) \in Nat /\ IInv
  BY LenProperties DEF FullInv, DispatchInv, IInv, ValuesInv
<1>2. RunningObjects = heap /\ Machine.heap = heap
  BY DEF RunningObjects, Machine
<1>3. IsMachine(Machine)
  BY <1>1, MachineInFrame DEF InFrame
<1>4. CASE v.k = "class" /\ v.class \in UserClasses
  <2>1. v.class \in Made
    <3>1. v.class \in Made \cup {"string", "closure"}
      BY <1>1, <1>4, ValueKinds
    <3>2. QED
      BY <1>4, <3>1, BuiltinNames
  <2>2. TypeOf(Machine, v) = classes[v.class].type
    BY <1>4 DEF TypeOf
  <2>3. D!TypeOf(v) = graph[v.class].type
    BY <1>4 DEF D!TypeOf
  <2>4. QED
    BY <1>1, <2>1, <2>2, <2>3
<1>5. CASE v.k = "class" /\ v.class \notin UserClasses
  <2>1. TypeOf(Machine, v) = BuiltinType(v.class)
    BY <1>5 DEF TypeOf
  <2>2. D!TypeOf(v) = BuiltinType(v.class)
    BY <1>5, SameValues DEF D!TypeOf
  <2>3. QED
    BY <2>1, <2>2
<1>6. CASE v.k = "instance"
  <2> DEFINE c == heap[v.i].class
  <2>1. c \in Made
    BY <1>1, <1>2, <1>3, <1>6, ValueKinds, HeapObjectType
  <2>2. TypeOf(Machine, v) = classes[c].type
    BY <1>2, <1>6 DEF TypeOf
  <2>3. D!TypeOf(v) = graph[c].type
    BY <1>2, <1>6 DEF D!TypeOf
  <2>4. QED
    BY <1>1, <2>1, <2>2, <2>3
<1>7. CASE v.k = "bound"
  <2>1. TypeOf(Machine, v) = obj_bound_method /\ D!TypeOf(v) = obj_bound_method
    BY <1>7, SameValues DEF TypeOf, D!TypeOf
  <2>2. QED
    BY <2>1
<1>8. CASE v.k \notin {"class", "instance", "bound"}
  <2>1. TypeOf(Machine, v) = BuiltinType(v.k)
    BY <1>8 DEF TypeOf
  <2>2. D!TypeOf(v) = BuiltinType(v.k)
    BY <1>8, SameValues DEF D!TypeOf
  <2>3. QED
    BY <2>1, <2>2
<1>9. QED
  BY <1>4, <1>5, <1>6, <1>7, <1>8

(* op_as: the conversions of a class are those it has declared itself.     *)
LEMMA ConversionsShown ==
  ASSUME FullInv, status = "running", NEW v \in Values(Made, Len(heap)),
         IsObject(v), v.k # "bound", NEW type
  PROVE  LET found == {c \in ConversionsOf(Machine, v) : c.type = type} IN
         /\ D!Conversions(v, type) = {c.method : c \in found}
         /\ \A c \in found : c.method \in Closures(Made) /\ v.k = "instance"
<1>1. /\ \A c \in Made : classes[c].conversions = graph[c].conversions
      /\ Len(heap) \in Nat /\ IInv
  BY LenProperties DEF FullInv, DispatchInv, IInv, ValuesInv
<1>2. RunningObjects = heap /\ Machine.heap = heap
  BY DEF RunningObjects, Machine
<1>3. IsMachine(Machine)
  BY <1>1, MachineInFrame DEF InFrame
<1>4. CASE v.k = "instance"
  <2> DEFINE d == heap[v.i].class
  <2>1. d \in Made /\ d \in UserClasses /\ classes[d] \in Tables(Made)
    BY <1>1, <1>2, <1>3, <1>4, ValueKinds, HeapObjectType
  <2>2. ConversionsOf(Machine, v) = classes[d].conversions
    BY <1>2, <1>4 DEF ConversionsOf
  <2>3. D!ClassOf(v) = d
    BY <1>2, <1>4 DEF D!ClassOf
  <2> HIDE DEF d
  <2>4. D!Conversions(v, type)
          = {c.method : c \in {e \in classes[d].conversions : e.type = type}}
    BY <1>1, <2>1, <2>3 DEF D!Conversions
  <2>5. \A c \in classes[d].conversions : c.method \in Closures(Made)
    BY <2>1 DEF Tables
  <2>6. QED
    BY <1>4, <2>2, <2>4, <2>5
<1>5. CASE v.k # "instance"
  <2>1. ConversionsOf(Machine, v) = {}
    BY <1>5 DEF ConversionsOf
  <2>2. D!ClassOf(v) \notin UserClasses
    <3>1. CASE v.k = "class"
      <4>1. D!ClassOf(v) = IF v.class \in UserClasses THEN "class" ELSE MetaClass(v.class)
        BY <3>1, SameValues DEF D!ClassOf
      <4>2. QED
        BY <4>1, BuiltinNames DEF MetaClass
    <3>2. CASE v.k \in {"string", "closure"}
      <4>1. D!ClassOf(v) = v.k
        BY <3>2 DEF D!ClassOf
      <4>2. QED
        BY <3>2, <4>1, BuiltinNames
    <3>3. QED
      BY <1>5, <3>1, <3>2 DEF IsObject
  <2>3. D!Conversions(v, type) = {}
    BY <2>2 DEF D!Conversions
  <2>4. QED
    BY <2>1, <2>3
<1>6. QED
  BY <1>4, <1>5
(* Without the class that is converted to.                                 *)
LEMMA BelowOne ==
  ASSUME IInv, status = "running", NEW m, Ready(m, 1)
  PROVE  LET p == Pop(m, 1) IN
         /\ Ready(p, 0) /\ p.heap = m.heap /\ Top(p, 0) = Top(m, 1)
         /\ Given(p, 0) = << >> /\ Rest(p, 0) = Rest(m, 1)
<1> DEFINE p == Pop(m, 1)
           V == Values(Made, Len(m.heap))
           b == Len(m.stack) - 1 - 1
<1>1. /\ InFrame(m) /\ IsMachine(m) /\ Len(m.stack) > Floor + 1 /\ Floor \in Nat
      /\ Len(m.stack) \in Nat /\ \A i \in 1 .. Len(m.stack) : m.stack[i] \in V
  BY FrameFacts, MachineFacts DEF Ready, InFrame
<1>2. 1 \in Nat /\ 0 \in Nat /\ Len(m.stack) >= Floor + 1
  BY <1>1
<1>3. /\ InFrame(p) /\ p.heap = m.heap /\ Len(p.stack) = Len(m.stack) - 1
      /\ \A i \in 1 .. Len(m.stack) - 1 : p.stack[i] = m.stack[i]
  BY <1>1, <1>2, PopInFrame
<1> HIDE DEF p
<1>4. Ready(p, 0)
  BY <1>1, <1>3 DEF Ready
<1>5. Top(p, 0) = Top(m, 1)
  <2>1. Len(m.stack) - 1 - 0 = Len(m.stack) - 1 /\ Len(m.stack) - 1 \in 1 .. Len(m.stack) - 1
    BY <1>1
  <2>2. QED
    BY <1>3, <2>1 DEF Top
<1>6. Rest(p, 0) = Rest(m, 1)
  <2>1. Len(p.stack) - 0 - 1 = b /\ b \in Int /\ Floor + 1 \in Int
    BY <1>1, <1>3
  <2>2. \A i \in Floor + 1 .. b : m.stack[i] \in V /\ p.stack[i] = m.stack[i]
    BY <1>1, <1>3
  <2> HIDE DEF V
  <2>3. Rest(p, 0) = SubSeq(p.stack, Floor + 1, b)
        /\ Rest(m, 1) = SubSeq(m.stack, Floor + 1, b)
    BY <2>1 DEF Rest
  <2> DEFINE a == Floor + 1
  <2> HIDE DEF a, b
  <2>4. SubSeq(p.stack, a, b) = SubSeq(m.stack, a, b)
    <3>1. a \in Int /\ b \in Int
      BY <2>1 DEF a
    <3>2. \A i \in a .. b : m.stack[i] \in V /\ p.stack[i] = m.stack[i]
      BY <2>2 DEF a
    <3>3. QED
      BY <3>1, <3>2, SameCut
  <2>5. QED
    BY <2>3, <2>4 DEF a
<1>7. QED
  BY <1>3, <1>4, <1>5, <1>6, GivenNone DEF p

(* op_as                                                                   *)
LEMMA AsDispatch ==
  ASSUME FullInv, status = "running", AtExpression, OpAs
  PROVE  D!As
<1> DEFINE this == Top(Machine, 1)
           other == Top(Machine, 0)
           type == TypeOf(Machine, other)
           found == {c \in ConversionsOf(Machine, this) : c.type = type}
           p == Pop(Machine, 1)
<1>1. decls = << >> /\ 1 \in Nat /\ 0 \in Nat /\ Operands > 0 /\ Operands > 1 /\ IInv
      /\ Becomes(PerformAs(Machine))
  <2>1. IInv /\ decls = << >> /\ Operands > 1 /\ Becomes(PerformAs(Machine))
    BY DEF FullInv, AtExpression, OpAs
  <2>2. Operands \in Int
    BY <2>1, FrameFacts DEF Operands
  <2>3. QED
    BY <2>1, <2>2
<1>2. /\ Ready(Machine, 1) /\ IsMachine(Machine) /\ Machine.heap = heap
      /\ Len(D!Operands) > 1 /\ D!Operand(1) = this /\ this \in Values(Made, Len(heap))
      /\ D!Below(1 + 1) = Rest(Machine, 1)
  BY <1>1, TopOperand
<1>3. D!Operand(0) = other /\ other \in Values(Made, Len(heap))
  BY <1>1, TopOperand
<1>4. D!Below(2) = Rest(Machine, 1)
  BY <1>2
<1>5. (D!IsObject(this) <=> IsObject(this)) /\ (D!IsObject(other) <=> IsObject(other))
      /\ D!TypeOf(other) = type
  BY <1>3, SameNatives, TypeShown
<1>6. CASE ~ IsObject(this) \/ ~ IsObject(other)
  <2>1. PerformAs(Machine) = RuntimeError(Pop(Machine, 2))
    <3>1. ~ (IsObject(other) /\ this.k = "bound")
      BY <1>6 DEF IsObject
    <3>2. QED
      BY <1>6, <3>1 DEF PerformAs
  <2>2. IsMachine(Pop(Machine, 1 + 1))
    BY <1>1, <1>2, PopIsMachine
  <2>3. D!Fails
    BY <1>1, <2>1, <2>2, StoppedResult
  <2> HIDE DEF this, other
  <2>4. QED
    BY <1>2, <1>3, <1>5, <1>6, <2>3 DEF D!As
<1>7. CASE IsObject(this) /\ IsObject(other) /\ this.k = "bound"
  <2>1. PerformAs(Machine) = Undefined(Machine)
    BY <1>7 DEF PerformAs
  <2>2. D!Hole
    BY <1>1, <1>2, <2>1, StoppedResult
  <2> HIDE DEF this, other
  <2>3. QED
    BY <1>2, <1>3, <1>5, <1>7, <2>2 DEF D!As
<1>8. CASE IsObject(this) /\ IsObject(other) /\ this.k # "bound"
  <2>1. /\ D!Conversions(this, type) = {c.method : c \in found}
        /\ \A c \in found : c.method \in Closures(Made) /\ this.k = "instance"
    BY <1>2, <1>8, ConversionsShown
  <2>2. CASE found = {}
    <3>1. PerformAs(Machine) = RuntimeError(Machine)
      BY <1>8, <2>2 DEF PerformAs
    <3>2. D!Fails
      BY <1>1, <1>2, <3>1, StoppedResult
    <3>3. D!Conversions(this, type) = {}
      BY <2>1, <2>2
    <3> HIDE DEF this, other, found, type
    <3>4. QED
      BY <1>2, <1>3, <1>5, <1>8, <3>2, <3>3 DEF D!As
  <2>3. CASE found # {}
    <3> DEFINE chosen == CHOOSE c \in found : TRUE
               f == chosen.method
    <3>1. PerformAs(Machine) = CallValue(p, f, 0)
      BY <1>8, <2>3 DEF PerformAs
    <3> HIDE DEF this, other, found, type
    <3>2. chosen \in found
      BY <2>3
    <3>3. f \in Closures(Made) /\ this.k = "instance" /\ f \in D!Conversions(this, type)
      BY <2>1, <3>2
    <3>4. Becomes(CallValue(p, f, 0))
      BY <1>1, <3>1
    <3>5. /\ Ready(p, 0) /\ p.heap = heap /\ Top(p, 0) = this
          /\ Given(p, 0) = << >> /\ Rest(p, 0) = D!Below(2)
      BY <1>1, <1>2, <1>4, BelowOne DEF this
    <3> HIDE DEF f, p
    <3>6. Applicable(f, this)
      BY <3>3, Kinds DEF Applicable
    <3>7. D!Applies(f, this, << >>, D!Below(2))
      <4>1. D!Applies(f, Top(p, 0), Given(p, 0), Rest(p, 0))
        BY <3>4, <3>5, <3>6, AppliesResult
      <4>2. QED
        BY <3>5, <4>1
    <3>8. D!Conversions(this, type) # {}
      BY <3>3
    <3>9. QED
      BY <1>2, <1>3, <1>5, <1>8, <3>3, <3>7, <3>8 DEF D!As
  <2>4. QED
    BY <2>2, <2>3
<1>9. QED
  BY <1>6, <1>7, <1>8

(* op_pop, and what prints pops.                                           *)
LEMMA OneDropped ==
  ASSUME FullInv, status = "running", AtExpression, NEW m, Ready(m, 0), m.heap = heap,
         LET p == Pop(m, 1) IN
           Becomes(p) \/ (stack' = p.stack /\ frames' = p.frames /\ heap' = p.heap
                          /\ status' = p.status)
  PROVE  D!Continues(Rest(m, 0))
<1> DEFINE p == Pop(m, 1)
<1>1. IInv /\ 0 + 1 = 1
  BY DEF FullInv
<1>2. Shown(Pop(m, 0 + 1)) = Rest(m, 0) /\ InFrame(Pop(m, 0 + 1))
      /\ Pop(m, 0 + 1).heap = m.heap
  BY <1>1, PopShown, PopIsMachine
<1>3. Shown(p) = Rest(m, 0) /\ InFrame(p) /\ p.heap = heap
  BY <1>1, <1>2
<1> HIDE DEF p
<1>4. D!Continues(Shown(p))
  BY <1>3, ContinuesResult DEF p
<1>5. QED
  BY <1>3, <1>4

LEMMA PopDispatch ==
  ASSUME FullInv, status = "running", AtExpression, OpPop
  PROVE  D!Drop
<1>1. decls = << >> /\ 0 \in Nat /\ Operands > 0 /\ IInv
  BY DEF FullInv, AtExpression, OpPop
<1>2. /\ Ready(Machine, 0) /\ Machine.heap = heap /\ Machine.stack = stack
      /\ D!Operands # << >> /\ D!Below(0 + 1) = Rest(Machine, 0)
  BY <1>1, TopOperand
<1>3. LET p == Pop(Machine, 1) IN
      stack' = p.stack /\ frames' = p.frames /\ heap' = p.heap /\ status' = p.status
  BY DEF OpPop, Pop, Machine, Front
<1>4. D!Continues(Rest(Machine, 0))
  BY <1>2, <1>3, OneDropped
<1>5. D!Below(1) = Rest(Machine, 0)
  BY <1>2
<1>6. QED
  BY <1>2, <1>4, <1>5 DEF D!Drop

(* vm::perform_print: natives print, and leave nothing.                    *)
LEMMA PrintDispatch ==
  ASSUME FullInv, status = "running", AtExpression, OpPrint
  PROVE  D!PrintStatement
<1> DEFINE this == Top(Machine, 0)
           print == OperationsOf(Machine, this)["print"]
           pushed == Push(Machine, this)
           copied == PrepareCallFrame(pushed, 0)
<1>1. decls = << >> /\ 0 \in Nat /\ Operands > 0 /\ IInv
      /\ Becomes(PerformPrint(Machine))
  BY DEF FullInv, AtExpression, OpPrint
<1>2. /\ Ready(Machine, 0) /\ InFrame(Machine) /\ IsMachine(Machine)
      /\ Machine.heap = heap /\ Machine.stack = stack
      /\ D!Operands # << >> /\ D!Operand(0) = this /\ D!Below(0 + 1) = Rest(Machine, 0)
      /\ this \in Values(Made, Len(heap))
  BY <1>1, TopOperand
<1>3. D!Below(1) = Rest(Machine, 0)
  BY <1>2
<1>4. (D!IsObject(this) <=> IsObject(this))
  BY SameNatives
<1>5. CASE ~ IsObject(this)
  <2>1. PerformPrint(Machine) = Pop(Machine, 1)
    <3>1. this.k # "bound"
      BY <1>5 DEF IsObject
    <3>2. QED
      BY <1>5, <3>1 DEF PerformPrint
  <2>2. D!Continues(D!Below(1))
    BY <1>1, <1>2, <1>3, <2>1, OneDropped
  <2> HIDE DEF this
  <2>3. QED
    BY <1>2, <1>4, <1>5, <2>2 DEF D!PrintStatement
<1>6. CASE IsObject(this) /\ this.k = "bound"
  <2>1. PerformPrint(Machine) = Undefined(Machine)
    BY <1>6 DEF PerformPrint
  <2>2. D!Hole
    BY <1>1, <1>2, <2>1, StoppedResult
  <2> HIDE DEF this
  <2>3. QED
    BY <1>2, <1>4, <1>6, <2>2 DEF D!PrintStatement
<1>7. CASE IsObject(this) /\ this.k # "bound"
  <2>1. D!Operation(this, "print") = print
    <3>1. PICK slot \in Slots : slot = "print"
      BY DEF Slots
    <3>2. HasOperations(Machine, this)
      BY <1>2, <1>7, ValueHasOperations
    <3>3. D!Operation(this, slot) = OperationsOf(Machine, this)[slot]
      BY <1>2, <1>7, <3>2, OperationShown
    <3>4. QED
      BY <3>1, <3>3
  <2>2. /\ Ready(pushed, 1) /\ Ready(pushed, 0) /\ pushed.heap = heap
        /\ Top(pushed, 1) = this /\ Top(pushed, 0) = this
    BY <1>1, <1>2, PushOneMore
  <2>3. /\ IsMachine(copied) /\ copied.heap = heap /\ Receiver(copied) = this
        /\ copied.stack = pushed.stack
    BY <1>1, <2>2, PrepareReady, PreparedShown
  <2>4. CASE print.k # "native"
    <3>1. PerformPrint(Machine) = RuntimeError(Machine)
      BY <1>7, <2>4 DEF PerformPrint
    <3>2. D!Fails
      BY <1>1, <1>2, <3>1, StoppedResult
    <3> HIDE DEF this, print
    <3>3. QED
      BY <1>2, <1>4, <1>7, <2>1, <2>4, <3>2 DEF D!PrintStatement
  <2>5. CASE print.k = "native"
    <3> DEFINE answers == NativeResult(print.name, this, << >>).outcome = "value"
    <3>1. PerformPrint(Machine) = IF answers THEN Pop(copied, 2) ELSE Undefined(copied)
      BY <1>7, <2>3, <2>5 DEF PerformPrint
    <3>2. (D!NativeResult(print.name, this, << >>).outcome = "value") <=> answers
      BY SameNatives
    <3>3. CASE answers
      <4> DEFINE q == Pop(copied, 2)
      <4>1. Becomes(q)
        BY <1>1, <3>1, <3>3
      <4>2. InFrame(q) /\ q.heap = heap /\ Shown(q) = Rest(Machine, 0)
        <5>1. /\ Ready(copied, 1) /\ Rest(copied, 1) = Rest(pushed, 1)
          <6>1. Prepared(copied, 0)
            BY <1>1, <2>2, PrepareReady
          <6>2. QED
            BY <2>2, <2>3, <6>1 DEF Prepared, Ready, Rest
        <5> HIDE DEF copied
        <5>2. Shown(Pop(copied, 1 + 1)) = Rest(copied, 1)
              /\ InFrame(Pop(copied, 1 + 1)) /\ Pop(copied, 1 + 1).heap = copied.heap
          BY <1>1, <5>1, PopShown, PopIsMachine
        <5>3. Rest(pushed, 1) = Rest(Machine, 0)
          BY <1>1, <1>2, PushKeepsRest
        <5>4. QED
          BY <2>3, <5>1, <5>2, <5>3
      <4> HIDE DEF q
      <4>3. D!Continues(D!Below(1))
        <5>1. D!Continues(Shown(q))
          BY <4>1, <4>2, ContinuesResult
        <5>2. QED
          BY <1>3, <4>2, <5>1
      <4> HIDE DEF this, print, answers
      <4>4. QED
        BY <1>2, <1>4, <1>7, <2>1, <2>5, <3>2, <3>3, <4>3 DEF D!PrintStatement
    <3>4. CASE ~ answers
      <4>1. D!Hole
        BY <1>1, <2>3, <3>1, <3>4, StoppedResult
      <4> HIDE DEF this, print, answers
      <4>2. QED
        BY <1>2, <1>4, <1>7, <2>1, <2>5, <3>2, <3>4, <4>1 DEF D!PrintStatement
    <3>5. QED
      BY <3>3, <3>4
  <2>6. QED
    BY <2>4, <2>5
<1>8. QED
  BY <1>5, <1>6, <1>7

(* Constants, globals, parameters and "this".                              *)
LEMMA ParametersShown ==
  ASSUME IInv, status = "running", decls = << >>, NEW v \in Parameters
  PROVE  v \in D!Range(D!Running.args)
<1>1. PICK i \in 1 .. Running.arity : v = stack[Base + 1 + i]
  BY DEF Parameters
<1>2. /\ Base \in Nat /\ Running.arity \in Nat /\ Floor \in Nat /\ Len(stack) \in Nat
      /\ Floor <= Len(stack) /\ Base + 1 + Running.arity = Floor
  BY FrameFacts, AboveTheParameters
<1>3. D!Running.args = SubSeq(stack, Base + 2, Floor)
  BY OperandsShown
<1> DEFINE args == SubSeq(stack, Base + 2, Floor)
<1>4. /\ Len(args) = Running.arity /\ args[i] = stack[Base + 1 + i]
      /\ i \in DOMAIN args
  <2>1. stack \in Seq(Values(Made, Len(heap)))
    BY DEF IInv, ValuesInv
  <2>2. Base + 2 \in 1 .. Len(stack) /\ Floor \in 1 .. Len(stack)
        /\ i \in 1 .. Floor - (Base + 2) + 1 /\ Base + 2 + i - 1 = Base + 1 + i
        /\ Floor - (Base + 2) + 1 = Running.arity /\ Base + 2 <= Floor
    BY <1>1, <1>2
  <2>3. args \in Seq(Values(Made, Len(heap)))
        /\ Len(args) = (IF Base + 2 <= Floor THEN Floor - (Base + 2) + 1 ELSE 0)
        /\ \A k \in 1 .. Floor - (Base + 2) + 1 : args[k] = stack[Base + 2 + k - 1]
    BY <2>1, <2>2, SubSeqProperties
  <2>4. QED
    BY <1>1, <1>2, <2>2, <2>3, LenProperties
<1> HIDE DEF args
<1>5. QED
  BY <1>1, <1>3, <1>4 DEF args, D!Range

LEMMA MentionDispatch ==
  ASSUME FullInv, status = "running", AtExpression, Mention
  PROVE  \E v \in D!Range(D!Operands) \cup D!Range(D!Running.args) \cup Literals
           \cup {D!Class(c) : c \in UserClasses} \cup {D!Running.this} : D!Mention(v)
<1>1. PICK v \in {w \in values : ~Undeclared(w)} \cup Parameters
                   \cup (IF HasThis(Running) THEN {This} ELSE {}) :
        stack' = Append(stack, v)
  BY DEF Mention
<1>2. IInv /\ decls = << >>
  BY DEF FullInv, AtExpression
<1>3. v \in Values(Made, Len(heap))
  BY <1>1, <1>2, MentionedValues, StackValues
<1>4. InFrame(Machine) /\ Machine.heap = heap /\ Machine.stack = stack
  BY <1>2, MachineInFrame
<1> DEFINE p == Push(Machine, v)
<1>5. InFrame(p) /\ p.heap = heap /\ Shown(p) = Append(Shown(Machine), v)
  BY <1>2, <1>3, <1>4, PushShown
<1>6. stack' = p.stack /\ frames' = p.frames /\ heap' = p.heap /\ status' = p.status
  BY <1>1 DEF Mention, Push, Machine
<1> HIDE DEF p
<1>7. D!Continues(Shown(p))
  BY <1>5, <1>6, ContinuesResult
<1>8. Shown(Machine) = D!Operands /\ D!Running.function = Running /\ D!Running.this = This
  BY <1>2, <1>4, OperandsShown DEF Shown
<1>9. D!Continues(Append(D!Operands, v))
  BY <1>5, <1>7, <1>8
<1>10. CASE v \in Literals
  BY <1>9, <1>10 DEF D!Mention
<1>11. CASE v \in {w \in values : ~Undeclared(w)} /\ v \notin Literals
  <2>1. v \in Mentionable
    BY <1>2, <1>11 DEF IInv, ValuesInv
  <2>2. PICK c \in UserClasses : v = Class(c)
    BY <1>11, <2>1 DEF Mentionable
  <2>3. graph[c].made
    BY <1>11, <2>2, Kinds DEF Undeclared
  <2>4. v = D!Class(c)
    BY <2>2, SameValues
  <2>5. D!Mention(v)
    BY <1>9, <2>3, <2>4 DEF D!Mention
  <2>6. QED
    BY <2>4, <2>5
<1>12. CASE v \in Parameters
  <2>1. v \in D!Range(D!Running.args)
    BY <1>2, <1>12, ParametersShown
  <2>2. QED
    BY <1>9, <2>1 DEF D!Mention
<1>13. CASE HasThis(Running) /\ v = This
  <2>1. D!HasThis(Running)
    BY <1>13, SameNatives
  <2>2. D!Mention(v)
    BY <1>8, <1>9, <1>13, <2>1 DEF D!Mention
  <2>3. QED
    BY <1>8, <1>13, <2>2
<1>14. QED
  BY <1>1, <1>10, <1>11, <1>12, <1>13

(* "super" puts the receiver and the superclass on top.                    *)
LEMMA BeginSuperDispatch ==
  ASSUME FullInv, status = "running", AtExpression, BeginSuper
  PROVE  D!BeginSuper
<1> DEFINE one == Push(Machine, This)
           two == Push(one, Running.super)
           S == Values(Made, Len(heap))
<1>1. IInv /\ decls = << >> /\ Running.super # Null
  BY DEF FullInv, AtExpression, BeginSuper
<1>2. This \in S /\ Running.super \in S
  BY <1>1, StackValues DEF Values
<1>3. InFrame(Machine) /\ Machine.heap = heap /\ Machine.stack = stack
  BY <1>1, MachineInFrame
<1>4. InFrame(one) /\ one.heap = heap /\ Shown(one) = Append(Shown(Machine), This)
  BY <1>1, <1>2, <1>3, PushShown
<1>5. two.stack = Append(Append(stack, This), Running.super)
      /\ two.frames = frames /\ two.heap = heap /\ two.status = status
  BY DEF Push, Machine
<1> HIDE DEF one
<1>6. InFrame(two) /\ two.heap = heap
      /\ Shown(two) = Append(Shown(one), Running.super)
  BY <1>1, <1>2, <1>4, PushShown
<1>7. stack \o <<This, Running.super>> = Append(Append(stack, This), Running.super)
  <2>1. stack \in Seq(S)
    BY <1>1 DEF IInv, ValuesInv
  <2>2. QED
    BY <1>2, <2>1
<1>8. stack' = two.stack /\ frames' = two.frames /\ heap' = two.heap
      /\ status' = two.status
  BY <1>5, <1>7 DEF BeginSuper
<1> HIDE DEF two
<1>9. D!Continues(Shown(two))
  BY <1>6, <1>8, ContinuesResult
<1>10. D!Operands = SubSeq(stack, Floor + 1, Len(stack))
       /\ D!Running.function = Running /\ D!Running.this = This
  BY <1>1, OperandsShown
<1>11. Shown(Machine) = D!Operands
  BY <1>3, <1>10 DEF Shown
<1>12. D!Operands \o <<This, Running.super>>
         = Append(Append(D!Operands, This), Running.super)
  <2>1. D!Operands \in Seq(S)
    <3>1. stack \in Seq(S) /\ Floor \in 0 .. Len(stack)
      BY <1>1, FrameFacts DEF IInv, ValuesInv
    <3>2. SubSeq(stack, Floor + 1, Len(stack)) \in Seq(S)
      BY <3>1, DropPrefix
    <3>3. QED
      BY <1>10, <3>2
  <2>2. QED
    BY <1>2, <2>1
<1>13. D!Continues(D!Operands \o <<This, Running.super>>)
  BY <1>4, <1>6, <1>9, <1>11, <1>12
<1>14. D!Null = Null
  BY SameValues
<1>15. QED
  BY <1>1, <1>10, <1>13, <1>14 DEF D!BeginSuper

LEMMA CallDispatch ==
  ASSUME FullInv, status = "running", AtExpression, NEW argc \in Nat, OpCall(argc)
  PROVE  D!CallExpression(argc)
<1>1. decls = << >> /\ Operands > argc
      /\ Becomes(CallValue(Machine, Top(Machine, argc), argc))
  BY DEF AtExpression, OpCall
<1>2. /\ Ready(Machine, argc) /\ Machine.heap = heap
      /\ Len(D!Operands) > argc /\ D!Operand(argc) = Top(Machine, argc)
      /\ D!Args(argc) = Given(Machine, argc)
      /\ D!Below(argc + 1) = Rest(Machine, argc)
  BY <1>1, TopOperand
<1>3. D!Calls(Top(Machine, argc), Given(Machine, argc), Rest(Machine, argc))
  BY <1>1, <1>2, CallsResult
<1>4. QED
  BY <1>2, <1>3 DEF D!CallExpression
(* The caller, once its call has returned v to it.                         *)
LEMMA CallerShown ==
  ASSUME IInv, status = "running", NEW f, NEW k \in Nat, Len(frames) = k + 1, k # 0,
         NEW v \in Values(Made, Len(heap)),
         NEW fs, fs[k] = frames[k], Len(fs) = k,
         f = Evaluating(stack, frames, k)
  PROVE  Evaluating(Append(BelowFrame, v), fs, k)
           = [f EXCEPT !.operands = Append(@, v)]
<1> DEFINE V == Values(Made, Len(heap))
           s == Append(BelowFrame, v)
           slots == frames[k].slots
           arity == frames[k].function.arity
           from == slots + 1 + arity
<1>1. /\ stack \in Seq(V) /\ Base \in Nat /\ Base + 1 <= Len(stack) /\ Len(stack) \in Nat
      /\ k \in 1 .. Len(frames) /\ k + 1 \in 1 .. Len(frames) /\ k < Len(frames)
      /\ DOMAIN frames = 1 .. Len(frames)
  BY FrameFacts, LenProperties DEF IInv, ValuesInv
<1>2. slots \in Nat /\ arity \in Nat
  BY <1>1, FramesLieBelow
<1>3. EndOf(stack, frames, k) = Base
  BY <1>1 DEF EndOf, Base
<1>4. from \in Nat /\ from <= Base
  BY <1>1, <1>2, <1>3, FramedNow DEF Framed
<1> DEFINE b == BelowFrame
<1>5. b \in Seq(V) /\ Len(b) = Base /\ \A i \in 1 .. Base : b[i] = stack[i]
  <2>1. Base \in 0 .. Len(stack)
    BY <1>1
  <2>2. QED
    BY <1>1, <2>1, TakePrefix DEF BelowFrame
<1> HIDE DEF b
<1>6. Append(b, v) \in Seq(V) /\ Len(Append(b, v)) = Base + 1
      /\ \A i \in 1 .. Base : Append(b, v)[i] = stack[i]
  BY <1>1, <1>5, AppendProperties
<1>7. EndOf(Append(b, v), fs, k) = Base + 1
  BY <1>6 DEF EndOf
<1>8. \A i \in 1 .. Base : stack[i] \in V /\ b[i] = stack[i] /\ Append(b, v)[i] = stack[i]
  <2>1. \A i \in 1 .. Base : i \in 1 .. Len(stack)
    BY <1>1
  <2>2. QED
    BY <1>1, <1>5, <1>6, <2>1, ElementOfSeq
<1> HIDE DEF V, slots, arity, from
<1>9. slots + 1 \in 1 .. Base /\ from = slots + 1 + arity
  BY <1>1, <1>2, <1>4 DEF from
<1>10. Append(b, v)[slots + 1] = stack[slots + 1]
  BY <1>8, <1>9
<1>11. SubSeq(Append(b, v), slots + 2, from) = SubSeq(stack, slots + 2, from)
  <2>1. \A i \in slots + 2 .. from : i \in 1 .. Base
    BY <1>1, <1>2, <1>4
  <2> DEFINE first == slots + 2
             u == Append(b, v)
  <2>2. first \in Int /\ from \in Int
    BY <1>2, <1>4
  <2>3. \A i \in first .. from : stack[i] \in V /\ u[i] = stack[i]
    BY <1>8, <2>1
  <2> HIDE DEF first, u
  <2>4. SubSeq(u, first, from) = SubSeq(stack, first, from)
    BY <2>2, <2>3, SameCut
  <2>5. QED
    BY <2>4 DEF first, u
<1>12. SubSeq(Append(b, v), from + 1, Base + 1)
         = Append(SubSeq(stack, from + 1, Base), v)
  <2>1. from \in 0 .. Len(b) /\ Len(b) = Base /\ v \in V
    BY <1>1, <1>4, <1>5 DEF V
  <2>2. SubSeq(Append(b, v), from + 1, Len(b) + 1) = Append(SubSeq(b, from + 1, Len(b)), v)
    BY <1>5, <2>1, CutOfAppend
  <2>3. SubSeq(b, from + 1, Base) = SubSeq(stack, from + 1, Base)
    <3>1. \A i \in from + 1 .. Base : i \in 1 .. Base
      BY <1>1, <1>4
    <3>2. from + 1 \in Int /\ Base \in Int
      BY <1>1, <1>4
    <3>3. \A i \in from + 1 .. Base : stack[i] \in V /\ b[i] = stack[i]
      BY <1>8, <3>1
    <3>4. QED
      BY <3>2, <3>3, SameCut
  <2>4. QED
    BY <2>1, <2>2, <2>3
<1> DEFINE function == frames[k].function
           this == stack[slots + 1]
           args == SubSeq(stack, slots + 2, from)
           operands == SubSeq(stack, from + 1, Base)
<1>13. slots + 2 + arity = from + 1 /\ slots + 1 + arity = from
  BY <1>1, <1>2 DEF from
<1>14. f = [function |-> function, this |-> this, args |-> args, operands |-> operands]
  BY <1>3, <1>13, Zenon DEF Evaluating, slots, arity
<1>15. Evaluating(Append(b, v), fs, k)
         = [function |-> function, this |-> this, args |-> args,
            operands |-> Append(operands, v)]
  BY <1>7, <1>10, <1>11, <1>12, <1>13, Zenon DEF Evaluating, slots, arity
<1> DEFINE more == Append(operands, v)
<1> HIDE DEF function, this, args, operands, more
<1>16. [f EXCEPT !.operands = more]
         = [function |-> function, this |-> this, args |-> args, operands |-> more]
  BY <1>14, RecordReplaced
<1>17. f.operands = operands
  BY <1>14
<1>18. QED
  BY <1>15, <1>16, <1>17 DEF b, more
(* What is returned: the instance a constructor has made, or the value on  *)
(* top, or null.                                                           *)
LEMMA ResultShown ==
  ASSUME FullInv, status = "running", decls = << >>,
         NEW v \in IF IsInitializer(Running) THEN {This}
                   ELSE {Null} \cup (IF Operands > 0 THEN {Top(Machine, 0)} ELSE {})
  PROVE  /\ v \in Values(Made, Len(heap))
         /\ v \in IF D!IsInitializer(D!Running.function) THEN {D!Running.this}
                  ELSE {D!Null} \cup D!Range(D!Operands)
<1>1. IInv
  BY DEF FullInv
<1>2. D!Running.function = Running /\ D!Running.this = This
  BY <1>1, OperandsShown
<1>3. (D!IsInitializer(Running) <=> IsInitializer(Running)) /\ D!Null = Null
  BY SameNatives, SameValues
<1>4. CASE IsInitializer(Running)
  BY <1>1, <1>2, <1>3, <1>4, StackValues
<1>5. CASE ~ IsInitializer(Running) /\ v = Null
  BY <1>2, <1>3, <1>5, ConstantValues
<1>6. CASE ~ IsInitializer(Running) /\ Operands > 0 /\ v = Top(Machine, 0)
  <2>1. 0 \in Nat
    OBVIOUS
  <2>2. /\ Len(D!Operands) > 0 /\ D!Operand(0) = v /\ v \in Values(Made, Len(heap))
    BY <1>6, <2>1, TopOperand
  <2>3. D!Operands = SubSeq(stack, Floor + 1, Len(stack))
    BY <1>1, OperandsShown
  <2>4. D!Operands \in Seq(Values(Made, Len(heap)))
    <3>1. stack \in Seq(Values(Made, Len(heap))) /\ Floor \in 0 .. Len(stack)
      BY <1>1, FrameFacts DEF IInv, ValuesInv
    <3>2. QED
      BY <2>3, <3>1, DropPrefix
  <2>5. Len(D!Operands) - 0 \in DOMAIN D!Operands
    BY <2>2, <2>4, LenProperties
  <2>6. v \in D!Range(D!Operands)
    BY <2>2, <2>5 DEF D!Operand, D!Range
  <2>7. QED
    BY <1>2, <1>3, <1>6, <2>2, <2>6
<1>7. QED
  BY <1>4, <1>5, <1>6

(* Everything below the caller is what it was.                             *)
LEMMA ReturnShown ==
  ASSUME FullInv, status = "running", decls = << >>, NEW k \in Nat,
         Len(frames) = k + 1, k # 0, NEW v \in Values(Made, Len(heap))
  PROVE  AllEvaluating(Append(BelowFrame, v), Front(frames))
           = [Front(RunningActivations) EXCEPT ![k].operands = Append(@, v)]
<1> DEFINE V == Values(Made, Len(heap))
           A == RunningActivations
           T == {Evaluating(stack, frames, i) : i \in 1 .. k + 1}
           s == Append(BelowFrame, v)
           fs == Front(frames)
           B == AllEvaluating(s, fs)
           F == Front(A)
           last == [F[k] EXCEPT !.operands = Append(@, v)]
           E == [F EXCEPT ![k] = last]
<1>1. /\ IInv /\ Base \in Nat /\ Base + 1 <= Len(stack) /\ Len(stack) \in Nat
      /\ stack \in Seq(V) /\ frames \in Seq(CallFrames(Made))
      /\ DOMAIN frames = 1 .. k + 1 /\ k \in 1 .. k /\ k \in 1 .. k + 1
  BY FrameFacts, LenProperties DEF FullInv, IInv, ValuesInv
<1>2. A \in [1 .. k + 1 -> T] /\ \A i \in 1 .. k + 1 : A[i] = Evaluating(stack, frames, i)
  BY <1>1, EvaluatingActivations DEF AllEvaluating
<1>3. A \in Seq(T) /\ Len(A) = k + 1
  <2>1. k + 1 \in Nat
    OBVIOUS
  <2> DEFINE n == k + 1
  <2>2. n \in Nat /\ A \in [1 .. n -> T]
    BY <1>2, <2>1
  <2> HIDE DEF n, A, T
  <2>3. A \in Seq(T) /\ Len(A) = n
    BY <2>2, FunctionIsSeq
  <2>4. QED
    BY <2>3 DEF n
<1> HIDE DEF A, T
<1>4. /\ F \in Seq(T) /\ Len(F) = k /\ DOMAIN F = 1 .. k
      /\ \A i \in 1 .. k : F[i] = Evaluating(stack, frames, i)
  <2>1. k \in 0 .. Len(A) /\ Len(A) - 1 = k
    BY <1>3
  <2>2. F \in Seq(T) /\ Len(F) = k /\ DOMAIN F = 1 .. k /\ \A i \in 1 .. k : F[i] = A[i]
    BY <1>3, <2>1, TakePrefix DEF Front
  <2>3. \A i \in 1 .. k : i \in 1 .. k + 1
    OBVIOUS
  <2>4. QED
    BY <1>2, <2>2, <2>3
<1>5. /\ Len(fs) = k /\ DOMAIN fs = 1 .. k /\ \A i \in 1 .. k : fs[i] = frames[i]
  <2>1. k \in 0 .. Len(frames) /\ Len(frames) - 1 = k
    BY <1>1
  <2>2. QED
    BY <1>1, <2>1, TakePrefix DEF Front
<1>6. \A i \in 1 .. Base : s[i] = stack[i]
  <2>1. Base \in 0 .. Len(stack)
    BY <1>1
  <2>2. BelowFrame \in Seq(V) /\ Len(BelowFrame) = Base
        /\ \A i \in 1 .. Base : BelowFrame[i] = stack[i]
    BY <1>1, <2>1, TakePrefix DEF BelowFrame
  <2> DEFINE b == BelowFrame
  <2> HIDE DEF b, V
  <2>3. b \in Seq(V) /\ v \in V /\ Len(b) = Base /\ \A i \in 1 .. Base : b[i] = stack[i]
    BY <2>2 DEF b, V
  <2>4. \A i \in 1 .. Base : Append(b, v)[i] = b[i]
    BY <2>3, AppendProperties
  <2>5. QED
    BY <2>3, <2>4 DEF b
<1> HIDE DEF F, s, fs
<1>7. B[k] = last
  <2>1. fs[k] = frames[k] /\ F[k] = Evaluating(stack, frames, k)
    BY <1>1, <1>4, <1>5
  <2> DEFINE f == F[k]
  <2>5. f = Evaluating(stack, frames, k) /\ fs[k] = frames[k] /\ Len(fs) = k /\ IInv
    BY <1>1, <1>5, <2>1
  <2> HIDE DEF f, last
  <2>2. Evaluating(Append(BelowFrame, v), fs, k) = [f EXCEPT !.operands = Append(@, v)]
    BY <2>5, CallerShown
  <2>3. B[k] = Evaluating(s, fs, k)
    BY <1>1, <1>5 DEF AllEvaluating
  <2>4. QED
    BY <2>2, <2>3 DEF s, f, last
<1>8. ASSUME NEW i \in 1 .. k, i # k
      PROVE  B[i] = F[i]
  <2>1. /\ i \in 1 .. Len(frames) - 1 /\ i < Len(fs) /\ fs[i] = frames[i]
        /\ i + 1 \in 1 .. k /\ fs[i + 1] = frames[i + 1]
        /\ i + 1 \in 1 .. k + 1 /\ i + 1 <= k + 1 /\ k + 1 \in 1 .. k + 1
    BY <1>1, <1>5, <1>8
  <2>2. frames[i + 1].slots <= frames[k + 1].slots /\ frames[k + 1].slots = Base
    BY <1>1, <2>1, FramedNow DEF Framed, Base
  <2>3. frames[i + 1].slots \in Nat
    BY <1>1, <2>1, FramesLieBelow
  <2>4. \A j \in 1 .. frames[i + 1].slots : s[j] = stack[j]
    BY <1>1, <1>6, <2>2, <2>3
  <2>5. Evaluating(s, fs, i) = Evaluating(stack, frames, i)
    BY <1>1, <2>1, <2>4, CallersShown
  <2>6. B[i] = Evaluating(s, fs, i)
    BY <1>5 DEF AllEvaluating
  <2>7. QED
    BY <1>4, <2>5, <2>6
<1>9. B = [i \in 1 .. k |-> B[i]]
  BY <1>5 DEF AllEvaluating
<1> HIDE DEF B, last
<1>10. E = [i \in 1 .. k |-> IF i = k THEN last ELSE F[i]]
  BY <1>1, <1>4
<1>11. E = B
  BY <1>7, <1>8, <1>9, <1>10
<1>12. E = [F EXCEPT ![k].operands = Append(@, v)]
  BY DEF last
<1>13. QED
  BY <1>11, <1>12, Zenon DEF B, s, fs, F, A

(* op_return                                                               *)
LEMMA ReturnDispatch ==
  ASSUME FullInv, status = "running", AtExpression, OpReturn
  PROVE  \E v \in {D!Null, D!Running.this} \cup D!Range(D!Operands) : D!Return(v)
<1>1. PICK v \in IF IsInitializer(Running) THEN {This}
                 ELSE {Null} \cup (IF Operands > 0 THEN {Top(Machine, 0)} ELSE {}) :
        /\ frames' = Front(frames)
        /\ stack' = IF Len(frames) = 1 THEN BelowFrame ELSE Append(BelowFrame, v)
        /\ status' = IF Len(frames) = 1 THEN "ok" ELSE "running"
        /\ UNCHANGED heap
  BY DEF OpReturn
<1>2. IInv /\ decls = << >> /\ decls' = decls
  BY DEF FullInv, AtExpression
<1> DEFINE results == IF D!IsInitializer(D!Running.function) THEN {D!Running.this}
                      ELSE {D!Null} \cup D!Range(D!Operands)
<1>3. v \in Values(Made, Len(heap)) /\ v \in results
  BY <1>1, <1>2, ResultShown
<1>4. Len(RunningActivations) = Len(frames) /\ RunningObjects = heap
  BY <1>2, OperandsShown
<1>5. D!Return(v)
  <2>1. CASE Len(frames) = 1
    <3>1. D!Stops("ok")
      BY <1>1, <2>1, StopsShown
    <3>2. QED
      BY <1>3, <1>4, <2>1, <3>1, Zenon DEF D!Return
  <2>2. CASE Len(frames) # 1
    <3> DEFINE k == Len(frames) - 1
    <3>1. k \in Nat /\ k # 0 /\ Len(frames) = k + 1
      BY <1>2, <2>2, FrameFacts
    <3>2. status' = "running" /\ frames' = Front(frames) /\ stack' = Append(BelowFrame, v)
          /\ heap' = heap
      BY <1>1, <2>2
    <3>3. RunningActivations' = AllEvaluating(Append(BelowFrame, v), Front(frames))
          /\ RunningObjects' = heap
      BY <1>2, <3>2, EvaluatingActivations DEF RunningObjects
    <3> DEFINE l == Len(RunningActivations) - 1
    <3>4. l = k
      BY <1>4
    <3> HIDE DEF k, l
    <3>5. RunningActivations'
            = [Front(RunningActivations) EXCEPT ![l].operands = Append(@, v)]
      BY <1>2, <1>3, <3>1, <3>3, <3>4, ReturnShown
    <3>6. \A q : D!Front(q) = Front(q)
      BY DEF D!Front, Front
    <3>7. RunningActivations'
            = [D!Front(RunningActivations) EXCEPT
                 ![Len(RunningActivations) - 1].operands = Append(@, v)]
      BY <3>5, <3>6 DEF l
    <3>8. UNCHANGED <<RunningObjects, status>>
      BY <1>4, <3>2, <3>3
    <3>9. QED
      BY <1>3, <1>4, <2>2, <3>7, <3>8 DEF D!Return
  <2>3. QED
    BY <2>1, <2>2
<1>6. v \in {D!Null, D!Running.this} \cup D!Range(D!Operands)
  BY <1>3
<1>7. QED
  BY <1>5, <1>6
LEMMA ExpressionsNext ==
  ASSUME status = "running", D!Expression
  PROVE  D!Next
  BY DEF D!Next

LEMMA ExpressionDispatch ==
  ASSUME FullInv, status = "running", Expression
  PROVE  DispatchInv' /\ D!Next
<1>1. AtExpression /\ UNCHANGED graph
  BY DEF Expression, AtExpression
<1>2. Arities \subseteq Nat /\ Properties \subseteq Names
  BY CallsAssumption
<1> SUFFICES D!Expression
  BY <1>1, ExpressionKeepsTables, ExpressionsNext
<1>3. CASE Mention
  BY <1>1, <1>3, MentionDispatch DEF D!Expression
<1>4. CASE BeginSuper
  BY <1>1, <1>4, BeginSuperDispatch DEF D!Expression
<1>5. CASE OpPop
  BY <1>1, <1>5, PopDispatch DEF D!Expression
<1>6. ASSUME NEW argc \in Arities, OpCall(argc)
      PROVE  D!Expression
  <2>1. D!CallExpression(argc)
    BY <1>1, <1>2, <1>6, CallDispatch
  <2>2. QED
    BY <1>1, <2>1 DEF D!Expression
<1>7. ASSUME NEW argc \in Arities, NEW n \in Names, OpInvoke(n, argc)
      PROVE  D!Expression
  <2>1. D!Invoke(n, argc)
    BY <1>1, <1>2, <1>7, InvokeDispatch
  <2>2. QED
    BY <1>1, <2>1 DEF D!Expression
<1>8. ASSUME NEW argc \in Arities, NEW n \in Names, OpInvokeSuper(n, argc)
      PROVE  D!Expression
  <2>1. D!InvokeSuper(n, argc)
    BY <1>1, <1>2, <1>8, InvokeSuperDispatch
  <2>2. QED
    BY <1>1, <2>1 DEF D!Expression
<1>9. ASSUME NEW n \in Names, OpGetSuper(n)
      PROVE  D!Expression
  <2>1. D!GetSuper(n)
    BY <1>1, <1>9, GetSuperDispatch
  <2>2. QED
    BY <1>1, <2>1 DEF D!Expression
<1>10. ASSUME NEW n \in Properties, OpGetProperty(n) \/ OpSetProperty(n)
       PROVE  D!Expression
  <2>1. n \in Names
    BY <1>2
  <2>2. D!GetProperty(n) \/ D!SetProperty(n)
    BY <1>1, <1>10, GetPropertyDispatch, SetPropertyDispatch
  <2>3. QED
    BY <1>1, <2>1, <2>2 DEF D!Expression
<1>11. CASE OpInfix
  BY <1>1, <1>11, InfixDispatch DEF D!Expression
<1>12. CASE OpAs
  BY <1>1, <1>12, AsDispatch DEF D!Expression
<1>13. CASE OpNegate
  BY <1>1, <1>13, PrefixDispatch DEF D!Expression
<1>14. CASE OpPostincrement
  BY <1>1, <1>14, PostfixDispatch DEF D!Expression
<1>15. CASE OpPrint
  BY <1>1, <1>15, PrintDispatch DEF D!Expression
<1>16. CASE OpReturn
  BY <1>1, <1>16, ReturnDispatch DEF D!Expression
<1>17. QED
  BY <1>3, <1>4, <1>5, <1>6, <1>7, <1>8, <1>9, <1>10, <1>11, <1>12, <1>13, <1>14,
     <1>15, <1>16 DEF Expression

(***************************************************************************)
(* A line begins                                                           *)
(***************************************************************************)
LEMMA FreshActivation ==
  D!Activation(D!Script, D!Script, << >>) = Fresh
BY SameValues DEF D!Activation, Fresh

LEMMA StartsFresh ==
  /\ \A declaring \in BOOLEAN :
       ActivationsOf(<<Script>>, <<Frame(Script, 0)>>, declaring) = <<Fresh>>
<1> DEFINE s == <<Script>>
           fs == <<Frame(Script, 0)>>
<1>1. /\ s \in Seq({Script}) /\ DOMAIN fs = {1} /\ Len(fs) = 1 /\ s[1] = Script
      /\ fs[1].function = Script /\ fs[1].slots = 0
  BY DEF Frame
<1> HIDE DEF fs
<1>2. ASSUME NEW declaring \in BOOLEAN PROVE ActivationsOf(s, fs, declaring) = <<Fresh>>
  <2>1. s = <<Script>>
    OBVIOUS
  <2> HIDE DEF s
  <2>2. QED
    BY <1>1, <2>1, OneActivation
<1>3. QED
  BY <1>2 DEF fs

LEMMA InitDispatch ==
  ASSUME Init
  PROVE  DispatchInv /\ D!Init
<1>1. /\ stack = <<Script>> /\ frames = <<Frame(Script, 0)>> /\ heap = << >>
      /\ graph = [c \in UserClasses |-> Unmade]
      /\ status = "running" /\ stage = "class"
  BY DEF Init
<1>2. /\ \A c \in UserClasses : graph[c] = Unmade /\ ~graph[c].made
                                /\ graph[c].parent \notin UserClasses
  <2>1. ~Unmade.made
    BY Zenon DEF Unmade
  <2>2. Unmade.parent \notin UserClasses
    <3>1. Unmade.parent = ""
      BY Zenon DEF Unmade
    <3>2. "" \notin UserClasses
      BY CallsAssumption
    <3>3. QED
      BY <3>1, <3>2, Zenon
  <2>3. QED
    BY <1>1, <2>1, <2>2
<1>3. Made = {}
  BY <1>2 DEF Made
<1>4. SuperclassesEnd
  <2>1. SUFFICES ASSUME NEW S \in SUBSET UserClasses, S # {}
                 PROVE  \E c \in S : graph[c].parent \notin S
    BY DEF SuperclassesEnd
  <2>2. PICK c : c \in S
    BY <2>1
  <2>3. QED
    BY <1>2, <2>2
<1>5. DispatchInv
  <2>1. OperationsAreNearest
    BY <1>3 DEF OperationsAreNearest
  <2>2. stage # "inherit" /\ stage \notin {"get", "members"}
    BY <1>1
  <2>3. QED
    BY <1>2, <1>3, <1>4, <2>1, <2>2, Zenon DEF DispatchInv
<1>6. RunningActivations = <<D!Activation(D!Script, D!Script, << >>)>>
      /\ RunningObjects = << >>
  BY <1>1, ShownActivations, StartsFresh, FreshActivation
<1>7. D!Undeclared = Unmade
  BY SameValues, Zenon DEF D!Undeclared, Unmade
<1>8. D!Init
  BY <1>1, <1>6, <1>7, Zenon DEF D!Init
<1>9. QED
  BY <1>5, <1>8

LEMMA InterpretDispatch ==
  ASSUME FullInv, Interpret
  PROVE  DispatchInv' /\ D!Next
<1>1. /\ stack' = <<Script>> /\ frames' = <<Frame(Script, 0)>> /\ heap' = << >>
      /\ stage' = "class" /\ status' = "running" /\ UNCHANGED <<classes, graph>>
      /\ status \in {"ok", "error"}
  BY DEF Interpret, Starts
<1>2. DispatchInv'
  <2>1. TablesInv'
    BY <1>1, SameTables DEF FullInv
  <2>2. stage' # "inherit" /\ stage' \notin {"get", "members"}
    BY <1>1
  <2>3. QED
    BY <2>1, <2>2, DispatchFollows, Zenon
<1>3. RunningActivations' = <<D!Activation(D!Script, D!Script, << >>)>>
  BY <1>1, ShownActivations, StartsFresh, FreshActivation
<1>4. UNCHANGED RunningObjects
  BY <1>1, ShownActivations
<1>5. D!NextLine
  BY <1>1, <1>3, <1>4 DEF D!NextLine
<1>6. QED
  BY <1>2, <1>5 DEF D!Next

(***************************************************************************)
(* The machine implements DynamicDispatch                                  *)
(***************************************************************************)
LEMMA StepDispatch ==
  ASSUME FullInv, [Next]_vars
  PROVE  FullInv' /\ [D!Next]_(D!dispatch)
<1>1. IInv'
  BY NextIInv DEF FullInv
<1>2. CASE status = "running" /\ Declaration
  BY <1>1, <1>2, DeclarationDispatch DEF FullInv, D!dispatch
<1>3. CASE status = "running" /\ Expression
  BY <1>1, <1>3, ExpressionDispatch DEF FullInv
<1>4. CASE Interpret
  BY <1>1, <1>4, InterpretDispatch DEF FullInv
<1>5. CASE UNCHANGED vars
  <2>1. UNCHANGED <<stack, frames, heap, classes, status, decls, stage, graph>>
    BY <1>5 DEF vars
  <2>2. DispatchInv'
    <3>1. TablesInv'
      BY <2>1, SameTables DEF FullInv
    <3>2. Declared' = Declared
      BY <2>1 DEF Declared
    <3>3. DeclaredParent' = DeclaredParent
      BY <3>2, Zenon DEF DeclaredParent
    <3>4. QED
      BY <2>1, <3>1, <3>2, <3>3, DispatchFollows, Zenon DEF FullInv, DispatchInv
  <2>3. UNCHANGED <<RunningActivations, RunningObjects, graph, status>>
    BY <2>1, Zenon DEF RunningActivations, RunningObjects, Activations, ArgumentsOf,
       OperandsOf, End
  <2>4. QED
    BY <1>1, <2>2, <2>3 DEF FullInv, D!dispatch
<1>6. QED
  BY <1>2, <1>3, <1>4, <1>5 DEF Next

(* In every program each class that is declared has in its tables its own  *)
(* methods and operations and else those of its superclass, its own        *)
(* conversions and its type number, and superclasses come to an end.       *)
THEOREM DispatchInductive == Spec => []FullInv
<1>1. Init => FullInv
  BY InitIInv, InitDispatch DEF FullInv
<1>2. FullInv /\ [Next]_vars => FullInv'
  BY StepDispatch
<1>3. QED
  BY <1>1, <1>2, PTL DEF Spec

(* op_inherit, op_special_method: the tables an instruction looks into     *)
(* hold what a walk along the superclasses finds, from however far above.  *)
TablesHoldTheNearest ==
  \A c \in Made :
    /\ \A n \in Names : classes[c].methods[n] = D!FindMethod(c, n)
    /\ \A s \in Slots : classes[c].operations[s] = D!FindOperation(c, s)

(* Superclasses never go round in a circle, and copying tables once, when  *)
(* a class is declared, finds the same as walking along them at each call. *)
THEOREM TablesAreEnough == Spec => [](SuperclassesEnd /\ TablesHoldTheNearest)
<1>1. FullInv => SuperclassesEnd
  BY DEF FullInv, DispatchInv
<1>2. FullInv => TablesHoldTheNearest
  BY FindsMethod, FindsOperation DEF TablesHoldTheNearest
<1>3. QED
  BY <1>1, <1>2, DispatchInductive, PTL

(* vm::run, object_inherit, class_object::call, op_return and all the      *)
(* instructions between them: with one stack and copied tables the machine *)
(* does what a program may rely on, for every program, and for every depth *)
(* of calls and of superclasses.                                           *)
THEOREM DispatchIsDynamic == Spec => ImplementsDynamicDispatch
<1>1. Init => FullInv /\ D!Init
  BY InitIInv, InitDispatch DEF FullInv
<1>2. FullInv /\ [Next]_vars => FullInv' /\ [D!Next]_(D!dispatch)
  BY StepDispatch
<1>3. QED
  BY <1>1, <1>2, PTL DEF Spec, ImplementsDynamicDispatch, D!Spec

=============================================================================
