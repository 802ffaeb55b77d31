-------------------------------- MODULE Calls -------------------------------
(***************************************************************************)
(* How the virtual machine declares classes and calls things (vm.cpp,      *)
(* object.cpp, compiler.cpp): one value stack, whose slot n is             *)
(* stack[n + 1], the frames that divide it, and for every class a table of *)
(* methods and a table of operations, into which op_inherit copies those   *)
(* of the superclass.                                                      *)
(*                                                                         *)
(* A line of the session declares its classes and then evaluates any       *)
(* expressions over the constants and globals it mentions, in any order    *)
(* that has the operands on the stack.  A closure is called with any body. *)
(***************************************************************************)
EXTENDS Objects, SequencesExt

CONSTANTS
  Literals,      \* constants, functions, natives and built-in classes
  Types,         \* type numbers of classes
  Programs,      \* sequences of lines: what each declares and mentions
  Properties,    \* the names expressions get and set
  Arities,       \* the numbers of parameters and of arguments of a call
  MaxFrames,     \* s_call_frame_max_size
  MaxStack,      \* bound: no step starts above this height
  MaxInstances   \* bound: instances a line makes

VARIABLES
  stack,    \* m_stack, up to its top
  frames,   \* m_call_frames: function, slots and top of each
  heap,     \* the instances: class and fields
  classes,  \* the class objects: type number, methods, operations, conversions
  status,   \* what interpret has returned, or "running"
  lines,    \* the lines still to come
  decls,    \* the declarations of this line still to run
  stage,    \* how far the first of them is
  values    \* the constants and globals that expressions of this line mention

(* Not in the code: what each class declares, and its superclass.          *)
VARIABLE graph

vars == <<stack, frames, heap, classes, status, lines, decls, stage, values,
  graph>>

ASSUME CallsAssumption ==
  /\ MaxFrames \in Nat \ {0}
  /\ MaxStack \in Nat /\ MaxInstances \in Nat
  /\ Arities \subseteq Nat /\ Types \subseteq Nat
  /\ "clone" \in Names /\ Properties \subseteq Names
  /\ {"", "string", "closure", "class", "string meta", "closure meta"}
       \cap UserClasses = {}

(* What a program may name, and what its lines are made of.  The functions *)
(* are those outside classes, which have no "super".  The kinds are those  *)
(* of compile_function::type, with conversions apart from other operators. *)
FunctionKinds == {"script", "function", "method", "operator", "ctor", "convert"}
FunctionNames == {""} \cup Names \cup Slots

GlobalFunctions ==
  [k : {"closure"}, kind : {"script", "function"}, owner : {""},
   name : FunctionNames, arity : Nat, super : {Null}]

GlobalValues ==
  {Null, Number, Bool, String, Class("string"), Class("closure")}
    \cup GlobalFunctions \cup {Native("clock"), Native("srand")}

Mentionable == Literals \cup {Class(c) : c \in UserClasses}

(* Of the tokens that name an operator, those of the operators modelled.   *)
(* A conversion with parameters does not compile.                          *)
OperatorTokens == {"+", "-", "+=", "*=", "++", "==", "<", "(", "print", "ctor"}

Members ==
  [kind : {"method"}, name : Names, arity : Arities]
    \cup [kind : {"operator"}, name : OperatorTokens, arity : Arities]
    \cup [kind : {"convert"}, name : {""}, arity : {0}, to : Mentionable]

ClassDeclarations ==
  [class : UserClasses, type : Types, super : {Absent} \cup Mentionable,
   members : Seq(Members)]

Lines == [declares : Seq(ClassDeclarations), mentions : SUBSET Mentionable]

ASSUME ProgramsAssumption ==
  /\ Literals \subseteq GlobalValues
  /\ Programs \subseteq Seq(Lines) \ {<< >>}

-----------------------------------------------------------------------------
(* The machine as the functions of the code pass it on. *)

Machine == [stack |-> stack, frames |-> frames, heap |-> heap, status |-> status]

Becomes(m) ==
  /\ stack' = m.stack /\ frames' = m.frames
  /\ heap' = m.heap /\ status' = m.status
  /\ Len(m.heap) <= MaxInstances

Top(m, n) == m.stack[Len(m.stack) - n]
Push(m, v) == [m EXCEPT !.stack = Append(@, v)]
Pop(m, n) == [m EXCEPT !.stack = SubSeq(@, 1, Len(@) - n)]
SetTop(m, n, v) == [m EXCEPT !.stack = [@ EXCEPT ![Len(m.stack) - n] = v]]

RuntimeError(m) == [m EXCEPT !.status = "error"]
Undefined(m) == [m EXCEPT !.status = "undefined"]

Frame(function, slots) == [function |-> function, slots |-> slots, top |-> slots]

CurrentTop(m) == m.frames[Len(m.frames)].top

PrepareCallFrame(m, argc) ==
  [m EXCEPT !.frames = [@ EXCEPT ![Len(m.frames)].top = Len(m.stack) - argc - 1]]

Receiver(m) == m.stack[CurrentTop(m) + 1]
Arguments(m, argc) == SubSeq(m.stack, CurrentTop(m) + 2, CurrentTop(m) + 1 + argc)

ReturnValue(m, v) ==
  [m EXCEPT !.stack = Append(SubSeq(@, 1, CurrentTop(m)), v)]

(* A mutant: the frame begins at what is on top.                           *)
StartAtTop(m, f) ==
  IF Len(m.frames) < MaxFrames
  THEN [m EXCEPT !.frames = Append(@, Frame(f, Len(m.stack) - 1))]
  ELSE RuntimeError(m)

(* vm::push_call_frame                                                     *)
StartSubcall(m, f) ==
  IF Len(m.frames) < MaxFrames
  THEN [m EXCEPT !.frames = Append(@, Frame(f, CurrentTop(m)))]
  ELSE RuntimeError(m)

(* closure_object::call_impl                                               *)
CallClosure(m, f, argc) ==
  IF argc = f.arity THEN StartSubcall(m, f) ELSE RuntimeError(m)

NewInstance(m, object) == [m EXCEPT !.heap = Append(@, object)]
(* A mutant: the index of the object after the new one.                    *)
NextToNewest(m) == Instance(Len(m.heap) + 1)

Newest(m) == Instance(Len(m.heap))

(* class_object::call                                                      *)
CallClass(m, argc) ==
  LET class == Receiver(m).class
      made == NewInstance(m, [class |-> class, fields |-> NoMethods])
      ctor == classes[class].operations["ctor"]
  IN  CASE ctor # Null ->
             CallClosure(PrepareCallFrame(SetTop(made, argc, Newest(made)), argc),
                         ctor, argc)
        [] ctor = Null /\ argc # 0 -> RuntimeError(m)
        [] OTHER -> ReturnValue(made, Newest(made))

(* instance_object::clone                                                  *)
CallClone(m, argc) ==
  LET made == NewInstance(m, m.heap[Receiver(m).i])
  IN  IF argc # 0 THEN RuntimeError(m) ELSE ReturnValue(made, Newest(made))

Conclude(m, result) ==
  CASE result.outcome = "value" -> ReturnValue(m, result.value)
    [] result.outcome = "error" -> RuntimeError(m)
    [] OTHER -> Undefined(m)

(* The receiver that closure_object::call takes is the callee; every other *)
(* native looks at the stack.                                              *)
CallNative(m, name, callee, argc) ==
  CASE name = "class call" -> CallClass(m, argc)
    [] name = "closure call" ->
         IF callee.k = "closure" THEN CallClosure(m, callee, argc)
         ELSE Undefined(m)
    [] name = "clone" -> CallClone(m, argc)
    [] OTHER -> Conclude(m, NativeResult(name, Receiver(m), Arguments(m, argc)))

(* object::class_, as far as its operations go.  That of a bound method is *)
(* whatever lies behind the array of built-in classes.                     *)
OperationsOf(m, v) ==
  CASE v.k = "instance" -> classes[m.heap[v.i].class].operations
    [] v.k = "class" ->
         IF v.class \in UserClasses THEN BuiltinOperations("class")
         ELSE BuiltinOperations(MetaClass(v.class))
    [] OTHER -> BuiltinOperations(v.k)

(* An overloaded "()" is a closure and is called as if it were a native.   *)
PerformCall(m, callee, argc) ==
  LET operation == OperationsOf(m, callee)["call"]
  IN  CASE callee.k = "native" -> CallNative(m, callee.name, callee, argc)
        [] callee.k = "bound" -> Undefined(m)
        [] callee.k \notin {"native", "bound"} /\ operation = Null ->
             RuntimeError(m)
        [] callee.k \notin {"native", "bound"} /\ operation.k = "native" ->
             CallNative(m, operation.name, callee, argc)
        [] OTHER -> Undefined(m)

CallValue(m, callee, argc) ==
  IF callee.k = "native" \/ IsObject(callee)
  THEN PerformCall(PrepareCallFrame(m, argc), callee, argc)
  ELSE RuntimeError(m)

(* vm::invoke_from_class; the methods of a built-in class are empty.       *)
MethodsOf(c) == IF c \in UserClasses THEN classes[c].methods ELSE NoMethods

InvokeFromClass(m, c, n, argc) ==
  LET method == MethodsOf(c)[n]
  IN  IF method = Absent THEN RuntimeError(m) ELSE CallValue(m, method, argc)

InvokeMember(m, n, argc) ==
  LET receiver == Top(m, argc)
  IN  IF receiver.k # "instance" THEN RuntimeError(m)
      ELSE LET object == m.heap[receiver.i]
               field == object.fields[n]
           IN  IF field # Absent
               THEN CallValue(SetTop(m, argc, field), field, argc)
               ELSE InvokeFromClass(m, object.class, n, argc)

(* vm::bind_a_method, on the receiver on top.                              *)
BindMethod(m, c, n) ==
  LET method == MethodsOf(c)[n]
  IN  IF method = Absent THEN RuntimeError(m)
      ELSE SetTop(m, 0, BoundMethod(Top(m, 0), method))

-----------------------------------------------------------------------------
(* Operators. *)

(* perform_binary_infix_others, perform_unary_prefix_others and the one    *)
(* for postfix operators: the operation of the first operand's class.      *)
CallOperation(m, this, slot, argc) ==
  IF this.k = "bound" THEN Undefined(m)
  ELSE CallValue(m, OperationsOf(m, this)[slot], argc)

(* Two numbers have the result; an object has its class's operation.       *)
NumbersOr(m, slot, result) ==
  LET lhs == Top(m, 1)
      rhs == Top(m, 0)
  IN  CASE IsObject(lhs) -> CallOperation(m, lhs, slot, 1)
        [] lhs = Number /\ rhs = Number -> Push(Pop(m, 2), result)
        [] OTHER -> RuntimeError(Pop(m, 2))

PerformArithmetic(m, slot) == NumbersOr(m, slot, Number)
PerformComparison(m) == NumbersOr(m, "less", Bool)
PerformUpdate(m, slot) == NumbersOr(m, slot, Number)

PerformEquality(m) ==
  IF IsObject(Top(m, 1)) THEN CallOperation(m, Top(m, 1), "equal", 1)
  ELSE Push(Pop(m, 2), Bool)

PerformPrefix(m) ==
  LET this == Top(m, 0)
  IN  CASE this = Number -> m
        [] IsObject(this) -> CallOperation(m, this, "negate", 0)
        [] OTHER -> RuntimeError(Pop(m, 1))

(* For a number the code returns {}, which is false.                       *)
PerformPostfix(m) ==
  LET this == Top(m, 0)
  IN  CASE IsObject(this) -> CallOperation(Push(m, Null), this, "increment", 1)
        [] OTHER -> RuntimeError(m)

TypeOf(m, v) ==
  CASE v.k = "class" /\ v.class \in UserClasses -> classes[v.class].type
    [] v.k = "class" /\ v.class \notin UserClasses -> BuiltinType(v.class)
    [] v.k = "instance" -> classes[m.heap[v.i].class].type
    [] v.k = "bound" -> obj_bound_method
    [] OTHER -> BuiltinType(v.k)

(* op_as: conversions are kept by the type number of what is converted to. *)
ConversionsOf(m, v) ==
  IF v.k = "instance" THEN classes[m.heap[v.i].class].conversions ELSE {}

PerformAs(m) ==
  LET lhs == Top(m, 1)
      rhs == Top(m, 0)
      found == {c \in ConversionsOf(m, lhs) : c.type = TypeOf(m, rhs)}
  IN  CASE ~IsObject(lhs) \/ ~IsObject(rhs) -> RuntimeError(Pop(m, 2))
        [] IsObject(rhs) /\ lhs.k = "bound" -> Undefined(m)
        [] IsObject(lhs) /\ IsObject(rhs) /\ lhs.k # "bound" /\ found = {} ->
             RuntimeError(m)
        [] OTHER -> CallValue(Pop(m, 1), (CHOOSE c \in found : TRUE).method, 0)

(* vm::perform_print: the value is printed from a copy on top.             *)
PerformPrint(m) ==
  LET this == Top(m, 0)
      print == OperationsOf(m, this)["print"]
      copied == PrepareCallFrame(Push(m, this), 0)
  IN  CASE ~IsObject(this) -> Pop(m, 1)
        [] this.k = "bound" -> Undefined(m)
        [] IsObject(this) /\ this.k # "bound" /\ print.k # "native" ->
             RuntimeError(m)
        [] OTHER ->
             IF NativeResult(print.name, Receiver(copied), << >>).outcome = "value"
             THEN Pop(copied, 2) ELSE Undefined(copied)

-----------------------------------------------------------------------------
(* Declaring a class: compile(class_declaration), compile_method. *)

Declared == Head(decls)
Member == Head(Declared.members)

(* A failure leaves the rest of the line undone.                           *)
Abandons(how) ==
  /\ status' = how
  /\ UNCHANGED <<stack, frames, heap, classes, graph, decls, stage>>

(* op_class, and its global.  No class is declared twice, and one that     *)
(* inherits from itself does not compile.  The class starts with the       *)
(* methods and operations of "instance" and the next type number.          *)
OpClass ==
  /\ stage = "class" /\ decls # << >>
  /\ ~graph[Declared.class].made /\ Declared.super # Class(Declared.class)
  /\ classes' = [classes EXCEPT ![Declared.class] =
                   [type |-> Declared.type, methods |-> InstanceMethods,
                    operations |-> BuiltinOperations("instance"),
                    conversions |-> {}]]
  /\ graph' = [graph EXCEPT ![Declared.class].made = TRUE,
                            ![Declared.class].type = Declared.type]
  /\ stage' = IF Declared.super = Absent THEN "get" ELSE "inherit"
  /\ UNCHANGED <<stack, frames, heap, status, decls>>

Undeclared(v) == v.k = "class" /\ v.class \in UserClasses /\ ~graph[v.class].made

(* A mutant: what is inherited replaces what is there.                     *)
InheritOver(own, super) ==
  [n \in Names |-> IF super[n] # Absent THEN super[n] ELSE own[n]]

(* object_inherit: methods that are there already stay, operations are     *)
(* replaced, and conversions are not inherited.                            *)
InheritMethods(own, super) ==
  [n \in Names |-> IF own[n] # Absent THEN own[n] ELSE super[n]]

(* A mutant: only methods are inherited.                                   *)
NoTableOf(c) == BuiltinOperations("instance")

TableOf(c) ==
  IF c \in UserClasses THEN classes[c].operations ELSE BuiltinOperations(c)

(* op_inherit.  The superclass stays on the stack, as the local "super".   *)
OpInherit ==
  /\ stage = "inherit"
  /\ LET super == Declared.super
     IN  CASE Undeclared(super) -> Abandons("error")
           [] ~Undeclared(super) /\ super.k = "class" ->
                /\ stack' = Append(stack, super)
                /\ classes' = [classes EXCEPT
                     ![Declared.class].methods =
                        InheritMethods(@, MethodsOf(super.class)),
                     ![Declared.class].operations = TableOf(super.class)]
                /\ graph' = [graph EXCEPT ![Declared.class].parent = super.class]
                /\ stage' = "get"
                /\ UNCHANGED <<frames, heap, status, decls>>
           [] IsObject(super) /\ super.k # "class" -> Abandons("error")
           [] OTHER -> Abandons("undefined")

(* The class, for the methods to be put into.                              *)
GetClass ==
  /\ stage = "get"
  /\ stack' = Append(stack, Class(Declared.class))
  /\ stage' = "members"
  /\ UNCHANGED <<frames, heap, classes, graph, status, decls>>

(* The closure of a member: "super" is the local below the class.          *)
MemberClosure(kind, name, arity) ==
  Closure(kind, Declared.class, name, arity,
          IF Declared.super = Absent THEN Null ELSE stack[Len(stack) - 1])

NextMember ==
  decls' = <<[Declared EXCEPT !.members = Tail(@)]>> \o Tail(decls)

(* op_method: into the class on the stack.                                 *)
OpMethod ==
  /\ stage = "members" /\ Declared.members # << >> /\ Member.kind = "method"
  /\ LET method == MemberClosure("method", Member.name, Member.arity)
     IN  /\ classes' = [classes EXCEPT
              ![stack[Len(stack)].class].methods[Member.name] = method]
         /\ graph' = [graph EXCEPT
              ![Declared.class].methods[Member.name] = method]
  /\ NextMember
  /\ UNCHANGED <<stack, frames, heap, status, stage>>

(* unique_overridable_operator_type_from_string, where "+=" is what "*="   *)
(* is.                                                                     *)
OperatorOf(token) ==
  CASE token \in {"+=", "*="} -> "asterisk equal"
    [] token = "+" -> "plus"
    [] token = "++" -> "increment"
    [] token = "==" -> "equal"
    [] token = "<" -> "less"
    [] token = "(" -> "call"
    [] OTHER -> token

(* patch_ambiguation: the number of parameters tells the operator before   *)
(* its operand from the infix one.                                         *)
SlotOf(token, arity) ==
  CASE token = "-" /\ arity = 0 -> "negate"
    [] token = "-" /\ arity # 0 -> "minus"
    [] OTHER -> OperatorOf(token)

OpSpecialMethod ==
  /\ stage = "members" /\ Declared.members # << >> /\ Member.kind = "operator"
  /\ LET slot == SlotOf(Member.name, Member.arity)
         method == MemberClosure(IF slot = "ctor" THEN "ctor" ELSE "operator",
                                 slot, Member.arity)
     IN  /\ classes' = [classes EXCEPT
              ![stack[Len(stack)].class].operations[slot] = method]
         /\ graph' = [graph EXCEPT ![Declared.class].operations[slot] = method]
  /\ NextMember
  /\ UNCHANGED <<stack, frames, heap, status, stage>>

SetConversion(conversions, type, method) ==
  {c \in conversions : c.type # type} \cup {[type |-> type, method |-> method]}

(* op_convert_method: what is converted to has to be a class by now.       *)
OpConvertMethod ==
  /\ stage = "members" /\ Declared.members # << >> /\ Member.kind = "convert"
  /\ LET method == MemberClosure("convert", "", Member.arity)
         type == TypeOf(Machine, Member.to)
     IN  IF Member.to.k # "class" \/ Undeclared(Member.to)
         THEN Abandons("error")
         ELSE /\ classes' = [classes EXCEPT
                   ![stack[Len(stack)].class].conversions =
                      SetConversion(@, type, method)]
              /\ graph' = [graph EXCEPT ![Declared.class].conversions =
                             SetConversion(@, type, method)]
              /\ NextMember
              /\ UNCHANGED <<stack, frames, heap, status, stage>>

(* Pops the class, and the local "super" with its scope.                   *)
EndClass ==
  /\ stage = "members" /\ Declared.members = << >>
  /\ stack' = IF Declared.super = Absent THEN Front(stack)
              ELSE Front(Front(stack))
  /\ decls' = Tail(decls)
  /\ stage' = "class"
  /\ UNCHANGED <<frames, heap, classes, graph, status>>

Declaration ==
  /\ \/ OpClass \/ OpInherit \/ GetClass \/ OpMethod \/ OpSpecialMethod
     \/ OpConvertMethod \/ EndClass
  /\ UNCHANGED <<lines, values>>

-----------------------------------------------------------------------------
(* Expressions: the instructions of vm::run. *)

Running == frames[Len(frames)].function
Base == frames[Len(frames)].slots
This == stack[Base + 1]

(* The values above the callee and its parameters: the compiler emits no   *)
(* instruction that takes more than these.                                 *)
Operands == Len(stack) - Base - 1 - Running.arity

Parameters == {stack[Base + 1 + i] : i \in 1..Running.arity}

(* op_constant, op_get_global and op_get_local.                            *)
Mention ==
  /\ \E v \in {w \in values : ~Undeclared(w)} \cup Parameters
             \cup (IF HasThis(Running) THEN {This} ELSE {}) :
       stack' = Append(stack, v)
  /\ UNCHANGED <<frames, heap, status>>

(* compile(super_expression): "this", then the upvalue "super".            *)
BeginSuper ==
  /\ Running.super # Null
  /\ stack' = stack \o <<This, Running.super>>
  /\ UNCHANGED <<frames, heap, status>>

OpPop ==
  /\ Operands > 0
  /\ stack' = Front(stack)
  /\ UNCHANGED <<frames, heap, status>>

OpCall(argc) ==
  /\ Operands > argc
  /\ Becomes(CallValue(Machine, Top(Machine, argc), argc))

OpInvoke(n, argc) ==
  /\ Operands > argc
  /\ Becomes(InvokeMember(Machine, n, argc))

(* The arguments of a "super" call are above the superclass, and what      *)
(* op_invoke_super pops is the value on top.                               *)
OpInvokeSuper(n, argc) ==
  /\ Running.super # Null
  /\ Operands > argc + 1
  /\ Top(Machine, argc) = Running.super /\ Top(Machine, argc + 1) = This
  /\ Becomes(IF Top(Machine, 0).k = "class"
             THEN InvokeFromClass(Pop(Machine, 1), Top(Machine, 0).class, n, argc)
             ELSE Undefined(Machine))

OpGetSuper(n) ==
  /\ Running.super # Null
  /\ Operands > 1
  /\ Top(Machine, 0) = Running.super /\ Top(Machine, 1) = This
  /\ Becomes(BindMethod(Pop(Machine, 1), Top(Machine, 0).class, n))

(* The type of a value that is not an object is not looked at.             *)
OpGetProperty(n) ==
  /\ Operands > 0
  /\ LET this == Top(Machine, 0)
         object == heap[this.i]
     IN  Becomes(
           IF this.k # "instance"
           THEN IF IsObject(this) THEN RuntimeError(Machine) ELSE Undefined(Machine)
           ELSE IF object.fields[n] # Absent
                THEN SetTop(Machine, 0, object.fields[n])
                ELSE BindMethod(Machine, object.class, n))

OpSetProperty(n) ==
  /\ Operands > 1
  /\ LET this == Top(Machine, 1)
         value == Top(Machine, 0)
     IN  Becomes(
           IF this.k # "instance"
           THEN IF IsObject(this) THEN RuntimeError(Machine) ELSE Undefined(Machine)
           ELSE Push(Pop([Machine EXCEPT !.heap =
                            [@ EXCEPT ![this.i].fields[n] = value]], 2), value))

OpInfix ==
  /\ Operands > 1
  /\ \/ \E slot \in Arithmetic : Becomes(PerformArithmetic(Machine, slot))
     \/ \E slot \in Updates : Becomes(PerformUpdate(Machine, slot))
     \/ Becomes(PerformComparison(Machine))
     \/ Becomes(PerformEquality(Machine))

OpAs == Operands > 1 /\ Becomes(PerformAs(Machine))
OpNegate == Operands > 0 /\ Becomes(PerformPrefix(Machine))
OpPostincrement == Operands > 0 /\ Becomes(PerformPostfix(Machine))
OpPrint == Operands > 0 /\ Becomes(PerformPrint(Machine))

(* What op_return leaves of the stack: everything below the frame.         *)
(* A mutant takes one value more.                                          *)
BelowFrameLessOne == SubSeq(stack, 1, Base - 1)
BelowFrame == SubSeq(stack, 1, Base)

(* op_return, after emit_return or the expression of a return statement.   *)
OpReturn ==
  \E result \in IF IsInitializer(Running) THEN {This}
                ELSE {Null} \cup (IF Operands > 0 THEN {Top(Machine, 0)} ELSE {}) :
    /\ frames' = Front(frames)
    /\ stack' = IF Len(frames) = 1 THEN BelowFrame ELSE Append(BelowFrame, result)
    /\ status' = IF Len(frames) = 1 THEN "ok" ELSE "running"
    /\ UNCHANGED heap

Expression ==
  /\ stage = "class" /\ decls = << >>
  /\ \/ Len(stack) < MaxStack /\ (Mention \/ BeginSuper)
     \/ OpPop
     \/ \E argc \in Arities :
          \/ OpCall(argc)
          \/ \E n \in Names : OpInvoke(n, argc) \/ OpInvokeSuper(n, argc)
     \/ \E n \in Names : OpGetSuper(n)
     \/ \E n \in Properties : OpGetProperty(n) \/ OpSetProperty(n)
     \/ OpInfix
     \/ OpAs \/ OpNegate \/ OpPostincrement \/ OpPrint \/ OpReturn
  /\ UNCHANGED <<classes, graph, lines, values, decls, stage>>

-----------------------------------------------------------------------------
(* vm::interpret: a line begins on an empty stack with a frame of its own. *)
(* Instances of the lines before are forgotten: no global holds one.       *)
Starts(line) ==
  /\ stack' = <<Script>>
  /\ frames' = <<Frame(Script, 0)>>
  /\ decls' = line.declares
  /\ values' = line.mentions
  /\ stage' = "class"
  /\ heap' = << >>

Interpret ==
  /\ status \in {"ok", "error"}
  /\ lines # << >>
  /\ Starts(Head(lines))
  /\ lines' = Tail(lines)
  /\ status' = "running"
  /\ UNCHANGED <<classes, graph>>

Unmade ==
  [made |-> FALSE, parent |-> "", type |-> 0, methods |-> NoMethods,
   operations |-> NoOperations, conversions |-> {}]

Init ==
  /\ \E program \in Programs :
       /\ decls = Head(program).declares
       /\ values = Head(program).mentions
       /\ lines = Tail(program)
  /\ stack = <<Script>>
  /\ frames = <<Frame(Script, 0)>>
  /\ heap = << >>
  /\ classes = [c \in UserClasses |->
                  [type |-> 0, methods |-> NoMethods,
                   operations |-> NoOperations, conversions |-> {}]]
  /\ graph = [c \in UserClasses |-> Unmade]
  /\ status = "running"
  /\ stage = "class"

Next ==
  \/ status = "running" /\ (Declaration \/ Expression)
  \/ Interpret

Spec == Init /\ [][Next]_vars

-----------------------------------------------------------------------------
(* Properties. *)

(* Every part of the machine has its type, and every instance's class has  *)
(* been declared.                                                          *)
Frames == [function : [k : {"closure"}, kind : FunctionKinds,
                       owner : UserClasses \cup {""},
                       name : FunctionNames, arity : Nat,
                       super : {Null} \cup
                         {Class(c) : c \in UserClasses \cup {"string", "closure"}}],
           slots : Nat, top : Int]

TypeOK ==
  /\ status \in {"running", "ok", "error", "undefined"}
  /\ stage \in {"class", "inherit", "get", "members"}
  /\ frames \in Seq(Frames)
  /\ status = "running" => frames # << >> /\ stack # << >>
  /\ \A i \in DOMAIN heap :
       heap[i].class \in UserClasses /\ graph[heap[i].class].made
  /\ \A i \in DOMAIN stack :
       stack[i].k = "instance" => stack[i].i \in DOMAIN heap
  /\ \A c \in UserClasses :
       /\ DOMAIN classes[c].methods = Names
       /\ DOMAIN classes[c].operations = Slots

(* The frames divide the stack: each begins with its receiver and its      *)
(* arguments, where its caller had put them, and none reaches into the     *)
(* next one.                                                               *)
End(i) == IF i < Len(frames) THEN frames[i + 1].slots ELSE Len(stack)

Framing ==
  status = "running" =>
    /\ frames[1].slots = 0
    /\ \A i \in DOMAIN frames :
         /\ frames[i].slots + 1 + frames[i].function.arity <= End(i)
         /\ i < Len(frames) => frames[i].top = End(i)

(* What op_inherit has copied is what looking a method up along the        *)
(* superclasses would find, however long ago it was copied; but "clone" is *)
(* the built-in one or the class's own, because it is there first.         *)
MethodsAreNearest ==
  \A c \in UserClasses : graph[c].made => \A n \in Names :
    classes[c].methods[n] =
      CASE graph[c].methods[n] # Absent -> graph[c].methods[n]
        [] graph[c].methods[n] = Absent /\ n = "clone" -> Native("clone")
        [] OTHER -> IF graph[c].parent \in UserClasses
                    THEN classes[graph[c].parent].methods[n] ELSE Absent

(* No instruction touches the stack below the frame it runs in: not the    *)
(* operands of a caller, nor its receiver or arguments.                    *)
CallersUntouched ==
  [][status = "running" /\ status' = "running" =>
       \A n \in 1..Base : n \in DOMAIN stack' /\ stack'[n] = stack[n]]_vars

(* The machine does what DynamicDispatch promises.                         *)
OperandsOf(i) ==
  IF decls # << >> THEN << >>
  ELSE SubSeq(stack, frames[i].slots + 2 + frames[i].function.arity, End(i))

ArgumentsOf(i) ==
  SubSeq(stack, frames[i].slots + 2, frames[i].slots + 1 + frames[i].function.arity)

Activations ==
  [i \in DOMAIN frames |->
    [function |-> frames[i].function, this |-> stack[frames[i].slots + 1],
     args |-> ArgumentsOf(i), operands |-> OperandsOf(i)]]

RunningActivations == IF status = "running" THEN Activations ELSE << >>
RunningObjects == IF status = "running" THEN heap ELSE << >>

D == INSTANCE DynamicDispatch WITH
  activations <- RunningActivations, objects <- RunningObjects

ImplementsDynamicDispatch == D!Spec

=============================================
