--------------------------- MODULE DynamicDispatch --------------------------
(***************************************************************************)
(* What a program may rely on when it calls something, whatever the value  *)
(* stack, the frames and the tables of methods do.  Every activation has   *)
(* its own receiver, arguments and operands; a method is the definition    *)
(* nearest to the receiver's class; the result of a call takes the place   *)
(* of what was called and its arguments.                                   *)
(*                                                                         *)
(* The places where oklang does something else are named: Hole is where it *)
(* has no meaning, BuiltinFirst and MisplacedSuper where another one.      *)
(***************************************************************************)
EXTENDS Objects, SequencesExt

CONSTANTS
  Literals,      \* constants, functions, natives and built-in classes
  MaxFrames,     \* calls deeper than this are refused
  Arities,       \* numbers of arguments
  Types          \* type numbers of the classes

VARIABLES
  activations,  \* the calls in progress, the script's first
  objects,      \* the instances, by index
  graph,        \* the classes, their parents and what each of them defines
  status        \* "running", or how the line has ended

dispatch == <<activations, objects, graph, status>>

Activation(function, this, args) ==
  [function |-> function, this |-> this, args |-> args, operands |-> << >>]

Undeclared ==
  [made |-> FALSE, parent |-> "", type |-> 0,
   methods |-> NoMethods, operations |-> NoOperations, conversions |-> {}]

Running == activations[Len(activations)]
Operands == Running.operands
Operand(i) == Operands[Len(Operands) - i]
Args(argc) == SubSeq(Operands, Len(Operands) - argc + 1, Len(Operands))
Below(n) == SubSeq(Operands, 1, Len(Operands) - n)

-----------------------------------------------------------------------------
(* The nearest definition. *)

(* BuiltinFirst: a class that does not define "clone" has the built-in     *)
(* one, whatever its parents define.                                       *)
FindMethod(c, n) ==
  LET find[d \in UserClasses] ==
        IF graph[d].methods[n] # Absent THEN graph[d].methods[n]
        ELSE IF n = "clone" THEN Native("clone")
        ELSE IF graph[d].parent \in UserClasses THEN find[graph[d].parent]
        ELSE Absent
  IN  IF c \in UserClasses THEN find[c] ELSE Absent

(* What a class without a superclass starts with is what "instance" has.   *)
BuiltinParent(c) == IF graph[c].parent = "" THEN "instance" ELSE graph[c].parent

FindOperation(c, s) ==
  LET find[d \in UserClasses] ==
        IF graph[d].operations[s] # Null THEN graph[d].operations[s]
        ELSE IF graph[d].parent \in UserClasses THEN find[graph[d].parent]
        ELSE BuiltinOperations(BuiltinParent(d))[s]
  IN  IF c \in UserClasses THEN find[c] ELSE BuiltinOperations(c)[s]

ClassOf(v) ==
  CASE v.k = "instance" -> objects[v.i].class
    [] v.k = "class" ->
         IF v.class \in UserClasses THEN "class" ELSE MetaClass(v.class)
    [] OTHER -> v.k

Operation(v, s) == FindOperation(ClassOf(v), s)

(* Conversions are found by type number, which an instance has from its    *)
(* class, and are not inherited.                                           *)
TypeOf(v) ==
  CASE v.k = "class" /\ v.class \in UserClasses -> graph[v.class].type
    [] v.k = "class" /\ v.class \notin UserClasses -> BuiltinType(v.class)
    [] v.k = "instance" -> graph[objects[v.i].class].type
    [] v.k = "bound" -> obj_bound_method
    [] OTHER -> BuiltinType(v.k)

Conversions(v, type) ==
  IF ClassOf(v) \in UserClasses
  THEN {c.method : c \in {d \in graph[ClassOf(v)].conversions : d.type = type}}
  ELSE {}

-----------------------------------------------------------------------------
(* How an evaluation ends. *)

Stops(how) ==
  /\ activations' = << >>
  /\ objects' = << >>
  /\ status' = how

Fails == Stops("error")
Hole == Stops("undefined")

(* The running activation, with these operands in place of its own.        *)
With(operands) ==
  Append(Front(activations), [Running EXCEPT !.operands = operands])

Continues(operands) ==
  /\ activations' = With(operands)
  /\ UNCHANGED <<objects, status>>

(* f is called; the operands left to the caller are rest.                  *)
Enters(f, this, args, rest) ==
  IF Len(args) = f.arity /\ Len(activations) < MaxFrames
  THEN /\ activations' = Append(With(rest), Activation(f, this, args))
       /\ status' = status
  ELSE activations' = << >> /\ status' = "error"

Creates(object, args, rest) ==
  LET new == Instance(Len(objects) + 1)
      ctor == FindOperation(object.class, "ctor")
  IN  IF ctor = Null
      THEN IF args = << >>
           THEN /\ activations' = With(Append(rest, new))
                /\ objects' = Append(objects, object)
                /\ status' = status
           ELSE Fails
      ELSE /\ Enters(ctor, new, args, rest)
           /\ objects' = IF status' = "error" THEN << >>
                         ELSE Append(objects, object)

Answers(result, rest) ==
  CASE result.outcome = "value" -> Continues(Append(rest, result.value))
    [] result.outcome = "error" -> Fails
    [] OTHER -> Hole

Clones(this, args, rest) ==
  IF args = << >>
  THEN /\ activations' = With(Append(rest, Instance(Len(objects) + 1)))
       /\ objects' = Append(objects, objects[this.i])
       /\ status' = status
  ELSE Fails

(* Calling f on a receiver: what invoke and the operators do.              *)
Applies(f, this, args, rest) ==
  CASE f.k = "closure" ->
         /\ Enters(f, this, args, rest)
         /\ objects' = IF status' = "error" THEN << >> ELSE objects
    [] f.k = "native" ->
         IF f.name = "clone" THEN Clones(this, args, rest)
         ELSE Answers(NativeResult(f.name, this, args), rest)
    [] OTHER -> Fails

(* Calling any value: what a call expression and a field do.  A bound      *)
(* method has no class, and an overloaded "()" is called like a native.    *)
Calls(callee, args, rest) ==
  CASE callee.k \in {"closure", "native"} -> Applies(callee, callee, args, rest)
    [] callee.k = "class" /\ callee.class \in UserClasses ->
         Creates([class |-> callee.class, fields |-> NoMethods], args, rest)
    [] callee.k = "class" /\ callee.class \notin UserClasses ->
         Answers(NativeResult(Operation(callee, "call").name, callee, args), rest)
    [] callee.k = "bound" -> Hole
    [] callee.k = "instance" /\ Operation(callee, "call") # Null -> Hole
    [] OTHER -> Fails

-----------------------------------------------------------------------------
(* Declarations. *)

DeclareClass(c, type) ==
  /\ ~graph[c].made
  /\ graph' = [graph EXCEPT ![c].made = TRUE, ![c].type = type]
  /\ UNCHANGED <<activations, objects, status>>

Unknown(v) == v.k = "class" /\ v.class \in UserClasses /\ ~graph[v.class].made

Inherit(c, super) ==
  CASE Unknown(super) -> Fails /\ UNCHANGED graph
    [] super.k = "class" /\ ~Unknown(super) ->
         /\ graph' = [graph EXCEPT ![c].parent = super.class]
         /\ UNCHANGED <<activations, objects, status>>
    [] OTHER ->
         /\ IF IsObject(super) THEN Fails ELSE Hole
         /\ UNCHANGED graph

(* A method, with the parent its body calls "super".                       *)
Parent(c) == IF graph[c].parent = "" THEN Null ELSE Class(graph[c].parent)

Define(c, n, arity) ==
  /\ graph' = [graph EXCEPT ![c].methods[n] =
                 Closure("method", c, n, arity, Parent(c))]
  /\ UNCHANGED <<activations, objects, status>>

Overload(c, s, arity) ==
  /\ graph' = [graph EXCEPT ![c].operations[s] =
                 Closure(IF s = "ctor" THEN "ctor" ELSE "operator", c, s, arity,
                         Parent(c))]
  /\ UNCHANGED <<activations, objects, status>>

DefineConversion(c, to) ==
  IF to.k # "class" \/ Unknown(to)
  THEN Fails /\ UNCHANGED graph
  ELSE /\ graph' = [graph EXCEPT ![c].conversions =
                      {d \in @ : d.type # TypeOf(to)} \cup
                      {[type |-> TypeOf(to),
                        method |-> Closure("convert", c, "", 0, Parent(c))]}]
       /\ UNCHANGED <<activations, objects, status>>

Declaration ==
  \E c \in UserClasses :
    \/ \E type \in Types : DeclareClass(c, type)
    \/ \E v \in Literals \cup {Class(d) : d \in UserClasses} :
         Inherit(c, v) \/ DefineConversion(c, v)
    \/ \E n \in Names, arity \in Arities : Define(c, n, arity)
    \/ \E s \in Slots, arity \in Arities : Overload(c, s, arity)

-----------------------------------------------------------------------------
(* Expressions: the operands are evaluated already, the last one on top.   *)

(* A constant, a global, a parameter or "this".                            *)
Mention(v) ==
  /\ \/ v \in Literals
     \/ \E c \in UserClasses : graph[c].made /\ v = Class(c)
     \/ v \in Range(Running.args)
     \/ HasThis(Running.function) /\ v = Running.this
  /\ Continues(Append(Operands, v))

(* "super" puts the receiver and the parent on top.                        *)
BeginSuper ==
  /\ Running.function.super # Null
  /\ Continues(Operands \o <<Running.this, Running.function.super>>)

Drop == Operands # << >> /\ Continues(Below(1))

CallExpression(argc) ==
  /\ Len(Operands) > argc
  /\ Calls(Operand(argc), Args(argc), Below(argc + 1))

Invoke(n, argc) ==
  /\ Len(Operands) > argc
  /\ LET this == Operand(argc)
         rest == Below(argc + 1)
     IN  IF this.k # "instance" THEN Fails
         ELSE LET object == objects[this.i]
                  method == FindMethod(object.class, n)
              IN  IF object.fields[n] # Absent
                  THEN Calls(object.fields[n], Args(argc), rest)
                  ELSE Applies(method, this, Args(argc), rest)

(* MisplacedSuper: with arguments, the last one is taken for the parent,   *)
(* and the parent for the first argument.                                  *)
InvokeSuper(n, argc) ==
  /\ Running.function.super # Null
  /\ Len(Operands) > argc + 1
  /\ Operand(argc) = Running.function.super
  /\ Operand(argc + 1) = Running.this
  /\ LET parent == Operand(0)
         args == IF argc = 0 THEN << >>
                 ELSE <<Operand(argc)>> \o Front(Args(argc))
     IN  IF parent.k # "class" THEN Hole
         ELSE Applies(FindMethod(parent.class, n), Running.this, args,
                      Below(argc + 2))

GetSuper(n) ==
  /\ Running.function.super # Null
  /\ Len(Operands) > 1
  /\ Operand(0) = Running.function.super
  /\ Operand(1) = Running.this
  /\ LET method == FindMethod(Operand(0).class, n)
     IN  IF method = Absent THEN Fails
         ELSE Continues(Append(Below(2), BoundMethod(Running.this, method)))

GetProperty(n) ==
  /\ Operands # << >>
  /\ LET this == Operand(0)
     IN  IF this.k # "instance"
         THEN IF IsObject(this) THEN Fails ELSE Hole
         ELSE LET object == objects[this.i]
                  method == FindMethod(object.class, n)
              IN  CASE object.fields[n] # Absent ->
                         Continues(Append(Below(1), object.fields[n]))
                    [] object.fields[n] = Absent /\ method # Absent ->
                         Continues(Append(Below(1), BoundMethod(this, method)))
                    [] OTHER -> Fails

SetProperty(n) ==
  /\ Len(Operands) > 1
  /\ LET this == Operand(1)
     IN  IF this.k # "instance"
         THEN IF IsObject(this) THEN Fails ELSE Hole
         ELSE /\ objects' = [objects EXCEPT ![this.i].fields[n] = Operand(0)]
              /\ activations' = With(Append(Below(2), Operand(0)))
              /\ UNCHANGED status

(* An operator whose first operand is an object is that object's.          *)
Overloaded(s, this, args, rest) ==
  IF this.k = "bound" THEN Hole
  ELSE Applies(Operation(this, s), this, args, rest)

(* An infix operator; two numbers are added, subtracted or compared, and   *)
(* everything but objects can be equal.                                    *)
Infix(s) ==
  /\ Len(Operands) > 1
  /\ LET this == Operand(1)
         other == Operand(0)
     IN  IF IsObject(this) THEN Overloaded(s, this, <<other>>, Below(2))
         ELSE IF s = "equal" \/ (this = Number /\ other = Number)
              THEN Continues(Append(Below(2),
                     IF s \in {"equal", "less"} THEN Bool ELSE Number))
              ELSE Fails

Prefix ==
  /\ Operands # << >>
  /\ LET this == Operand(0)
     IN  CASE IsObject(this) -> Overloaded("negate", this, << >>, Below(1))
           [] this = Number -> Continues(Operands)
           [] OTHER -> Fails

(* The operator after its operand has a parameter, to tell it from the one *)
(* before it.  It is not for numbers.                                      *)
Postfix ==
  /\ Operands # << >>
  /\ IF IsObject(Operand(0))
     THEN Overloaded("increment", Operand(0), <<Null>>, Below(1))
     ELSE Fails

As ==
  /\ Len(Operands) > 1
  /\ LET this == Operand(1)
         other == Operand(0)
     IN  IF ~IsObject(this) \/ ~IsObject(other) THEN Fails
         ELSE IF this.k = "bound" THEN Hole
         ELSE IF Conversions(this, TypeOf(other)) = {} THEN Fails
         ELSE \E f \in Conversions(this, TypeOf(other)) :
                Applies(f, this, << >>, Below(2))

(* Only natives print.                                                     *)
PrintStatement ==
  /\ Operands # << >>
  /\ LET this == Operand(0)
         print == Operation(this, "print")
     IN  IF ~IsObject(this) THEN Continues(Below(1))
         ELSE IF this.k = "bound" THEN Hole
         ELSE IF print.k # "native" THEN Fails
         ELSE IF NativeResult(print.name, this, << >>).outcome = "value"
         THEN Continues(Below(1))
         ELSE Hole

(* The result is put after what the caller has evaluated before the call.  *)
(* The result of a constructor is what it constructed.                     *)
Return(v) ==
  /\ v \in IF IsInitializer(Running.function) THEN {Running.this}
            ELSE {Null} \cup Range(Operands)
  /\ IF Len(activations) = 1
     THEN Stops("ok")
     ELSE /\ activations' =
               [Front(activations) EXCEPT
                  ![Len(activations) - 1].operands = Append(@, v)]
          /\ UNCHANGED <<objects, status>>

Expression ==
  /\ \/ \E v \in Range(Operands) \cup Range(Running.args) \cup Literals
           \cup {Class(c) : c \in UserClasses} \cup {Running.this} : Mention(v)
     \/ BeginSuper
     \/ Drop
     \/ \E argc \in Arities :
          \/ CallExpression(argc)
          \/ \E n \in Names : Invoke(n, argc) \/ InvokeSuper(n, argc)
     \/ \E n \in Names : GetSuper(n) \/ GetProperty(n) \/ SetProperty(n)
     \/ \E s \in Arithmetic \cup Updates \cup {"equal", "less"} : Infix(s)
     \/ As \/ Prefix \/ Postfix
     \/ PrintStatement
     \/ \E v \in {Null, Running.this} \cup Range(Operands) : Return(v)
  /\ UNCHANGED graph

(* The next line starts a script of its own.                               *)
NextLine ==
  /\ status \in {"ok", "error"}
  /\ activations' = <<Activation(Script, Script, << >>)>>
  /\ status' = "running"
  /\ UNCHANGED <<objects, graph>>

Init ==
  /\ activations = <<Activation(Script, Script, << >>)>>
  /\ objects = << >>
  /\ graph = [c \in UserClasses |-> Undeclared]
  /\ status = "running"

Next ==
  \/ status = "running" /\ (Declaration \/ Expression)
  \/ NextLine

Spec == Init /\ [][Next]_dispatch
=============================================================================
