------------------------------ MODULE Objects -------------------------------
(***************************************************************************)
(* The values and the built-in classes of the virtual machine (value.hpp,  *)
(* object.hpp, object.cpp), as calls and operators tell them apart: one    *)
(* number, one string and one truth value stand for all, and an instance   *)
(* is the index of its object.                                             *)
(***************************************************************************)
EXTENDS Integers, Sequences

CONSTANTS
  UserClasses,  \* the names a program's classes have
  Names         \* of functions, methods and fields; "clone" is among them

Null == [k |-> "null"]
Number == [k |-> "number"]
Bool == [k |-> "bool"]
String == [k |-> "string"]
Class(c) == [k |-> "class", class |-> c]
Instance(i) == [k |-> "instance", i |-> i]
Native(n) == [k |-> "native", name |-> n]
BoundMethod(receiver, method) ==
  [k |-> "bound", receiver |-> receiver, method |-> method]

(* A closure: what it was declared as, where, and the value of the upvalue *)
(* "super" its body may have.                                              *)
Closure(kind, owner, name, arity, super) ==
  [k |-> "closure", kind |-> kind, owner |-> owner, name |-> name,
   arity |-> arity, super |-> super]

(* The code of a line, outside every function.                             *)
Script == Closure("script", "", "", 0, Null)

(* Not in a map of fields or methods.                                      *)
Absent == [k |-> "absent"]

IsObject(v) == v.k \in {"string", "class", "instance", "closure", "bound"}

(* compile_function::type: who may say "this", and who returns it.         *)
HasThis(f) == f.kind \notin {"function", "script"}
IsInitializer(f) == f.kind = "ctor"

(* The method_types that are told apart: one operator for each way the     *)
(* machine looks one up.                                                   *)
Arithmetic == {"plus", "minus"}
Updates == {"plus equal", "asterisk equal"}
Slots ==
  Arithmetic \cup Updates \cup
  {"ctor", "less", "equal", "negate", "increment", "call", "print"}

NoOperations == [s \in Slots |-> Null]

(* What calling a class does: a class of a program, string, or closure.    *)
CallOfMeta ==
  [c \in {"class", "string meta", "closure meta"} |->
     CASE c = "class" -> Native("class call")
       [] c = "string meta" -> Native("string meta call")
       [] c = "closure meta" -> Native("closure meta call")]

(* The classes object_register_builtins makes.  A class of a program is an *)
(* object of its own meta class, which copies the operations of "class".   *)
BuiltinOperations(c) ==
  CASE c = "instance" ->
         [NoOperations EXCEPT !["print"] = Native("instance print")]
    [] c = "string" ->
         [NoOperations EXCEPT !["plus"] = Native("string plus"),
                              !["equal"] = Native("string equal"),
                              !["print"] = Native("string print")]
    [] c = "closure" ->
         [NoOperations EXCEPT !["equal"] = Native("closure equal"),
                              !["call"] = Native("closure call"),
                              !["print"] = Native("closure print")]
    [] c \in DOMAIN CallOfMeta ->
         [NoOperations EXCEPT !["equal"] = Native("class equal"),
                              !["call"] = CallOfMeta[c],
                              !["print"] = Native("class print")]
    [] OTHER -> NoOperations

InstanceMethods ==
  [n \in Names |-> IF n = "clone" THEN Native("clone") ELSE Absent]

NoMethods == [n \in Names |-> Absent]

(* object_type: the type numbers an object can have.  Classes of a program  *)
(* are numbered from obj_last on.                                          *)
obj_string == 5
obj_closure == 8
obj_bound_method == 10
obj_last == 11

MetaClass(c) == IF c = "string" THEN "string meta" ELSE "closure meta"

BuiltinType(c) == IF c = "string" THEN obj_string ELSE obj_closure

-----------------------------------------------------------------------------
(* What a native function does with its receiver and arguments: it returns *)
(* a value, refuses them, or takes an object for one of another type.      *)

Returns(v) == [outcome |-> "value", value |-> v]
Refuses == [outcome |-> "error", value |-> Null]
Misreads == [outcome |-> "undefined", value |-> Null]

(* OK_IS_VALUE_STRING_OBJECT and OK_IS_VALUE_CLOSURE_OBJECT only look at   *)
(* the type number, which the built-in class itself has too.               *)
HasTypeOf(v, c) == v = Class(c) \/ v.k = c

(* string_object::plus; this is an instance when its class inherits from   *)
(* string.                                                                 *)
StringPlus(this, other) ==
  CASE ~HasTypeOf(other, "string") -> Refuses
    [] this = String /\ other = String -> Returns(String)
    [] OTHER -> Misreads

(* string_object::equal compares addresses.                                *)
StringEqual(this, other) ==
  IF HasTypeOf(other, "string") THEN Returns(Bool) ELSE Refuses

(* closure_object::equal compares the names of the two functions.          *)
ClosureEqual(this, other) ==
  CASE ~HasTypeOf(other, "closure") -> Refuses
    [] this.k = "closure" /\ other.k = "closure" -> Returns(Bool)
    [] OTHER -> Misreads

(* class_object::equal asks for the type number of "class", and no class a *)
(* program can name has it.                                                *)
ClassEqual == Refuses

(* string_meta_class::call and closure_meta_class::call.                   *)
StringCall(args) ==
  CASE Len(args) # 1 \/ ~HasTypeOf(args[1], "string") -> Refuses
    [] args[1] = String -> Returns(String)
    [] OTHER -> Misreads

ClosureCall(args) ==
  IF Len(args) = 1 /\ HasTypeOf(args[1], "closure")
  THEN Returns(args[1]) ELSE Refuses

(* clock, time and rand.                                                   *)
ClockNative(args) == IF args = << >> THEN Returns(Number) ELSE Refuses

(* srand, with an optional number.                                         *)
SrandNative(args) ==
  IF args \in {<< >>, <<Number>>} THEN Returns(Null) ELSE Refuses

(* string_object::print reads the characters, instance_object::print and   *)
(* the others what every object of theirs has.                             *)
Prints(name, this) ==
  IF name = "string print" /\ this # String THEN Misreads ELSE Returns(Null)

NativeResult(name, this, args) ==
  CASE name = "string plus" -> StringPlus(this, args[1])
    [] name = "string equal" -> StringEqual(this, args[1])
    [] name = "closure equal" -> ClosureEqual(this, args[1])
    [] name = "class equal" -> ClassEqual
    [] name = "string meta call" -> StringCall(args)
    [] name = "closure meta call" -> ClosureCall(args)
    [] name = "clock" -> ClockNative(args)
    [] name = "srand" -> SrandNative(args)
    [] OTHER -> Prints(name, this)
=============================================================================
