------------------------------ MODULE MCCalls -------------------------------
(***************************************************************************)
(* Instances of Calls for TLC: a few programs, each with classes that      *)
(* disagree about what they override.                                      *)
(***************************************************************************)
EXTENDS Calls

F == Closure("function", "", "m", 1, Null)
A == Class("A")
B == Class("B")
C == Class("C")
Clock == Native("clock")

SomeLiterals ==
  {Number, String, F, Clock, Class("string"), Class("closure")}
TwoNames == {"m", "clone"}
OneName == {"m"}
ThreeClasses == {"A", "B", "C"}
ZeroOrOne == {0, 1}
SomeTypes == obj_last..obj_last + 2

Method(n, arity) == [kind |-> "method", name |-> n, arity |-> arity]
Operator(token, arity) == [kind |-> "operator", name |-> token, arity |-> arity]
Convert(to) == [kind |-> "convert", name |-> "", arity |-> 0, to |-> to]

(* The n-th class of its line.                                             *)
Declare(n, c, super, members) ==
  [class |-> c, type |-> obj_last + n - 1, super |-> super, members |-> members]

Line(declares, mentions) == [declares |-> declares, mentions |-> mentions]

Overrides ==
  << Line(<<Declare(1, "A", Absent, <<Method("m", 0), Method("clone", 0)>>),
            Declare(2, "B", A, <<Operator("-", 1)>>)>>, {}),
     Line(<<Declare(1, "C", B, <<Method("m", 1)>>)>>, {C}) >>

Constructs ==
  << Line(<<Declare(1, "A", Absent, <<Operator("ctor", 1), Operator("+", 1)>>)>>,
          {A, Number}),
     Line(<<Declare(1, "B", A, <<Method("m", 1)>>)>>, {B, Number}) >>

(* The line that declares A fails; A stays as it is.                       *)
Refused ==
  << Line(<<Declare(1, "A", String, <<Method("m", 0)>>)>>, {}),
     Line(<<Declare(1, "B", A, <<Method("m", 0), Convert(Number)>>)>>, {}),
     Line(<<Declare(1, "C", B, << >>)>>, {C}) >>

(* B has the type number that A had in its line.                           *)
Converts ==
  << Line(<<Declare(1, "A", Absent, <<Convert(A), Convert(Class("string"))>>)>>,
          {A, String}),
     Line(<<Declare(1, "B", A, <<Operator("-", 0), Operator("++", 1)>>)>>, {A, B}) >>

Inherits ==
  << Line(<<Declare(1, "A", Class("string"), <<Operator("(", 0)>>),
            Declare(2, "B", Class("closure"),
                    <<Operator("print", 0), Operator("+=", 1)>>)>>,
          {A, B, String}) >>

Functions == << Line(<< >>, {F, Clock, Class("closure")}) >>

NoObject == << Line(<<Declare(1, "A", Number, << >>)>>, {}) >>

SomePrograms ==
  {Overrides, Constructs, Refused, Converts, Inherits, Functions, NoObject}

(* The top of the running frame is set anew before it is read.             *)
View ==
  <<stack, heap, classes, status, lines, decls, stage, values, graph,
    [i \in DOMAIN frames |-> IF i = Len(frames) /\ status = "running"
                             THEN [frames[i] EXCEPT !.top = 0] ELSE frames[i]]>>
=============================================================================
