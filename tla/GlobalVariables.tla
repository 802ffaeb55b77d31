--------------------------- MODULE GlobalVariables ---------------------------
(***************************************************************************)
(* What a program may rely on about its global variables, whatever indexes *)
(* the compiler gives them: each instruction acts on the variable that the *)
(* source names, a global is defined once, only mutable globals change,    *)
(* and all of it lasts from one line of the REPL to the next.              *)
(***************************************************************************)
CONSTANTS
  Names,      \* the globals a program can name
  Natives,    \* the globals that are there from the start
  Values,     \* what a global can hold
  Initially,  \* the value of a native
  Undefined   \* a global that has not been defined

VARIABLES
  val,   \* global -> its value and whether it may change, or Undefined
  done   \* the last instruction that succeeded: operation, name and value

Global(x, m) == [value |-> x, mutable |-> m]

Init ==
  /\ val = [n \in Names |-> IF n \in Natives THEN Global(Initially, FALSE)
                            ELSE Undefined]
  /\ done = << >>

Define(n, x, m) ==
  /\ val[n] = Undefined
  /\ val' = [val EXCEPT ![n] = Global(x, m)]
  /\ done' = <<"define", n, x>>

Get(n) ==
  /\ val[n] # Undefined
  /\ done' = <<"get", n, val[n].value>>
  /\ UNCHANGED val

Set(n, x) ==
  /\ val[n] # Undefined /\ val[n].mutable
  /\ val' = [val EXCEPT ![n].value = x]
  /\ done' = <<"set", n, x>>

Next ==
  \E n \in Names :
    \/ \E x \in Values, m \in BOOLEAN : Define(n, x, m)
    \/ Get(n)
    \/ \E x \in Values : Set(n, x)

Spec == Init /\ [][Next]_<<val, done>>
=============================================================================
