-------------------------- MODULE LexicalVariables --------------------------
(***************************************************************************)
(* What a program may rely on about its local variables, whatever the      *)
(* stack, the frames and the upvalue objects do: a variable is declared    *)
(* once, holds the value it was last assigned for as long as a scope or a  *)
(* closure can reach it, and never comes back once it is out of reach.     *)
(***************************************************************************)
CONSTANTS
  Variables,  \* every variable a run of the program declares
  Cells,      \* what a variable may be initialised with
  Values,     \* what an assignment may store
  Unborn,     \* not declared yet
  Gone        \* no longer reachable from a scope or a closure

VARIABLE val  \* variable -> what it holds

Init == val = [v \in Variables |-> Unborn]

Declare(v, x) ==
  /\ val[v] = Unborn
  /\ val' = [val EXCEPT ![v] = x]

Assign(v, x) ==
  /\ val[v] \notin {Unborn, Gone}
  /\ val' = [val EXCEPT ![v] = x]

(* A scope, a function or a whole program ends: some variables are lost,   *)
(* the others keep their values.                                           *)
Forget(S) ==
  val' = [v \in Variables |-> IF v \in S THEN Gone ELSE val[v]]

Next ==
  \/ \E v \in Variables, x \in Cells : Declare(v, x)
  \/ \E v \in Variables, x \in Values : Assign(v, x)
  \/ \E S \in SUBSET {v \in Variables : val[v] # Unborn} : Forget(S)

Spec == Init /\ [][Next]_val
=============================================================================
