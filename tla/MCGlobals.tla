------------------------------ MODULE MCGlobals ------------------------------
(***************************************************************************)
(* Instances of Globals for TLC.                                           *)
(***************************************************************************)
EXTENDS Globals, TLC

CONSTANTS x, y, a, b

TwoNames == {x, y}
OneNative == {y}
NoNative == {}
OneValue == {a}
TwoValues == {a, b}

(* No native is defined where the values are symmetric.                    *)
Symmetry == Permutations({x, y}) \cup Permutations({a, b})

(* No guard reads which instruction succeeded last or whether the last     *)
(* line ended in a runtime error, and the indexes of a compiler that is    *)
(* through are forgotten by the next line.                                 *)
ProgramView ==
  <<chunks, contexts, IF Compiling THEN indexes ELSE << >>, table, calls, made,
    line = "assert">>
=============================================================================
