----------------------------- MODULE MCUpvalues -----------------------------
(***************************************************************************)
(* Instances of Upvalues for TLC: the programs considered differ by the    *)
(* ways they leave captured locals behind.                                 *)
(***************************************************************************)
EXTENDS Upvalues, TLC

CONSTANTS a, b

TwoValues == {a, b}
OneValue == {a}

OnlyNull == {Null}

OnlyLastCaptured == {"scope"}
AnyBlock == {"scope", "buried"}
AnyProgram == ExitKinds

(* No guard reads the memory or what a closed upvalue holds, so states that *)
(* differ in nothing else behave alike: enough for the properties about     *)
(* which upvalues exist and where they point.                               *)
ControlView ==
  <<top, frames, [u \in DOMAIN upvalues |-> upvalues[u].location],
    open, building, closures, nvars>>

ValueSymmetry == Permutations({a, b})
=============================================================================
