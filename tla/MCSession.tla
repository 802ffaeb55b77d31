----------------------------- MODULE MCSession -----------------------------
(***************************************************************************)
(* Session for TLC.  Two letters, which are also bytes of the escape       *)
(* sequences; lines of two letters; three lines, of which two fill the     *)
(* frames and the third finds them full.                                   *)
(***************************************************************************)
EXTENDS Session

TwoLetters == {"[", "A"}

(* What a program does is open whatever the line is.  So sessions go on    *)
(* after any program and any failure where the lines entered are empty,    *)
(* and where they have letters after programs that do next to nothing.     *)
Apart == \/ \A i \in 1 .. Len(history) : history[i] = <<>>
         \/ left + failed = 0 /\ top <= 2
=============================================================================
