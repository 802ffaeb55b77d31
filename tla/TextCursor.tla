----------------------------- MODULE TextCursor -----------------------------
(***************************************************************************)
(* What a line editor promises: a text with a place in it, and the lines   *)
(* entered so far.  There is no index and no key here: an edit takes one   *)
(* character next to the place away, or puts one there, and what is        *)
(* entered is the whole text, the part behind the place included.          *)
(***************************************************************************)
EXTENDS Integers, Sequences

CONSTANT Letters    \* the characters of a text

VARIABLES
  before, after,    \* the text on either side of the place
  lines             \* the lines entered, the oldest first

vars == <<before, after, lines>>

Lines == {lines[i] : i \in 1 .. Len(lines)}

Init == before = <<>> /\ after = <<>> /\ lines = <<>>

Write == /\ \E c \in Letters : before' = Append(before, c)
         /\ UNCHANGED <<after, lines>>

EraseBefore == /\ \E c \in Letters : before = Append(before', c)
               /\ UNCHANGED <<after, lines>>

EraseAfter == /\ \E c \in Letters : after = <<c>> \o after'
              /\ UNCHANGED <<before, lines>>

MoveBack == /\ \E c \in Letters : /\ before = Append(before', c)
                                  /\ after' = <<c>> \o after
            /\ UNCHANGED lines

MoveOn == /\ \E c \in Letters : /\ after = <<c>> \o after'
                                /\ before' = Append(before, c)
          /\ UNCHANGED lines

(* A line entered before takes the place of the text, or nothing does.     *)
Recall == /\ before' \in Lines \cup {<<>>}
          /\ after' = <<>>
          /\ UNCHANGED lines

EnterLine == /\ lines' = Append(lines, before \o after)
             /\ before' = <<>> /\ after' = <<>>

Next == \/ Write \/ EraseBefore \/ EraseAfter \/ MoveBack \/ MoveOn
        \/ Recall \/ EnterLine

Spec == Init /\ [][Next]_vars
=============================================================================
