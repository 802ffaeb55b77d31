----------------------------- MODULE LineEditor -----------------------------
(***************************************************************************)
(* The line editor of the REPL (repl.cpp): read_key, which puts escape     *)
(* sequences together byte by byte, and read_line, which edits a buffer at *)
(* a cursor and walks through the history by an index of type size_t.      *)
(*                                                                         *)
(* A step is one read of a byte, or one read that got none, with all that  *)
(* the key does when the byte completes one.                               *)
(***************************************************************************)
EXTENDS Integers, FiniteSets, SequencesExt

CONSTANTS
  Letters,      \* the bytes considered that are text when typed as such
  SizeMax,      \* the largest size_t
  MaxLine,      \* bound: length of a line
  MaxLines      \* bound: lines entered in a session

ASSUME EditorAssumption ==
  /\ SizeMax \in Nat /\ MaxLine \in Nat
  /\ MaxLines \in Nat /\ MaxLines < SizeMax
  /\ Letters \cap {"enter", "backspace", "escape", "eof"} = {}

VARIABLES
  pending,      \* the bytes read_key has read of an escape sequence
  buff,         \* the line so far
  cursor,       \* where in it the next character goes
  hist_idx,     \* the history entry key up starts from
  history,      \* repl::start's history of lines
  reader,       \* "reading", "entered", "ended" (key_eof) or "undefined"
  shown         \* bookkeeping: which entry was recalled last; a line that
                \* is not recalled comes after all entries

line == <<buff, cursor, hist_idx, shown>>
editorVars == <<pending, history, reader, line>>

(***************************************************************************)
(* read_key                                                                *)
(***************************************************************************)
Controls == {"enter", "backspace", "escape", "eof"}
Finals == {"[", "A", "B", "C", "D", "3", "~"}

(* What may come: text and controls, and anything after an escape.         *)
Bytes == Letters \cup IF pending = <<>> THEN Controls ELSE Finals

(* The sequences read_key reads on after.                                  *)
Unfinished(seq) == \/ seq = <<"escape">>
                   \/ Len(seq) = 2
                   \/ seq = <<"escape", "[", "3">>

(* Three bytes are the key, except that "3" takes a fourth.                *)
KeyOf(seq) ==
  IF Len(seq) = 1
  THEN IF seq[1] \in Controls THEN seq[1] ELSE "char"
  ELSE CASE seq = <<"escape", "[", "A">> -> "up"
         [] seq = <<"escape", "[", "B">> -> "down"
         [] seq = <<"escape", "[", "C">> -> "right"
         [] seq = <<"escape", "[", "D">> -> "left"
         [] seq = <<"escape", "[", "3", "~">> -> "delete"
         [] OTHER -> "unknown"

(* A byte completes the key k: a case of the switch in read_line.          *)
Key(k) == /\ reader = "reading"
          /\ \E b \in Bytes : LET seq == Append(pending, b) IN
               ~ Unfinished(seq) /\ KeyOf(seq) = k
          /\ pending' = <<>>

AwaitByte ==
  /\ reader = "reading"
  /\ \E b \in Bytes : /\ Unfinished(Append(pending, b))
                      /\ pending' = Append(pending, b)
  /\ UNCHANGED <<line, history, reader>>

(* read() gives no byte: interrupted, or the input is closed.  The key is  *)
(* unknown, and what was read of a sequence is forgotten.                  *)
ReadNothing ==
  /\ reader = "reading"
  /\ pending' = <<>>
  /\ UNCHANGED <<line, history, reader>>

(***************************************************************************)
(* read_line                                                               *)
(***************************************************************************)
(* size_t wraps around below 0.                                            *)
SizeOf(n) == IF n < 0 THEN n + SizeMax + 1 ELSE n

(* The n-th entry, or none, takes the buffer's place; another index reads   *)
(* what is not in the history.                                             *)
ShowsNothing == /\ buff' = <<>> /\ cursor' = 0
                /\ shown' = Len(history) + 1
                /\ UNCHANGED reader

ShowsEntry(n) ==
  IF n \in 1 .. Len(history)
  THEN /\ buff' = history[n] /\ cursor' = Len(history[n])
       /\ shown' = n
       /\ UNCHANGED reader
  ELSE reader' = "undefined" /\ UNCHANGED <<buff, cursor, shown>>

Insert ==
  /\ Len(buff) < MaxLine
  /\ Key("char")
  /\ \E c \in Letters : buff' = InsertAt(buff, cursor + 1, c)
  /\ cursor' = cursor + 1
  /\ UNCHANGED <<hist_idx, shown, history, reader>>

(* A bug the runs must notice: key left past the beginning.                *)
LeftUnguarded ==
  /\ Key("left")
  /\ cursor' = cursor - 1
  /\ UNCHANGED <<buff, hist_idx, shown, history, reader>>

Left ==
  /\ Key("left")
  /\ cursor' = IF cursor > 0 THEN cursor - 1 ELSE cursor
  /\ UNCHANGED <<buff, hist_idx, shown, history, reader>>

Right ==
  /\ Key("right")
  /\ cursor' = IF cursor < Len(buff) THEN cursor + 1 ELSE cursor
  /\ UNCHANGED <<buff, hist_idx, shown, history, reader>>

(* A bug the runs must notice: backspace that erases as delete does.       *)
BackspaceAtCursor ==
  /\ Key("backspace")
  /\ IF cursor > 0
     THEN buff' = RemoveAt(buff, cursor + 1) /\ cursor' = cursor - 1
     ELSE UNCHANGED <<buff, cursor>>
  /\ UNCHANGED <<hist_idx, shown, history, reader>>

(* Erasing before the cursor, and at it.                                   *)
Backspace ==
  /\ Key("backspace")
  /\ IF cursor > 0
     THEN buff' = RemoveAt(buff, cursor) /\ cursor' = cursor - 1
     ELSE UNCHANGED <<buff, cursor>>
  /\ UNCHANGED <<hist_idx, shown, history, reader>>

Delete ==
  /\ Key("delete")
  /\ buff' = IF Len(buff) > cursor THEN RemoveAt(buff, cursor + 1) ELSE buff
  /\ UNCHANGED <<cursor, hist_idx, shown, history, reader>>

(* A bug the runs must notice: the index is read before it is moved.       *)
UpReadsFirst ==
  /\ Key("up")
  /\ IF hist_idx > 0
     THEN hist_idx' = hist_idx - 1 /\ ShowsEntry(hist_idx + 1)
     ELSE UNCHANGED <<line, reader>>
  /\ UNCHANGED history

(* buff = history[--hist_idx]; the model counts entries from 1.            *)
Up ==
  /\ Key("up")
  /\ IF hist_idx > 0
     THEN hist_idx' = hist_idx - 1 /\ ShowsEntry(hist_idx)
     ELSE UNCHANGED <<line, reader>>
  /\ UNCHANGED history

(* A bug the runs must notice: key down that reads as key up does.         *)
DownLikeUp ==
  /\ Key("down")
  /\ LET last == SizeOf(Len(history) - 1)
     IN  IF hist_idx > 0 /\ hist_idx < last
         THEN hist_idx' = hist_idx - 1 /\ ShowsEntry(hist_idx)
         ELSE hist_idx' = last /\ ShowsNothing
  /\ UNCHANGED history

(* buff = history[hist_idx++], or past the end an empty line.              *)
Down ==
  /\ Key("down")
  /\ LET last == SizeOf(Len(history) - 1)
     IN  IF hist_idx > 0 /\ hist_idx < last
         THEN hist_idx' = hist_idx + 1 /\ ShowsEntry(hist_idx + 1)
         ELSE hist_idx' = last /\ ShowsNothing
  /\ UNCHANGED history

Ignored ==
  /\ Key("unknown")
  /\ UNCHANGED <<line, history, reader>>

(* The line is returned, and repl::start adds it to the history.           *)
Enter ==
  /\ Len(history) < MaxLines
  /\ Key("enter")
  /\ history' = Append(history, buff)
  /\ reader' = "entered"
  /\ UNCHANGED line

Eof ==
  /\ Key("eof")
  /\ reader' = "ended"
  /\ UNCHANGED <<line, history>>

(* read_line is called again.                                              *)
ReadLine ==
  /\ reader' = "reading"
  /\ buff' = <<>> /\ cursor' = 0
  /\ hist_idx' = Len(history) /\ shown' = Len(history) + 1
  /\ UNCHANGED <<pending, history>>

EditorInit ==
  /\ pending = <<>>
  /\ buff = <<>> /\ cursor = 0
  /\ history = <<>> /\ hist_idx = 0
  /\ reader = "reading" /\ shown = 1

Edit ==
  \/ AwaitByte \/ ReadNothing
  \/ Insert \/ Left \/ Right \/ Backspace \/ Delete
  \/ Up \/ Down \/ Ignored
  \/ Enter \/ Eof

(***************************************************************************)
(* Properties                                                              *)
(***************************************************************************)
(* The types of the editor's variables.                                    *)
EditorTypeOK ==
  /\ pending \in {<<>>, <<"escape">>}
                 \cup {<<"escape", b>> : b \in Letters \cup Finals}
                 \cup {<<"escape", "[", "3">>}
  /\ buff \in Seq(Letters)
  /\ cursor \in 0 .. Len(buff)
  /\ history \in Seq(Seq(Letters)) /\ Len(history) <= MaxLines
  /\ hist_idx \in 0 .. SizeMax
  /\ reader \in {"reading", "entered", "ended", "undefined"}
  /\ shown \in 1 .. Len(history) + 1

(* Key up and key down read outside the history only where it is empty:    *)
(* there key down makes the index the largest size_t, and key up reads at  *)
(* the index below.  With one line entered, no keys lead outside.          *)
ReadsOutsideOnlyWhenEmpty ==
  /\ hist_idx > Len(history) =>
       history = <<>> \/ (Len(history) = 1 /\ reader = "entered")
  /\ reader = "undefined" => history = <<>>

(* Key up never shows a later line than what it showed before, and key     *)
(* down never an earlier one, whatever was edited or entered between.      *)
(* (Both may show the same one again, and leave lines out.)                *)
OlderThenNewer == [][/\ Up => shown' <= shown
                     /\ Down => shown' >= shown]_<<line, reader>>
=============================================================================
