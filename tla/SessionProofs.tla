--------------------------- MODULE SessionProofs ---------------------------
(***************************************************************************)
(* Proofs about Session: the line editor stays inside its buffer and, but  *)
(* for one case, its history, and implements a text with a place in it;    *)
(* frames and storage between and during lines are what Session's          *)
(* properties say.                                                         *)
(***************************************************************************)
EXTENDS Session, SequenceLemmas

(***************************************************************************)
(* The inductive invariant                                                 *)
(***************************************************************************)
(* Where the index into the history may be.                                *)
IndexInv ==
  \/ hist_idx <= Len(history)
  \/ /\ hist_idx = SizeMax
     /\ history = <<>> \/ (Len(history) = 1 /\ reader = "entered")
  \/ hist_idx = SizeMax - 1 /\ history = <<>> /\ reader = "undefined"

EditorInv ==
  /\ EditorTypeOK
  /\ IndexInv
  /\ reader = "undefined" => history = <<>>

(* The frames when no program runs: those without a closure come from      *)
(* lines that did not compile.                                             *)
Least(a, b) == IF a < b THEN a ELSE b

FramesInv ==
  /\ vm \in {"started", "idle", "called"} =>
       /\ Len(frames) = Least(left + failed, FrameLimit)
       /\ failed = 0 => CanReport
  /\ vm = "compiling" => Len(frames) = Least(left + failed + 1, FrameLimit)
  /\ CrashesOnlyWithFramesFull

(* The frames and the compiler's counts when one does.                     *)
RunInv ==
  vm = "running" =>
    /\ Len(heights) >= 1 /\ Len(frames) = Len(heights)
    /\ CanReport
    /\ frames[1].slots = 0
    /\ left = 0 /\ failed = 0
    /\ \A i \in 1 .. Len(heights) : heights[i] >= 1

(* The storage, in programs that are not too wide: frame i begins below    *)
(* the values of i - 1 frames.                                             *)
StorageInv ==
  ~ wide =>
    /\ storage = FrameLimit * FrameSize
    /\ vm = "running" =>
         /\ \A i \in 1 .. Len(heights) - 1 :
              /\ heights[i] < FrameSize
              /\ frames[i + 1].slots = frames[i].slots + heights[i]
         /\ \A i \in 1 .. Len(heights) : frames[i].slots <= (i - 1) * FrameSize
         /\ heights[Len(heights)] <= FrameSize
         /\ top = frames[Len(frames)].slots + heights[Len(heights)]

(* What is known of a file before main returns.                            *)
ExitInv ==
  /\ vm = "idle" => file = "none"
  /\ vm \in {"called", "compiling"} => file \in {"none", "text", "unopened"}
  /\ vm = "running" => file \in {"none", "text"}
  /\ file # "none" /\ vm \in {"started", "called", "compiling"} =>
       left + failed = 0
  /\ vm # "exited" => status = 0
  /\ ExitCodeIsTheOutcome

IInv ==
  /\ TypeOK /\ EditorInv
  /\ FramesInv /\ RunInv /\ StorageInv /\ ExitInv

(***************************************************************************)
(* The line editor                                                         *)
(***************************************************************************)
(* The length of the buffer and the history are numbers.                   *)
LEMMA Lengths ==
  ASSUME EditorTypeOK
  PROVE  /\ Len(buff) \in Nat /\ cursor \in Nat /\ cursor <= Len(buff)
         /\ Len(history) \in Nat /\ Len(history) < SizeMax
         /\ SizeMax \in Nat /\ hist_idx \in Nat
         /\ \A n \in 1 .. Len(history) :
              /\ history[n] \in Seq(Letters)
              /\ Len(history[n]) \in Nat
<1>1. Len(buff) \in Nat /\ Len(history) \in Nat
  BY LenProperties DEF EditorTypeOK
<1>2. ASSUME NEW n \in 1 .. Len(history)
      PROVE  history[n] \in Seq(Letters) /\ Len(history[n]) \in Nat
  <2>1. history[n] \in Seq(Letters)
    BY ElementOfSeq DEF EditorTypeOK
  <2>2. QED
    BY <2>1, LenProperties
<1>3. QED
  BY <1>1, <1>2, EditorAssumption DEF EditorTypeOK

(* A step that leaves index, history and reader alone.                     *)
LEMMA EditOfBuffer ==
  ASSUME EditorInv, pending' = <<>>,
         buff' \in Seq(Letters), cursor' \in 0 .. Len(buff'),
         UNCHANGED <<hist_idx, shown, history, reader>>
  PROVE  EditorInv'
BY DEF EditorInv, EditorTypeOK, IndexInv

LEMMA InsertKeeps == ASSUME EditorInv, Insert PROVE EditorInv'
<1>1. PICK c \in Letters : buff' = InsertAt(buff, cursor + 1, c)
  BY DEF Insert
<1>2. cursor + 1 \in 1 .. Len(buff) + 1 /\ buff \in Seq(Letters)
  BY Lengths DEF EditorInv, EditorTypeOK
<1>3. buff' \in Seq(Letters) /\ Len(buff') = Len(buff) + 1
  BY <1>1, <1>2, InsertAtProperties
<1>4. cursor' \in 0 .. Len(buff')
  BY <1>3, Lengths DEF EditorInv, Insert
<1>5. QED
  BY <1>3, <1>4, EditOfBuffer DEF Insert, Key

LEMMA LeftKeeps == ASSUME EditorInv, Left PROVE EditorInv'
<1>1. buff' \in Seq(Letters) /\ cursor' \in 0 .. Len(buff')
  BY Lengths DEF EditorInv, EditorTypeOK, Left
<1>2. QED
  BY <1>1, EditOfBuffer DEF Left, Key

LEMMA RightKeeps == ASSUME EditorInv, Right PROVE EditorInv'
<1>1. buff' \in Seq(Letters) /\ cursor' \in 0 .. Len(buff')
  BY Lengths DEF EditorInv, EditorTypeOK, Right
<1>2. QED
  BY <1>1, EditOfBuffer DEF Right, Key

LEMMA BackspaceKeeps == ASSUME EditorInv, Backspace PROVE EditorInv'
<1>1. buff' \in Seq(Letters) /\ cursor' \in 0 .. Len(buff')
  <2>1. CASE cursor > 0
    <3>1. cursor \in 1 .. Len(buff) /\ buff \in Seq(Letters)
      BY <2>1, Lengths DEF EditorInv, EditorTypeOK
    <3>2. buff' \in Seq(Letters) /\ Len(buff') = Len(buff) - 1
      BY <2>1, <3>1, RemoveAtType DEF Backspace
    <3>3. QED
      BY <2>1, <3>1, <3>2, Lengths DEF EditorInv, Backspace
  <2>2. CASE ~ (cursor > 0)
    BY <2>2 DEF EditorInv, EditorTypeOK, Backspace
  <2>3. QED
    BY <2>1, <2>2
<1>2. QED
  BY <1>1, EditOfBuffer DEF Backspace, Key

LEMMA DeleteKeeps == ASSUME EditorInv, Delete PROVE EditorInv'
<1>1. buff' \in Seq(Letters) /\ cursor' \in 0 .. Len(buff')
  <2>1. CASE Len(buff) > cursor
    <3>1. cursor + 1 \in 1 .. Len(buff) /\ buff \in Seq(Letters)
      BY <2>1, Lengths DEF EditorInv, EditorTypeOK
    <3>2. buff' \in Seq(Letters) /\ Len(buff') = Len(buff) - 1
      BY <2>1, <3>1, RemoveAtType DEF Delete
    <3>3. QED
      BY <2>1, <3>1, <3>2, Lengths DEF EditorInv, Delete
  <2>2. CASE ~ (Len(buff) > cursor)
    BY <2>2 DEF EditorInv, EditorTypeOK, Delete
  <2>3. QED
    BY <2>1, <2>2
<1>2. QED
  BY <1>1, EditOfBuffer DEF Delete, Key

(* The index is at most the size of the history, unless that is empty.     *)
LEMMA UpKeeps == ASSUME EditorInv, Up PROVE EditorInv'
<1>1. reader = "reading" /\ pending' = <<>> /\ UNCHANGED history
  BY DEF Up, Key
<1>2. CASE ~ (hist_idx > 0)
  BY <1>1, <1>2 DEF Up, line, EditorInv, EditorTypeOK, IndexInv
<1>3. CASE hist_idx > 0 /\ hist_idx <= Len(history)
  <2>1. hist_idx \in 1 .. Len(history)
    BY <1>3, Lengths DEF EditorInv
  <2>2. /\ hist_idx' = hist_idx - 1 /\ shown' = hist_idx /\ UNCHANGED reader
        /\ buff' = history[hist_idx] /\ cursor' = Len(history[hist_idx])
    BY <1>3, <2>1 DEF Up, ShowsEntry
  <2>3. buff' \in Seq(Letters) /\ cursor' \in 0 .. Len(buff')
    BY <2>1, <2>2, Lengths DEF EditorInv
  <2>4. hist_idx' \in 0 .. SizeMax /\ hist_idx' <= Len(history)
    BY <2>1, <2>2, Lengths DEF EditorInv
  <2>5. QED
    BY <1>1, <2>1, <2>2, <2>3, <2>4, Lengths DEF EditorInv, EditorTypeOK, IndexInv
<1>4. CASE hist_idx > 0 /\ ~ (hist_idx <= Len(history))
  <2>1. hist_idx = SizeMax /\ history = <<>>
    BY <1>1, <1>4 DEF EditorInv, IndexInv
  <2>2. hist_idx \notin 1 .. Len(history)
    BY <1>4
  <2>3. /\ hist_idx' = SizeMax - 1 /\ reader' = "undefined"
        /\ UNCHANGED <<buff, cursor, shown>>
    BY <1>4, <2>1, <2>2 DEF Up, ShowsEntry
  <2>4. hist_idx' \in 0 .. SizeMax
    BY <1>4, <2>1, <2>3, Lengths DEF EditorInv
  <2>5. QED
    BY <1>1, <2>1, <2>3, <2>4 DEF EditorInv, EditorTypeOK, IndexInv
<1>5. QED
  BY <1>2, <1>3, <1>4

LEMMA DownKeeps == ASSUME EditorInv, Down PROVE EditorInv'
<1> DEFINE last == SizeOf(Len(history) - 1)
<1>1. reader = "reading" /\ pending' = <<>> /\ UNCHANGED history
  BY DEF Down, Key
<1>2. /\ Len(history) = 0 => last = SizeMax
      /\ Len(history) > 0 => last = Len(history) - 1
  BY Lengths DEF EditorInv, SizeOf
<1>3. history = <<>> <=> Len(history) = 0
  BY EmptySeq DEF EditorInv, EditorTypeOK
<1> HIDE DEF last
<1>4. CASE hist_idx > 0 /\ hist_idx < last
  <2>1. Len(history) > 0
    BY <1>1, <1>2, <1>3, <1>4, Lengths DEF EditorInv, IndexInv
  <2>2. hist_idx + 1 \in 1 .. Len(history)
    BY <1>2, <1>4, <2>1, Lengths DEF EditorInv
  <2>3. /\ hist_idx' = hist_idx + 1 /\ shown' = hist_idx + 1 /\ UNCHANGED reader
        /\ buff' = history[hist_idx + 1] /\ cursor' = Len(history[hist_idx + 1])
    BY <1>4, <2>2 DEF Down, ShowsEntry, last
  <2>4. buff' \in Seq(Letters) /\ cursor' \in 0 .. Len(buff')
    BY <2>2, <2>3, Lengths DEF EditorInv
  <2>5. hist_idx' \in 0 .. SizeMax /\ hist_idx' <= Len(history)
    BY <2>2, <2>3, Lengths DEF EditorInv
  <2>6. QED
    BY <1>1, <2>2, <2>3, <2>4, <2>5, Lengths DEF EditorInv, EditorTypeOK, IndexInv
<1>5. CASE ~ (hist_idx > 0 /\ hist_idx < last)
  <2>1. /\ hist_idx' = last /\ buff' = <<>> /\ cursor' = 0
        /\ shown' = Len(history) + 1 /\ UNCHANGED reader
    BY <1>5 DEF Down, ShowsNothing, last
  <2>2. buff' \in Seq(Letters) /\ cursor' \in 0 .. Len(buff')
    BY <2>1, EmptySeq
  <2>3. /\ hist_idx' \in 0 .. SizeMax
        /\ hist_idx' <= Len(history) \/ (hist_idx' = SizeMax /\ history = <<>>)
    BY <1>2, <1>3, <2>1, Lengths DEF EditorInv
  <2>4. shown' \in 1 .. Len(history) + 1
    BY <2>1, Lengths DEF EditorInv
  <2>5. QED
    BY <1>1, <2>1, <2>2, <2>3, <2>4 DEF EditorInv, EditorTypeOK, IndexInv
<1>6. QED
  BY <1>4, <1>5

LEMMA EnterKeeps == ASSUME EditorInv, Enter PROVE EditorInv'
<1>1. /\ history' = Append(history, buff) /\ reader' = "entered"
      /\ pending' = <<>> /\ UNCHANGED <<buff, cursor, hist_idx, shown>>
      /\ reader = "reading" /\ Len(history) < MaxLines
  BY DEF Enter, Key, line
<1>2. history' \in Seq(Seq(Letters)) /\ Len(history') = Len(history) + 1
  BY <1>1, AppendProperties DEF EditorInv, EditorTypeOK
<1>3. Len(history') <= MaxLines /\ shown' \in 1 .. Len(history') + 1
  BY <1>1, <1>2, Lengths, EditorAssumption DEF EditorInv, EditorTypeOK
<1>4. IndexInv'
  BY <1>1, <1>2, Lengths, EmptySeq DEF EditorInv, IndexInv
<1>5. QED
  BY <1>1, <1>2, <1>3, <1>4 DEF EditorInv, EditorTypeOK

LEMMA ReadLineKeeps == ASSUME EditorInv, ReadLine PROVE EditorInv'
<1>1. buff' \in Seq(Letters) /\ cursor' \in 0 .. Len(buff')
  BY EmptySeq DEF ReadLine
<1>2. hist_idx' \in 0 .. SizeMax /\ shown' \in 1 .. Len(history') + 1
  BY Lengths DEF EditorInv, ReadLine
<1>3. QED
  BY <1>1, <1>2, Lengths DEF EditorInv, EditorTypeOK, IndexInv, ReadLine

(* A byte of an unfinished sequence is kept.                               *)
LEMMA AwaitByteKeeps == ASSUME EditorInv, AwaitByte PROVE EditorInv'
<1>1. PICK b \in Bytes : /\ Unfinished(Append(pending, b))
                         /\ pending' = Append(pending, b)
  BY DEF AwaitByte
<1>2. pending' \in {<<>>, <<"escape">>}
                  \cup {<<"escape", x>> : x \in Letters \cup Finals}
                  \cup {<<"escape", "[", "3">>}
  <2>1. CASE pending = <<>>
    <3>1. Append(pending, b) = <<b>> /\ Len(<<b>>) = 1
      BY <2>1
    <3>2. <<b>> = <<"escape">>
      BY <1>1, <3>1 DEF Unfinished
    <3>3. QED
      BY <1>1, <3>1, <3>2
  <2>2. CASE pending = <<"escape">>
    <3>1. Len(<<"escape">>) = 1 /\ Len(<<>>) = 0
      OBVIOUS
    <3>2. pending # <<>> /\ Append(pending, b) = <<"escape", b>>
      BY <2>2, <3>1, AppendToOne
    <3>3. b \in Letters \cup Finals
      BY <3>2 DEF Bytes
    <3>4. QED
      BY <1>1, <3>2, <3>3
  <2>3. ASSUME NEW x \in Letters \cup Finals, pending = <<"escape", x>>
        PROVE  pending' = <<"escape", "[", "3">>
    <3>1. Append(pending, b) = <<"escape", x, b>>
      BY <2>3, AppendToTwo
    <3>2. Len(<<"escape", x, b>>) = 3 /\ Len(<<"escape">>) = 1
      OBVIOUS
    <3>3. QED
      BY <1>1, <3>1, <3>2 DEF Unfinished
  <2>4. CASE pending = <<"escape", "[", "3">>
    <3>1. Append(pending, b) = <<"escape", "[", "3", b>>
      BY <2>4, AppendToThree
    <3>2. /\ Len(<<"escape", "[", "3", b>>) = 4
          /\ Len(<<"escape", "[", "3">>) = 3 /\ Len(<<"escape">>) = 1
      OBVIOUS
    <3>3. QED
      BY <1>1, <3>1, <3>2 DEF Unfinished
  <2>5. QED
    BY <2>1, <2>2, <2>3, <2>4 DEF EditorInv, EditorTypeOK
<1>3. QED
  BY <1>2 DEF AwaitByte, line, EditorInv, EditorTypeOK, IndexInv

LEMMA EditKeeps == ASSUME EditorInv, Edit PROVE EditorInv'
<1>1. ASSUME ReadNothing \/ Ignored PROVE EditorInv'
  BY <1>1 DEF ReadNothing, Ignored, Key, line, EditorInv, EditorTypeOK, IndexInv
<1>2. ASSUME Eof PROVE EditorInv'
  BY <1>2 DEF Eof, Key, line, EditorInv, EditorTypeOK, IndexInv
<1>3. QED
  BY <1>1, <1>2, AwaitByteKeeps, InsertKeeps, LeftKeeps, RightKeeps,
     BackspaceKeeps, DeleteKeeps, UpKeeps, DownKeeps, EnterKeeps DEF Edit

(***************************************************************************)
(* Between lines                                                           *)
(***************************************************************************)
LEMMA InitIInv == Init => IInv
<1> SUFFICES ASSUME Init PROVE IInv
  OBVIOUS
<1>1. EditorInv
  BY EmptySeq, EditorAssumption
  DEF Init, EditorInit, EditorInv, EditorTypeOK, IndexInv
<1>2. TypeOK
  <2>1. FrameLimit * FrameSize \in Nat
    BY SessionAssumption
  <2>2. /\ frames \in Seq([closure : BOOLEAN, slots : Nat])
        /\ heights \in Seq(Nat) /\ Len(frames) = 0
    BY EmptySeq DEF Init
  <2>3. /\ Len(frames) <= FrameLimit
        /\ top \in Nat /\ storage \in Nat
    BY <2>1, <2>2, SessionAssumption DEF Init
  <2>4. /\ vm = "started" /\ file \in Files /\ status = 0
        /\ wide \in BOOLEAN /\ left = 0 /\ failed = 0
    BY DEF Init
  <2>5. QED
    BY <1>1, <2>2, <2>3, <2>4 DEF TypeOK, EditorInv, FILE_ERROR
<1>3. Len(frames) = 0 /\ CanReport
  BY EmptySeq DEF Init, CanReport, depth
<1>4. FramesInv
  BY <1>3, SessionAssumption
  DEF Init, FramesInv, Least, CrashesOnlyWithFramesFull
<1>5. RunInv /\ StorageInv /\ ExitInv
  BY DEF Init, RunInv, StorageInv, ExitInv, ExitCodeIsTheOutcome
<1>6. QED
  BY <1>1, <1>2, <1>4, <1>5 DEF IInv

(* What interpret's return does to the editor: a new line, or nothing.     *)
LEMMA ReturnedEditor ==
  ASSUME EditorInv, NEW res, Returned(res)
  PROVE  EditorInv'
<1>1. CASE file = "none"
  BY <1>1, ReadLineKeeps DEF Returned
<1>2. CASE file # "none"
  BY <1>2 DEF Returned, EditorInv, EditorTypeOK, IndexInv, editorVars, line
<1>3. QED
  BY <1>1, <1>2

LEMMA SameEditor ==
  ASSUME EditorInv, UNCHANGED editorVars
  PROVE  EditorInv'
BY DEF EditorInv, EditorTypeOK, IndexInv, editorVars, line

(* What main returns.                                                      *)
LEMMA ResultCodes ==
  /\ to_utype("ok") = 0 /\ to_utype("parse_error") = 1
  /\ to_utype("compile_error") = 2 /\ to_utype("runtime_error") = 3
  /\ FILE_ERROR = 4
BY DEF to_utype, FILE_ERROR

(* The runner's step is one of four.                                       *)
LEMMA RunFileCases ==
  ASSUME IInv, RunFile
  PROVE  /\ vm = "started" /\ status = 0 /\ left = 0 /\ failed = 0
         /\ UNCHANGED <<machine, file, counts>>
         /\ \/ file \in {"text", "unopened"} /\ vm' = "called" /\ status' = 0
            \/ file = "many" /\ vm' = "exited" /\ status' = 0
            \/ file = "unsearchable" /\ vm' = "terminated" /\ status' = 0
            \/ file \in Refused /\ vm' = "exited" /\ status' = 4
<1>1. /\ vm = "started" /\ file \in Files /\ file # "none" /\ status = 0
      /\ UNCHANGED <<machine, file, counts>>
  BY DEF RunFile, IInv, TypeOK, ExitInv
<1>2. left = 0 /\ failed = 0
  BY <1>1 DEF IInv, TypeOK, ExitInv
<1>3. CASE file \in {"text", "unopened"}
  BY <1>1, <1>2, <1>3 DEF RunFile, Refused
<1>4. CASE file = "many"
  BY <1>1, <1>2, <1>4, ResultCodes DEF RunFile, Refused, Exit
<1>5. CASE file = "unsearchable"
  BY <1>1, <1>2, <1>5 DEF RunFile, Refused
<1>6. CASE file \in Refused
  BY <1>1, <1>2, <1>6, ResultCodes DEF RunFile, Refused, Exit
<1>7. QED
  BY <1>1, <1>3, <1>4, <1>5, <1>6 DEF Files

(* A step of the command line, the editor or the REPL, which leaves the    *)
(* vm's frames, its stack and the counts alone.                            *)
LEMMA OutsideKeeps ==
  ASSUME IInv, EditorInv', UNCHANGED <<machine, file, counts>>,
         vm \in {"started", "idle"},
         vm' \in {"idle", "called", "exited", "terminated"},
         status' \in 0 .. FILE_ERROR, ExitInv'
  PROVE  IInv'
<1>1. TypeOK'
  BY DEF IInv, TypeOK, EditorInv, machine, counts
<1>2. FramesInv' /\ RunInv' /\ StorageInv'
  BY DEF IInv, FramesInv, RunInv, StorageInv, CrashesOnlyWithFramesFull,
     CanReport, depth, machine, counts
<1>3. QED
  BY <1>1, <1>2 DEF IInv

LEMMA CommandLineKeeps ==
  ASSUME IInv, StartRepl \/ RunFile \/ LineEntered \/ EndOfSession
  PROVE  IInv'
<1>1. EditorInv'
  BY SameEditor
  DEF IInv, StartRepl, RunFile, LineEntered, EndOfSession
<1>2. /\ UNCHANGED <<machine, file, counts>>
      /\ vm \in {"started", "idle"}
      /\ vm' \in {"idle", "called", "exited", "terminated"}
      /\ status' \in 0 .. FILE_ERROR
  <2>1. CASE RunFile
    BY <2>1, RunFileCases, ResultCodes
  <2>2. CASE StartRepl \/ LineEntered \/ EndOfSession
    BY <2>2, ResultCodes
    DEF StartRepl, LineEntered, EndOfSession, Exit, IInv, TypeOK
  <2>3. QED
    BY <2>1, <2>2
<1>3. ExitInv'
  <2>1. ASSUME StartRepl \/ LineEntered PROVE ExitInv'
    BY <2>1 DEF IInv, ExitInv, ExitCodeIsTheOutcome, StartRepl, LineEntered,
       counts
  <2>2. ASSUME EndOfSession PROVE ExitInv'
    BY <2>2 DEF IInv, ExitInv, ExitCodeIsTheOutcome, EndOfSession, Exit,
       to_utype, counts, FILE_ERROR, Refused
  <2>3. ASSUME RunFile PROVE ExitInv'
    BY <2>3, RunFileCases, ResultCodes
    DEF ExitInv, ExitCodeIsTheOutcome, Refused, counts
  <2>4. QED
    BY <2>1, <2>2, <2>3
<1>4. QED
  BY <1>1, <1>2, <1>3, OutsideKeeps

LEMMA EditLineKeeps == ASSUME IInv, EditLine PROVE IInv'
<1>1. EditorInv'
  BY EditKeeps DEF IInv, EditLine
<1>2. ExitInv'
  BY DEF IInv, ExitInv, ExitCodeIsTheOutcome, EditLine, counts
<1>3. QED
  BY <1>1, <1>2, OutsideKeeps DEF EditLine, IInv, TypeOK

(***************************************************************************)
(* interpret                                                               *)
(***************************************************************************)
(* A frame without a closure is pushed, or the frames are full and it      *)
(* depends on them whether the error can be reported.                      *)
LEMMA BeginInterpretKeeps == ASSUME IInv, BeginInterpret PROVE IInv'
<1>1. EditorInv'
  BY SameEditor DEF IInv, BeginInterpret
<1>2. /\ vm = "called" /\ vm' \in {"compiling", "undefined"}
      /\ UNCHANGED <<top, storage, file, status, counts>>
  BY DEF BeginInterpret
<1>3. /\ Len(frames) = Least(left + failed, FrameLimit)
      /\ failed = 0 => CanReport
      /\ left \in Nat /\ failed \in Nat /\ FrameLimit \in Nat
      /\ frames \in Seq([closure : BOOLEAN, slots : Nat])
  BY <1>2, SessionAssumption DEF IInv, FramesInv, TypeOK
<1>4. CASE Len(frames) < FrameLimit
  <2>1. frames' = Append(frames, Dummy) /\ vm' = "compiling"
    BY <1>4 DEF BeginInterpret, depth
  <2>2. /\ frames' \in Seq([closure : BOOLEAN, slots : Nat])
        /\ Len(frames') = Len(frames) + 1
    BY <1>3, <2>1, AppendProperties DEF Dummy
  <2>3. TypeOK'
    BY <1>1, <1>2, <1>3, <1>4, <2>1, <2>2, LenProperties
    DEF IInv, TypeOK, EditorInv, counts
  <2>4. FramesInv'
    BY <1>2, <1>3, <1>4, <2>1, <2>2
    DEF FramesInv, Least, CrashesOnlyWithFramesFull, counts
  <2>5. RunInv' /\ StorageInv' /\ ExitInv'
    BY <1>2, <2>1 DEF IInv, RunInv, StorageInv, ExitInv, ExitCodeIsTheOutcome,
       counts
  <2>6. QED
    BY <1>1, <2>3, <2>4, <2>5 DEF IInv
<1>5. CASE ~ (Len(frames) < FrameLimit)
  <2>1. /\ UNCHANGED frames
        /\ vm' = IF CanReport THEN "compiling" ELSE "undefined"
    BY <1>5 DEF BeginInterpret, depth
  <2>2. TypeOK'
    BY <1>1, <1>2, <2>1 DEF IInv, TypeOK, EditorInv, counts
  <2>3. FramesInv'
    BY <1>2, <1>3, <1>5, <2>1
    DEF FramesInv, Least, CrashesOnlyWithFramesFull, counts
  <2>4. RunInv' /\ StorageInv' /\ ExitInv'
    BY <1>2, <2>1 DEF IInv, RunInv, StorageInv, ExitInv, ExitCodeIsTheOutcome,
       counts
  <2>5. QED
    BY <1>1, <2>2, <2>3, <2>4 DEF IInv
<1>6. QED
  BY <1>4, <1>5

(* Where interpret's return leads.                                         *)
LEMMA ReturnedTo ==
  ASSUME IInv, NEW res \in {"ok", "parse_error", "compile_error", "runtime_error"},
         Returned(res)
  PROVE  /\ vm' \in {"idle", "exited"}
         /\ file = "none" => vm' = "idle" /\ UNCHANGED status
         /\ file # "none" => vm' = "exited" /\ status' = to_utype(res)
         /\ to_utype(res) \in 0 .. 3 /\ (to_utype(res) = 0 <=> res = "ok")
BY DEF Returned, Exit, to_utype

LEMMA CompileFailsKeeps ==
  ASSUME IInv, NEW res \in {"parse_error", "compile_error"}, CompileFails(res)
  PROVE  IInv'
<1>1. /\ vm = "compiling" /\ Returned(res) /\ failed' = failed + 1
      /\ UNCHANGED <<frames, top, storage, file, heights, wide, left>>
  BY DEF CompileFails, machine
<1>2. EditorInv'
  BY <1>1, ReturnedEditor DEF IInv
<1>3. /\ vm' \in {"idle", "exited"}
      /\ file = "none" => vm' = "idle" /\ UNCHANGED status
      /\ file # "none" => vm' = "exited" /\ status' = to_utype(res)
      /\ to_utype(res) \in 1 .. 3
  BY <1>1, ReturnedTo
<1>4. TypeOK'
  BY <1>1, <1>2, <1>3 DEF IInv, TypeOK, EditorInv, FILE_ERROR
<1>5. FramesInv'
  BY <1>1, <1>3, SessionAssumption
  DEF IInv, FramesInv, Least, CrashesOnlyWithFramesFull, TypeOK
<1>6. RunInv' /\ StorageInv'
  BY <1>1, <1>3 DEF IInv, RunInv, StorageInv
<1>7. ExitInv'
  <2>1. /\ file \in {"none", "text", "unopened"}
        /\ left \in Nat /\ failed \in Nat /\ status = 0
        /\ file # "none" => left = 0 /\ failed = 0
    BY <1>1 DEF IInv, TypeOK, ExitInv
  <2>2. /\ to_utype(res) \in {1, 2}
        /\ file = "unopened" => to_utype(res) = 2
    BY ResultCodes DEF CompileFails, HasTokens
  <2>3. CASE file = "none"
    BY <1>1, <1>3, <2>1, <2>3 DEF ExitInv, ExitCodeIsTheOutcome
  <2>4. CASE file # "none"
    BY <1>1, <1>3, <2>1, <2>2, <2>4, ResultCodes
    DEF ExitInv, ExitCodeIsTheOutcome, FILE_ERROR, Refused
  <2>5. QED
    BY <2>3, <2>4
<1>8. QED
  BY <1>2, <1>4, <1>5, <1>6, <1>7 DEF IInv

(***************************************************************************)
(* run                                                                     *)
(***************************************************************************)
(* The values of n frames fit below those of m, when m is more than n.     *)
LEMMA Multiples ==
  ASSUME NEW F \in Nat, NEW n \in Nat, NEW m \in Nat, n + 1 <= m
  PROVE  n * F \in Nat /\ m * F \in Nat /\ n * F + F <= m * F
<1>1. PICK k \in Nat : m = (n + 1) + k
  <2>1. m - (n + 1) \in Nat /\ m = (n + 1) + (m - (n + 1))
    OBVIOUS
  <2>2. QED
    BY <2>1
<1>2. m * F = (n * F + F) + k * F /\ k * F \in Nat /\ n * F \in Nat
  BY <1>1
<1>3. QED
  BY <1>2

(* What holds while a program runs, in one place.                          *)
LEMMA Running ==
  ASSUME IInv, vm = "running"
  PROVE  /\ Len(heights) \in Nat /\ Len(heights) >= 1
         /\ Len(frames) = Len(heights) /\ depth = Len(heights)
         /\ depth <= FrameLimit
         /\ \A i \in 1 .. Len(heights) :
              /\ heights[i] \in Nat /\ heights[i] >= 1
              /\ frames[i] \in [closure : BOOLEAN, slots : Nat]
              /\ frames[i].closure
         /\ frames[1].slots = 0
         /\ Held = heights[Len(heights)] /\ Held \in Nat /\ Held >= 1
         /\ left = 0 /\ failed = 0
<1>1. /\ heights \in Seq(Nat) /\ Len(heights) \in Nat
      /\ frames \in Seq([closure : BOOLEAN, slots : Nat])
  BY LenProperties DEF IInv, TypeOK
<1>2. /\ Len(heights) >= 1 /\ Len(frames) = Len(heights) /\ CanReport
      /\ frames[1].slots = 0 /\ left = 0 /\ failed = 0
      /\ \A i \in 1 .. Len(heights) : heights[i] >= 1
  BY DEF IInv, RunInv
<1>3. ASSUME NEW i \in 1 .. Len(heights)
      PROVE  /\ heights[i] \in Nat
             /\ frames[i] \in [closure : BOOLEAN, slots : Nat]
  <2>1. heights[i] \in Nat
    BY <1>1, ElementOfSeq
  <2>2. frames[i] \in [closure : BOOLEAN, slots : Nat]
    BY <1>1, <1>2, ElementOfSeq
  <2>3. QED
    BY <2>1, <2>2
<1>4. Held = heights[Len(heights)]
  BY DEF Held, Last
<1>5. depth = Len(heights) /\ depth <= FrameLimit
  BY <1>2 DEF depth, IInv, TypeOK
<1>6. QED
  BY <1>1, <1>2, <1>3, <1>4, <1>5 DEF CanReport, depth

(* In a program that is not too wide no count is lost: the top is below    *)
(* the storage's end by the room its frame has left.                       *)
LEMMA Narrow ==
  ASSUME IInv, vm = "running", ~ wide
  PROVE  /\ storage = FrameLimit * FrameSize
         /\ frames[depth].slots \in Nat
         /\ top = frames[depth].slots + Held
         /\ Held <= FrameSize
         /\ frames[depth].slots + FrameSize <= storage
<1>1. /\ storage = FrameLimit * FrameSize
      /\ \A i \in 1 .. Len(heights) : frames[i].slots <= (i - 1) * FrameSize
      /\ heights[Len(heights)] <= FrameSize
      /\ top = frames[Len(frames)].slots + heights[Len(heights)]
  BY DEF IInv, StorageInv
<1>2. /\ depth \in Nat /\ depth >= 1 /\ depth <= FrameLimit
      /\ depth = Len(heights) /\ Len(frames) = Len(heights)
      /\ Held = heights[Len(heights)] /\ frames[depth].slots \in Nat
  BY Running
<1>3. (depth - 1) * FrameSize + FrameSize <= FrameLimit * FrameSize
  <2>1. depth - 1 \in Nat /\ (depth - 1) + 1 <= FrameLimit
    BY <1>2, SessionAssumption
  <2>2. QED
    BY <2>1, Multiples, SessionAssumption
<1>4. /\ frames[depth].slots <= (depth - 1) * FrameSize
      /\ (depth - 1) * FrameSize \in Int
  BY <1>1, <1>2, SessionAssumption
<1> DEFINE below == (depth - 1) * FrameSize
           all == FrameLimit * FrameSize
<1>5. all \in Nat
  BY SessionAssumption
<1>6. /\ frames[depth].slots <= below /\ below \in Int
      /\ below + FrameSize <= all /\ storage = all /\ all \in Nat
  BY <1>1, <1>3, <1>4, <1>5
<1> HIDE DEF below, all
<1>7. frames[depth].slots + FrameSize <= storage
  BY <1>2, <1>6, SessionAssumption
<1>8. QED
  BY <1>1, <1>2, <1>7

(* A push with room for it.                                                *)
LEMMA PushOnProperties ==
  ASSUME IInv, NEW height \in Nat, PushOn(height)
  PROVE  /\ top' \in Nat /\ storage' \in Nat
         /\ height < storage => top' = height + 1 /\ storage' = storage
BY DEF PushOn, IInv, TypeOK

LEMMA RunMainKeeps == ASSUME IInv, RunMain PROVE IInv'
<1>1. /\ vm = "compiling" /\ vm' = "running" /\ HasTokens
      /\ frames' = <<Frame(0)>> /\ heights' = <<1>> /\ PushOn(0)
      /\ left' = 0 /\ failed' = 0
      /\ UNCHANGED <<file, status, wide>>
  BY DEF RunMain
<1>2. EditorInv'
  BY SameEditor DEF IInv, RunMain
<1>3. /\ frames' \in Seq([closure : BOOLEAN, slots : Nat])
      /\ Len(frames') = 1 /\ frames'[1] = Frame(0)
      /\ heights' \in Seq(Nat) /\ Len(heights') = 1 /\ heights'[1] = 1
  <2>1. Frame(0) \in [closure : BOOLEAN, slots : Nat]
    BY DEF Frame
  <2>2. QED
    BY <1>1, <2>1
<1>4. /\ top' \in Nat /\ storage' \in Nat
      /\ 0 < storage => top' = 1 /\ storage' = storage
  BY <1>1, PushOnProperties
<1>5. TypeOK'
  BY <1>1, <1>2, <1>3, <1>4, SessionAssumption DEF IInv, TypeOK, EditorInv
<1>6. FramesInv'
  BY <1>1 DEF FramesInv, CrashesOnlyWithFramesFull
<1>7. RunInv'
  BY <1>1, <1>3 DEF RunInv, CanReport, depth, Frame
<1>8. StorageInv'
  <2>1. SUFFICES ASSUME ~ wide' PROVE StorageInv'
    BY DEF StorageInv
  <2>2. storage = FrameLimit * FrameSize
    BY <1>1, <2>1 DEF IInv, StorageInv
  <2>3. 0 * FrameSize + FrameSize <= FrameLimit * FrameSize
    BY Multiples, SessionAssumption
  <2>4. 0 * FrameSize = 0
    BY SessionAssumption
  <2>5. 0 < storage
    BY <2>2, <2>3, <2>4, SessionAssumption DEF IInv, TypeOK
  <2>6. (1 - 1) * FrameSize = 0 /\ 1 <= FrameSize
    BY <2>4, SessionAssumption
  <2>7. \A i \in 1 .. Len(heights') : i = 1
    BY <1>3
  <2>8. frames'[1].slots = 0
    BY <1>3 DEF Frame
  <2>9. QED
    BY <1>1, <1>3, <1>4, <2>2, <2>5, <2>6, <2>7, <2>8 DEF StorageInv
<1>9. ExitInv'
  BY <1>1 DEF IInv, ExitInv, ExitCodeIsTheOutcome, HasTokens
<1>10. QED
  BY <1>2, <1>5, <1>6, <1>7, <1>8, <1>9 DEF IInv

(* The count of the frame in progress changes, and no other.               *)
LEMMA CountsProperties ==
  ASSUME IInv, vm = "running", NEW held \in Nat, Counts(held)
  PROVE  /\ heights' \in Seq(Nat) /\ Len(heights') = Len(heights)
         /\ \A i \in 1 .. Len(heights) :
              heights'[i] = IF i = Len(heights) THEN held ELSE heights[i]
         /\ wide' \in BOOLEAN
         /\ ~ wide' => ~ wide /\ held <= FrameSize
         /\ left' = 0 /\ failed' = 0
<1>1. heights' = [heights EXCEPT ![Len(heights)] = held]
  BY DEF Counts
<1>2. heights \in Seq(Nat) /\ Len(heights) \in 1 .. Len(heights)
  BY Running DEF IInv, TypeOK
<1>3. wide' \in BOOLEAN
  BY DEF Counts
<1>4. ~ wide' => ~ wide /\ ~ (held > FrameSize)
  BY DEF Counts
<1>5. left' = 0 /\ failed' = 0
  BY Running DEF Counts
<1>6. /\ heights' \in Seq(Nat) /\ Len(heights') = Len(heights)
      /\ \A i \in 1 .. Len(heights) :
           heights'[i] = IF i = Len(heights) THEN held ELSE heights[i]
  BY <1>1, <1>2, ExceptSeq
<1>7. ~ (held > FrameSize) => held <= FrameSize
  BY SessionAssumption
<1>8. QED
  BY <1>3, <1>4, <1>5, <1>6, <1>7

(* A step inside a frame that moves the top as it moves the count.         *)
LEMMA HeldKeeps ==
  ASSUME IInv, vm = "running", vm' = "running", EditorInv',
         NEW held \in Nat, held >= 1, Counts(held),
         UNCHANGED <<frames, file, status>>,
         top' \in Nat, storage' \in Nat,
         ~ wide' => storage' = storage /\ top' = frames[depth].slots + held
  PROVE  IInv'
<1>1. TypeOK'
  BY CountsProperties DEF IInv, TypeOK, EditorInv
<1>2. FramesInv' /\ ExitInv'
  BY DEF IInv, FramesInv, CrashesOnlyWithFramesFull, ExitInv,
     ExitCodeIsTheOutcome
<1>3. RunInv'
  BY Running, CountsProperties DEF IInv, RunInv, CanReport, depth
<1>4. StorageInv'
  <2>1. SUFFICES ASSUME ~ wide' PROVE StorageInv'
    BY DEF StorageInv
  <2>2. ~ wide /\ held <= FrameSize
    BY <2>1, CountsProperties
  <2>3. /\ Len(heights') = Len(heights) /\ Len(heights) \in Nat
        /\ Len(heights) >= 1 /\ depth = Len(heights)
        /\ Len(frames) = Len(heights)
        /\ \A i \in 1 .. Len(heights) :
             heights'[i] = IF i = Len(heights) THEN held ELSE heights[i]
    BY Running, CountsProperties
  <2>4. storage' = FrameLimit * FrameSize
    BY <2>1, <2>2, Narrow
  <2>5. \A i \in 1 .. Len(heights) - 1 :
          /\ heights[i] < FrameSize
          /\ frames[i + 1].slots = frames[i].slots + heights[i]
    BY <2>2 DEF IInv, StorageInv
  <2>6. \A i \in 1 .. Len(heights) - 1 : heights'[i] = heights[i]
    BY <2>3
  <2>7. \A i \in 1 .. Len(heights) : frames[i].slots <= (i - 1) * FrameSize
    BY <2>2 DEF IInv, StorageInv
  <2>8. top' = frames[Len(frames)].slots + heights'[Len(heights')]
    BY <2>1, <2>3
  <2>9. heights'[Len(heights')] <= FrameSize
    BY <2>2, <2>3
  <2>10. QED
    BY <2>3, <2>4, <2>5, <2>6, <2>7, <2>8, <2>9 DEF StorageInv
<1>5. QED
  BY <1>1, <1>2, <1>3, <1>4 DEF IInv

(* The vm leaves its stack only in a program too wide.                     *)
LEMMA UndefinedKeeps ==
  ASSUME IInv, vm = "running", vm' = "undefined", EditorInv',
         UNCHANGED <<frames, file, status>>, top' \in Nat, storage' \in Nat,
         heights' \in Seq(Nat), wide' \in BOOLEAN, wide',
         UNCHANGED <<left, failed>>
  PROVE  IInv'
<1>1. TypeOK'
  BY DEF IInv, TypeOK, EditorInv
<1>2. FramesInv' /\ RunInv' /\ StorageInv' /\ ExitInv'
  BY DEF IInv, FramesInv, RunInv, StorageInv, CrashesOnlyWithFramesFull,
     ExitInv, ExitCodeIsTheOutcome
<1>3. QED
  BY <1>1, <1>2 DEF IInv

LEMMA PushesKeeps == ASSUME IInv, Pushes PROVE IInv'
<1>1. /\ vm = "running" /\ vm' = "running" /\ PushOn(top) /\ Counts(Held + 1)
      /\ UNCHANGED <<frames, file, status>>
  BY DEF Pushes
<1>2. EditorInv'
  BY SameEditor DEF IInv, Pushes
<1>3. Held \in Nat /\ Held + 1 \in Nat /\ top \in Nat
  BY <1>1, Running DEF IInv, TypeOK
<1>4. /\ top' \in Nat /\ storage' \in Nat
      /\ top < storage => top' = top + 1 /\ storage' = storage
  BY <1>1, <1>3, PushOnProperties
<1>5. ASSUME ~ wide'
      PROVE  storage' = storage /\ top' = frames[depth].slots + (Held + 1)
  <2>1. ~ wide /\ Held + 1 <= FrameSize
    BY <1>1, <1>3, <1>5, CountsProperties
  <2>2. /\ top = frames[depth].slots + Held /\ frames[depth].slots \in Nat
        /\ frames[depth].slots + FrameSize <= storage
    BY <1>1, <2>1, Narrow
  <2>3. top < storage
    BY <1>3, <2>1, <2>2, SessionAssumption DEF IInv, TypeOK
  <2>4. QED
    BY <1>3, <1>4, <2>2, <2>3
<1>6. QED
  BY <1>1, <1>2, <1>3, <1>4, <1>5, HeldKeeps

LEMMA PopsValueKeeps == ASSUME IInv, PopsValue PROVE IInv'
<1>1. /\ vm = "running" /\ Held > 1 /\ Counts(Held - 1)
      /\ top' = Pops(top) /\ UNCHANGED <<frames, storage, file, status>>
      /\ vm' = IF top > 0 THEN "running" ELSE "undefined"
  BY DEF PopsValue
<1>2. EditorInv'
  BY SameEditor DEF IInv, PopsValue
<1>3. /\ Held \in Nat /\ Held - 1 \in Nat /\ Held - 1 >= 1
      /\ top \in Nat /\ top' \in Nat /\ storage' \in Nat
      /\ top > 0 => top' = top - 1
  BY <1>1, Running DEF IInv, TypeOK, Pops
<1>4. ASSUME ~ wide
      PROVE  /\ top = frames[depth].slots + Held
             /\ frames[depth].slots \in Nat
  BY <1>1, <1>4, Narrow
<1>5. CASE top > 0
  <2>1. ASSUME ~ wide'
        PROVE  storage' = storage /\ top' = frames[depth].slots + (Held - 1)
    <3>1. ~ wide
      BY <1>1, <1>3, <2>1, CountsProperties
    <3>2. QED
      BY <1>1, <1>3, <1>4, <1>5, <3>1
  <2>2. QED
    BY <1>1, <1>2, <1>3, <1>5, <2>1, HeldKeeps
<1>6. CASE ~ (top > 0)
  <2>1. wide
    BY <1>3, <1>4, <1>6, <1>1
  <2>2. wide'
    BY <1>1, <2>1 DEF Counts
  <2>3. heights' \in Seq(Nat) /\ wide' \in BOOLEAN
    BY <1>1, <1>3, CountsProperties
  <2>4. UNCHANGED <<left, failed>>
    BY <1>1 DEF Counts
  <2>5. QED
    BY <1>1, <1>2, <1>3, <1>6, <2>2, <2>3, <2>4, UndefinedKeeps
<1>7. QED
  BY <1>5, <1>6

(* A runtime error can be reported, and leaves the program's frames.       *)
LEMMA FailsKeeps ==
  ASSUME IInv, vm = "running", Fails, UNCHANGED <<machine, file>>
  PROVE  IInv'
<1>1. CanReport
  BY DEF IInv, RunInv
<1>2. /\ Returned("runtime_error") /\ heights' = <<>>
      /\ left' = Len(heights) /\ UNCHANGED <<wide, failed>>
      /\ UNCHANGED <<frames, top, storage, file>>
  BY <1>1 DEF Fails, machine
<1>3. EditorInv'
  BY <1>2, ReturnedEditor DEF IInv
<1>4. /\ vm' \in {"idle", "exited"}
      /\ file = "none" => vm' = "idle" /\ UNCHANGED status
      /\ file # "none" => vm' = "exited" /\ status' = 3
  BY <1>2 DEF Returned, Exit, to_utype
<1>5. /\ Len(heights) \in Nat /\ Len(heights) >= 1
      /\ Len(frames) = Len(heights) /\ Len(heights) <= FrameLimit
      /\ left = 0 /\ failed = 0
  BY Running
<1>6. TypeOK'
  <2>1. heights' \in Seq(Nat) /\ left' \in Nat
    BY <1>2, <1>5, EmptySeq
  <2>2. status' \in 0 .. FILE_ERROR
    BY <1>4 DEF IInv, TypeOK, FILE_ERROR
  <2>3. QED
    BY <1>2, <1>3, <1>4, <2>1, <2>2 DEF IInv, TypeOK, EditorInv
<1>7. FramesInv'
  BY <1>1, <1>2, <1>4, <1>5, SessionAssumption
  DEF FramesInv, Least, CrashesOnlyWithFramesFull, CanReport, depth
<1>8. RunInv' /\ StorageInv'
  BY <1>2, <1>4 DEF IInv, RunInv, StorageInv
<1>9. ExitInv'
  <2>1. file \in {"none", "text"} /\ status = 0
    BY DEF IInv, ExitInv
  <2>2. QED
    BY <1>2, <1>4, <1>5, <2>1, ResultCodes
    DEF ExitInv, ExitCodeIsTheOutcome, Refused
<1>10. QED
  BY <1>3, <1>6, <1>7, <1>8, <1>9 DEF IInv

LEMMA RuntimeErrorKeeps == ASSUME IInv, RuntimeError PROVE IInv'
BY FailsKeeps DEF RuntimeError

(* The arguments and the callee move from the caller's count to the new    *)
(* frame's, which begins where the caller's now ends.                      *)
LEMMA EnterFrameKeeps ==
  ASSUME IInv, NEW argc \in 0 .. FrameSize - 1, Call(argc),
         ~ (top <= argc), depth < FrameLimit
  PROVE  IInv'
<1> DEFINE n == Len(heights)
           caller == [heights EXCEPT ![n] = heights[n] - argc - 1]
<1>1. /\ vm = "running" /\ vm' = "running" /\ Held > argc + 1
      /\ frames' = Append(frames, Frame(top - argc - 1))
      /\ heights' = Append(caller, argc + 1)
      /\ UNCHANGED <<top, storage, file, status, wide, left, failed>>
      /\ UNCHANGED editorVars
  BY DEF Call
<1>2. EditorInv'
  BY <1>1, SameEditor DEF IInv
<1>3. /\ n \in Nat /\ n >= 1 /\ depth = n /\ Len(frames) = n
      /\ Held = heights[n] /\ Held \in Nat
      /\ argc \in Nat /\ argc + 1 <= FrameSize
      /\ top \in Nat /\ top - argc - 1 \in Nat
  <2>1. /\ n \in Nat /\ n >= 1 /\ depth = n /\ Len(frames) = n
        /\ Held = heights[n] /\ Held \in Nat
    BY <1>1, Running
  <2>2. argc \in Nat /\ argc + 1 <= FrameSize
    BY SessionAssumption
  <2>3. top \in Nat /\ ~ (top <= argc)
    BY DEF IInv, TypeOK
  <2>4. QED
    BY <2>1, <2>2, <2>3
<1>4. heights[n] - argc - 1 \in Nat /\ heights[n] - argc - 1 >= 1
  BY <1>1, <1>3
<1>5. /\ caller \in Seq(Nat) /\ Len(caller) = n
      /\ \A i \in 1 .. n :
           caller[i] = IF i = n THEN heights[n] - argc - 1 ELSE heights[i]
  <2>1. heights \in Seq(Nat) /\ n \in 1 .. Len(heights)
    BY <1>3 DEF IInv, TypeOK
  <2>2. QED
    BY <1>4, <2>1, ExceptSeq
<1> HIDE DEF caller
<1>6. /\ heights' \in Seq(Nat) /\ Len(heights') = n + 1
      /\ \A i \in 1 .. n : heights'[i] = caller[i]
      /\ heights'[n + 1] = argc + 1
  BY <1>1, <1>3, <1>5, AppendProperties
<1>7. /\ frames' \in Seq([closure : BOOLEAN, slots : Nat])
      /\ Len(frames') = n + 1
      /\ \A i \in 1 .. n : frames'[i] = frames[i]
      /\ frames'[n + 1] = Frame(top - argc - 1)
  <2>1. Frame(top - argc - 1) \in [closure : BOOLEAN, slots : Nat]
    BY <1>3 DEF Frame
  <2>2. frames \in Seq([closure : BOOLEAN, slots : Nat])
    BY DEF IInv, TypeOK
  <2>3. QED
    BY <1>1, <1>3, <2>1, <2>2, AppendProperties
<1> HIDE DEF n
<1>8. TypeOK'
  <2>1. Len(frames') <= FrameLimit
    BY <1>3, <1>7, SessionAssumption
  <2>2. QED
    BY <1>1, <1>2, <1>6, <1>7, <2>1 DEF IInv, TypeOK, EditorInv
<1>9. FramesInv' /\ ExitInv'
  BY <1>1 DEF IInv, FramesInv, CrashesOnlyWithFramesFull, ExitInv,
     ExitCodeIsTheOutcome
<1>10. RunInv'
  <2>1. /\ \A i \in 1 .. n : heights[i] >= 1 /\ frames[i].closure
        /\ frames[1].slots = 0 /\ left = 0 /\ failed = 0
    BY <1>1, Running DEF n
  <2>2. \A i \in 1 .. n + 1 : heights'[i] >= 1
    <3>1. \A i \in 1 .. n : caller[i] >= 1
      BY <1>4, <1>5, <2>1
    <3>2. argc + 1 >= 1
      BY <1>3
    <3>3. \A i \in 1 .. n + 1 : i \in 1 .. n \/ i = n + 1
      BY <1>3
    <3>4. QED
      BY <1>6, <3>1, <3>2, <3>3
  <2>3. \A i \in 1 .. n + 1 : frames'[i].closure
    BY <1>3, <1>7, <2>1 DEF Frame
  <2>4. frames'[1].slots = 0
    BY <1>3, <1>7, <2>1
  <2>5. QED
    BY <1>1, <1>3, <1>6, <1>7, <2>1, <2>2, <2>3, <2>4 DEF RunInv, CanReport, depth
<1>11. StorageInv'
  <2>1. SUFFICES ASSUME ~ wide' PROVE StorageInv'
    BY DEF StorageInv
  <2>2. /\ storage = FrameLimit * FrameSize
        /\ \A i \in 1 .. n - 1 :
             /\ heights[i] < FrameSize
             /\ frames[i + 1].slots = frames[i].slots + heights[i]
        /\ \A i \in 1 .. n : frames[i].slots <= (i - 1) * FrameSize
        /\ heights[n] <= FrameSize
        /\ top = frames[n].slots + heights[n]
        /\ frames[n].slots \in Nat
    BY <1>1, <1>3, <2>1, Narrow DEF IInv, StorageInv, n
  <2>3. /\ frames'[n + 1].slots = top - argc - 1
        /\ top - argc - 1 = frames[n].slots + caller[n]
        /\ caller[n] < FrameSize /\ caller[n] \in Nat
    <3>1. frames'[n + 1].slots = top - argc - 1
      BY <1>7 DEF Frame
    <3>2. caller[n] = heights[n] - argc - 1 /\ caller[n] \in Nat
      BY <1>3, <1>4, <1>5
    <3>3. heights[n] \in Nat /\ heights[n] <= FrameSize /\ argc \in Nat
      BY <1>3, <2>2
    <3>4. caller[n] < FrameSize
      BY <3>2, <3>3, SessionAssumption
    <3>5. top - argc - 1 = frames[n].slots + caller[n]
      BY <2>2, <3>2, <3>3
    <3>6. QED
      BY <3>1, <3>2, <3>4, <3>5
  <2>4. \A i \in 1 .. n :
          /\ heights'[i] < FrameSize
          /\ frames'[i + 1].slots = frames'[i].slots + heights'[i]
    <3>1. SUFFICES ASSUME NEW i \in 1 .. n
                   PROVE  /\ heights'[i] < FrameSize
                          /\ frames'[i + 1].slots = frames'[i].slots + heights'[i]
      OBVIOUS
    <3>2. CASE i = n
      BY <1>3, <1>6, <1>7, <2>3, <3>2
    <3>3. CASE i # n
      <4>1. i \in 1 .. n - 1 /\ i + 1 \in 1 .. n /\ caller[i] = heights[i]
        BY <1>3, <1>5, <3>3
      <4>2. QED
        BY <1>6, <1>7, <2>2, <4>1
    <3>4. QED
      BY <3>2, <3>3
  <2>5. frames'[n + 1].slots <= n * FrameSize
    <3>1. frames[n].slots <= (n - 1) * FrameSize
      BY <1>3, <2>2
    <3>2. /\ (n - 1) * FrameSize + FrameSize <= n * FrameSize
          /\ (n - 1) * FrameSize \in Nat /\ n * FrameSize \in Nat
      <4>1. n - 1 \in Nat /\ (n - 1) + 1 <= n /\ FrameSize \in Nat
        BY <1>3, SessionAssumption
      <4>2. QED
        BY <1>3, <4>1, Multiples
    <3> DEFINE below == (n - 1) * FrameSize
               upTo == n * FrameSize
    <3>3. /\ frames[n].slots <= below /\ below + FrameSize <= upTo
          /\ below \in Nat /\ upTo \in Nat
      BY <3>1, <3>2
    <3> HIDE DEF below, upTo
    <3>4. frames'[n + 1].slots <= upTo
      BY <2>2, <2>3, <3>3, SessionAssumption
    <3>5. QED
      BY <3>4 DEF upTo
  <2>6. \A i \in 1 .. n + 1 : frames'[i].slots <= (i - 1) * FrameSize
    <3>1. SUFFICES ASSUME NEW i \in 1 .. n + 1
                   PROVE  frames'[i].slots <= (i - 1) * FrameSize
      OBVIOUS
    <3>2. CASE i = n + 1
      <4>1. i - 1 = n
        BY <1>3, <3>2
      <4>2. QED
        BY <2>5, <3>2, <4>1
    <3>3. CASE i # n + 1
      <4>1. i \in 1 .. n
        BY <1>3, <3>3
      <4>2. QED
        BY <1>7, <2>2, <4>1
    <3>4. QED
      BY <3>2, <3>3
  <2>7. top' = frames'[n + 1].slots + heights'[n + 1]
    <3>1. frames'[n + 1].slots = top - argc - 1 /\ heights'[n + 1] = argc + 1
      BY <1>6, <2>3
    <3>2. top = (top - argc - 1) + (argc + 1)
      BY <1>3
    <3>3. QED
      BY <1>1, <3>1, <3>2
  <2>8. heights'[n + 1] <= FrameSize
    BY <1>3, <1>6
  <2>9. (n + 1) - 1 = n
    BY <1>3
  <2>10. QED
    BY <1>1, <1>6, <1>7, <2>2, <2>4, <2>6, <2>7, <2>8, <2>9 DEF StorageInv
<1>12. QED
  BY <1>2, <1>8, <1>9, <1>10, <1>11 DEF IInv

LEMMA CallKeeps ==
  ASSUME IInv, NEW argc \in 0 .. FrameSize - 1, Call(argc)
  PROVE  IInv'
<1>1. vm = "running" /\ Held > argc + 1 /\ UNCHANGED <<top, storage, file>>
  BY DEF Call
<1>2. /\ Held \in Nat /\ argc \in Nat /\ top \in Nat /\ storage \in Nat
      /\ heights \in Seq(Nat) /\ wide \in BOOLEAN
  BY <1>1, Running, SessionAssumption DEF IInv, TypeOK
<1>3. CASE top <= argc
  <2>1. /\ vm' = "undefined"
        /\ UNCHANGED <<editorVars, frames, status, counts>>
    BY <1>3 DEF Call
  <2>2. wide
    <3>1. ASSUME ~ wide PROVE FALSE
      <4>1. top = frames[depth].slots + Held /\ frames[depth].slots \in Nat
        BY <1>1, <3>1, Narrow
      <4>2. QED
        BY <1>1, <1>2, <1>3, <4>1
    <3>2. QED
      BY <3>1
  <2>3. EditorInv'
    BY <2>1, SameEditor DEF IInv
  <2>4. QED
    BY <1>1, <1>2, <2>1, <2>2, <2>3, UndefinedKeeps DEF counts
<1>4. CASE ~ (top <= argc) /\ depth < FrameLimit
  BY <1>4, EnterFrameKeeps
<1>5. CASE ~ (top <= argc) /\ ~ (depth < FrameLimit)
  <2>1. Fails /\ UNCHANGED <<machine, file>>
    BY <1>1, <1>5 DEF Call, machine
  <2>2. QED
    BY <1>1, <2>1, FailsKeeps
<1>6. QED
  BY <1>3, <1>4, <1>5

(* The script returns: no frame and no value is left.                      *)
LEMMA EndOfMainKeeps ==
  ASSUME IInv, OpReturn, top # 0, depth = 1
  PROVE  IInv'
<1>1. /\ vm = "running" /\ Returned("ok") /\ frames' = <<>>
      /\ top' = frames[1].slots /\ heights' = <<>>
      /\ UNCHANGED <<storage, wide, left, failed, file>>
  BY DEF OpReturn
<1>2. EditorInv'
  BY <1>1, ReturnedEditor DEF IInv
<1>3. /\ vm' \in {"idle", "exited"}
      /\ file = "none" => vm' = "idle" /\ UNCHANGED status
      /\ file # "none" => vm' = "exited" /\ status' = 0
  BY <1>1 DEF Returned, Exit, to_utype
<1>4. left = 0 /\ failed = 0 /\ top' = 0
  BY <1>1, Running
<1>5. /\ frames' \in Seq([closure : BOOLEAN, slots : Nat])
      /\ Len(frames') = 0 /\ heights' \in Seq(Nat)
  BY <1>1, EmptySeq
<1>6. TypeOK'
  <2>1. Len(frames') <= FrameLimit
    BY <1>5, SessionAssumption
  <2>2. status' \in 0 .. FILE_ERROR
    BY <1>3 DEF IInv, TypeOK, FILE_ERROR
  <2>3. QED
    BY <1>1, <1>2, <1>3, <1>4, <1>5, <2>1, <2>2 DEF IInv, TypeOK, EditorInv
<1>7. FramesInv'
  BY <1>1, <1>3, <1>4, <1>5, SessionAssumption
  DEF FramesInv, Least, CrashesOnlyWithFramesFull, CanReport, depth
<1>8. RunInv' /\ StorageInv'
  BY <1>1, <1>3 DEF IInv, RunInv, StorageInv
<1>9. ExitInv'
  <2>1. file \in {"none", "text"} /\ status = 0
    BY <1>1 DEF IInv, ExitInv
  <2>2. QED
    BY <1>1, <1>3, <1>4, <2>1, ResultCodes
    DEF ExitInv, ExitCodeIsTheOutcome, Refused
<1>10. QED
  BY <1>2, <1>6, <1>7, <1>8, <1>9 DEF IInv

(* A callee returns: its result is on top of the caller's values.          *)
LEMMA LeaveFrameKeeps ==
  ASSUME IInv, OpReturn, top # 0, depth # 1
  PROVE  IInv'
<1> DEFINE n == Len(heights)
           others == Front(heights)
<1>1. /\ vm = "running" /\ vm' = "running"
      /\ frames' = Front(frames) /\ PushOn(frames[depth].slots)
      /\ heights' = [others EXCEPT ![n - 1] = others[n - 1] + 1]
      /\ UNCHANGED <<file, status, wide, left, failed>>
      /\ UNCHANGED editorVars
  BY DEF OpReturn
<1>2. EditorInv'
  BY <1>1, SameEditor DEF IInv
<1>3. /\ n \in Nat /\ n >= 2 /\ depth = n /\ Len(frames) = n
      /\ frames[n].slots \in Nat /\ heights \in Seq(Nat)
      /\ frames \in Seq([closure : BOOLEAN, slots : Nat])
      /\ n <= FrameLimit
  BY <1>1, Running DEF IInv, TypeOK
<1>4. /\ others \in Seq(Nat) /\ Len(others) = n - 1
      /\ \A i \in 1 .. n - 1 : others[i] = heights[i]
  <2>1. n - 1 \in 0 .. Len(heights)
    BY <1>3
  <2>2. QED
    BY <1>3, <2>1, TakePrefix DEF Front
<1>5. /\ frames' \in Seq([closure : BOOLEAN, slots : Nat])
      /\ Len(frames') = n - 1
      /\ \A i \in 1 .. n - 1 : frames'[i] = frames[i]
  <2>1. n - 1 \in 0 .. Len(frames) /\ Len(frames) - 1 = n - 1
    BY <1>3
  <2>2. frames' = SubSeq(frames, 1, n - 1)
    BY <1>1, <2>1 DEF Front
  <2> HIDE DEF n
  <2>3. QED
    BY <1>3, <2>1, <2>2, TakePrefix
<1>6. /\ \A i \in 1 .. n : heights[i] \in Nat /\ heights[i] >= 1
      /\ \A i \in 1 .. n : frames[i].closure
      /\ frames[1].slots = 0 /\ left = 0 /\ failed = 0
  BY <1>1, Running
<1> HIDE DEF others
<1>7. /\ heights' \in Seq(Nat) /\ Len(heights') = n - 1
      /\ \A i \in 1 .. n - 1 :
           heights'[i] = IF i = n - 1 THEN heights[n - 1] + 1 ELSE heights[i]
  <2>1. n - 1 \in 1 .. Len(others) /\ n - 1 \in 1 .. n
    BY <1>3, <1>4
  <2>2. others[n - 1] = heights[n - 1] /\ heights[n - 1] + 1 \in Nat
    <3>1. n - 1 \in 1 .. n - 1
      BY <1>3
    <3>2. others[n - 1] = heights[n - 1]
      BY <1>4, <3>1
    <3>3. heights[n - 1] \in Nat
      BY <1>6, <2>1
    <3>4. QED
      BY <3>2, <3>3
  <2>3. QED
    BY <1>1, <1>4, <2>1, <2>2, ExceptSeq
<1>8. /\ top' \in Nat /\ storage' \in Nat
      /\ frames[n].slots < storage =>
           top' = frames[n].slots + 1 /\ storage' = storage
  BY <1>1, <1>3, PushOnProperties
<1> HIDE DEF n
<1>9. TypeOK'
  <2>1. Len(frames') <= FrameLimit
    BY <1>3, <1>5, SessionAssumption
  <2>2. QED
    BY <1>1, <1>2, <1>5, <1>7, <1>8, <2>1 DEF IInv, TypeOK, EditorInv
<1>10. FramesInv' /\ ExitInv'
  BY <1>1 DEF IInv, FramesInv, CrashesOnlyWithFramesFull, ExitInv,
     ExitCodeIsTheOutcome
<1>11. RunInv'
  <2>1. \A i \in 1 .. n - 1 : i \in 1 .. n
    BY <1>3
  <2>2. n - 1 \in 1 .. n /\ 1 \in 1 .. n - 1 /\ n - 1 >= 1
    BY <1>3
  <2>3. heights[n - 1] + 1 >= 1
    BY <1>6, <2>2
  <2>4. \A i \in 1 .. n - 1 : heights'[i] >= 1
    BY <1>6, <1>7, <2>1, <2>3
  <2>5. \A i \in 1 .. n - 1 : frames'[i].closure
    BY <1>5, <1>6, <2>1
  <2>6. frames'[1].slots = 0
    BY <1>5, <1>6, <2>2
  <2>7. QED
    BY <1>1, <1>5, <1>6, <1>7, <2>2, <2>4, <2>5, <2>6 DEF RunInv, CanReport, depth
<1>12. StorageInv'
  <2>1. SUFFICES ASSUME ~ wide' PROVE StorageInv'
    BY DEF StorageInv
  <2>2. /\ storage = FrameLimit * FrameSize
        /\ \A i \in 1 .. n - 1 :
             /\ heights[i] < FrameSize
             /\ frames[i + 1].slots = frames[i].slots + heights[i]
        /\ \A i \in 1 .. n : frames[i].slots <= (i - 1) * FrameSize
        /\ frames[n].slots + FrameSize <= storage
    BY <1>1, <1>3, <2>1, Narrow DEF IInv, StorageInv, n
  <2>3. top' = frames[n].slots + 1 /\ storage' = storage
    <3>1. frames[n].slots < storage
      BY <1>3, <2>2, SessionAssumption DEF IInv, TypeOK
    <3>2. QED
      BY <1>8, <3>1
  <2>4. n - 1 \in 1 .. n - 1 /\ n - 1 \in 1 .. n /\ (n - 1) + 1 = n
    BY <1>3
  <2>5. frames[n].slots = frames[n - 1].slots + heights[n - 1]
    BY <2>2, <2>4
  <2>6. heights'[n - 1] = heights[n - 1] + 1 /\ frames'[n - 1] = frames[n - 1]
    BY <1>5, <1>7, <2>4
  <2>7. top' = frames'[n - 1].slots + heights'[n - 1]
    <3>1. frames[n - 1].slots \in Nat /\ heights[n - 1] \in Nat
      BY <1>1, <1>6, <2>4, Running DEF n
    <3>2. QED
      BY <2>3, <2>5, <2>6, <3>1
  <2>8. heights'[n - 1] <= FrameSize
    BY <1>6, <2>2, <2>4, <2>6, SessionAssumption
  <2>9. \A i \in 1 .. (n - 1) - 1 :
          /\ heights'[i] < FrameSize
          /\ frames'[i + 1].slots = frames'[i].slots + heights'[i]
    <3>1. SUFFICES ASSUME NEW i \in 1 .. (n - 1) - 1
                   PROVE  /\ heights'[i] < FrameSize
                          /\ frames'[i + 1].slots = frames'[i].slots + heights'[i]
      OBVIOUS
    <3>2. i \in 1 .. n - 1 /\ i + 1 \in 1 .. n - 1 /\ i # n - 1
      BY <1>3
    <3>3. QED
      BY <1>5, <1>7, <2>2, <3>2
  <2>10. \A i \in 1 .. n - 1 : frames'[i].slots <= (i - 1) * FrameSize
    <3>1. \A i \in 1 .. n - 1 : i \in 1 .. n
      BY <1>3
    <3>2. QED
      BY <1>5, <2>2, <3>1
  <2>11. QED
    BY <1>1, <1>5, <1>7, <2>2, <2>3, <2>7, <2>8, <2>9, <2>10 DEF StorageInv
<1>13. QED
  BY <1>2, <1>9, <1>10, <1>11, <1>12 DEF IInv

LEMMA OpReturnKeeps == ASSUME IInv, OpReturn PROVE IInv'
<1>1. vm = "running" /\ Held > 1 /\ UNCHANGED file
  BY DEF OpReturn
<1>2. CASE top = 0
  <2>1. /\ vm' = "undefined"
        /\ UNCHANGED <<editorVars, machine, status, counts>>
    BY <1>2 DEF OpReturn
  <2>2. wide
    <3>1. ASSUME ~ wide PROVE FALSE
      <4>1. /\ top = frames[depth].slots + Held /\ frames[depth].slots \in Nat
            /\ Held \in Nat
        BY <1>1, <3>1, Narrow, Running
      <4>2. QED
        BY <1>1, <1>2, <4>1
    <3>2. QED
      BY <3>1
  <2>3. EditorInv'
    BY <2>1, SameEditor DEF IInv
  <2>4. /\ top \in Nat /\ storage \in Nat /\ heights \in Seq(Nat)
        /\ wide \in BOOLEAN
    BY DEF IInv, TypeOK
  <2>5. QED
    BY <1>1, <2>1, <2>2, <2>3, <2>4, UndefinedKeeps DEF counts, machine
<1>3. CASE top # 0
  BY <1>3, EndOfMainKeeps, LeaveFrameKeeps
<1>4. QED
  BY <1>2, <1>3

LEMMA StutterKeeps == ASSUME IInv, UNCHANGED vars PROVE IInv'
<1>1. EditorInv'
  BY SameEditor DEF IInv, vars
<1>2. TypeOK'
  BY <1>1 DEF IInv, TypeOK, EditorInv, vars, machine, counts
<1>3. FramesInv' /\ RunInv' /\ StorageInv' /\ ExitInv'
  BY DEF IInv, FramesInv, RunInv, StorageInv, ExitInv, CanReport, depth,
     CrashesOnlyWithFramesFull, ExitCodeIsTheOutcome, vars, machine, counts
<1>4. QED
  BY <1>1, <1>2, <1>3 DEF IInv

LEMMA NextKeeps == IInv /\ [Next]_vars => IInv'
<1>1. SUFFICES ASSUME IInv, [Next]_vars PROVE IInv'
  OBVIOUS
<1>2. CASE UNCHANGED vars
  BY <1>1, <1>2, StutterKeeps
<1>3. CASE Next
  BY <1>1, <1>3, CommandLineKeeps, EditLineKeeps, BeginInterpretKeeps,
     RunMainKeeps, CompileFailsKeeps, PushesKeeps, PopsValueKeeps,
     OpReturnKeeps, RuntimeErrorKeeps, CallKeeps DEF Next
<1>4. QED
  BY <1>1, <1>2, <1>3

(***************************************************************************)
(* The theorems                                                            *)
(***************************************************************************)
(* The strengthening holds in every session.                               *)
THEOREM Inductive == Spec => []IInv
BY InitIInv, NextKeeps, PTL DEF Spec

(* Types, the cursor in its line, and no more frames than the vm reserves, *)
(* for lines, histories and limits of any size.                            *)
THEOREM TypeCorrect == Spec => []TypeOK
<1>1. IInv => TypeOK
  BY DEF IInv
<1>2. QED
  BY <1>1, Inductive, PTL

(* With a line in the history no keys lead outside it (repl.cpp:161-183).  *)
THEOREM HistoryIsSafe == Spec => []ReadsOutsideOnlyWhenEmpty
<1>1. IInv => ReadsOutsideOnlyWhenEmpty
  BY Lengths, EditorAssumption
  DEF IInv, EditorInv, IndexInv, ReadsOutsideOnlyWhenEmpty
<1>2. QED
  BY <1>1, Inductive, PTL

(* Each line that does not compile leaves a frame (vm.cpp:1127).           *)
THEOREM FramesAccounted == Spec => []FramesAreAccountedFor
<1>1. IInv => FramesAreAccountedFor
  BY DEF IInv, FramesInv, Least, FramesAreAccountedFor
<1>2. QED
  BY <1>1, Inductive, PTL

(* Nothing else makes runtime_error follow a frame without a closure, in   *)
(* programs that pop nothing below the compiler's count.                   *)
THEOREM CrashesExplained == Spec => []CrashesOnlyWithFramesFull
<1>1. IInv => CrashesOnlyWithFramesFull
  BY DEF IInv, FramesInv
<1>2. QED
  BY <1>1, Inductive, PTL

(* A line that compiles gets rid of them before it runs (vm.cpp:1139).     *)
THEOREM OwnFrames == Spec => []RunsInItsOwnFrames
<1>1. IInv => RunsInItsOwnFrames
  BY DEF IInv, RunInv, CanReport, RunsInItsOwnFrames
<1>2. QED
  BY <1>1, Inductive, PTL

(* s_stack_base_size is enough for every program whose frames hold at most *)
(* FrameSize values and that pop nothing below the compiler's count        *)
(* (vm.hpp:34-44, 456).                                                    *)
THEOREM StorageIsEnough == Spec => []StorageSuffices
<1>1. IInv => StorageSuffices
  <2>1. SUFFICES ASSUME IInv, vm = "running", ~ wide PROVE StorageSuffices
    BY DEF StorageSuffices
  <2>2. depth = Len(heights)
    BY <2>1, Running
  <2>3. QED
    BY <2>1, <2>2, Narrow DEF IInv, StorageInv, StorageSuffices
<1>2. QED
  BY <1>1, Inductive, PTL

(* When main returns, FILE_ERROR is its answer exactly when a check of the *)
(* runner's refused the file; a file that passes the checks and cannot be  *)
(* opened is a compile_error, and one that exists throws for has no answer *)
(* (runner.cpp:18-41, main.cpp:172-211).                                   *)
THEOREM ExitCodeIsRight == Spec => []ExitCodeIsTheOutcome
<1>1. IInv => ExitCodeIsTheOutcome
  BY DEF IInv, ExitInv
<1>2. QED
  BY <1>1, Inductive, PTL

(***************************************************************************)
(* The editor is a text with a place in it                                 *)
(***************************************************************************)
(* The two sides of the cursor.                                            *)
LEMMA Sides ==
  ASSUME EditorInv
  PROVE  LET u == SubSeq(buff, 1, cursor)
             v == SubSeq(buff, cursor + 1, Len(buff))
         IN  /\ u \in Seq(Letters) /\ Len(u) = cursor
             /\ v \in Seq(Letters) /\ u \o v = buff
             /\ cursor \in Nat /\ Len(buff) \in Nat
<1>1. buff \in Seq(Letters) /\ cursor \in 0 .. Len(buff) /\ cursor \in Nat
      /\ Len(buff) \in Nat
  BY Lengths DEF EditorInv, EditorTypeOK
<1>2. QED
  BY <1>1, CutInTwo

(* A line put together of two sides is cut between them.                   *)
LEMMA CutBetween ==
  ASSUME NEW u \in Seq(Letters), NEW v \in Seq(Letters),
         buff' = u \o v, cursor' = Len(u)
  PROVE  /\ SubSeq(buff, 1, cursor)' = u
         /\ SubSeq(buff, cursor + 1, Len(buff))' = v
BY PartsOfConcat

(* While a line is read, the text is the buffer.                           *)
LEMMA Reading ==
  ASSUME EditorInv, NEW k, Key(k), UNCHANGED reader
  PROVE  /\ text = buff /\ place = cursor
         /\ text' = buff' /\ place' = cursor'
BY DEF Key, text, place

(* The parts an insertion puts together.                                   *)
LEMMA InsertedBetween ==
  ASSUME NEW s, NEW p, NEW e, NEW q, p - 1 = q
  PROVE  InsertAt(s, p, e) = (SubSeq(s, 1, q) \o <<e>>) \o SubSeq(s, p, Len(s))
BY DEF InsertAt

LEMMA InsertWrites == ASSUME EditorInv, Insert PROVE Cursor!Write
<1> DEFINE u == SubSeq(buff, 1, cursor)
           v == SubSeq(buff, cursor + 1, Len(buff))
<1>1. PICK c \in Letters : buff' = InsertAt(buff, cursor + 1, c)
  BY DEF Insert
<1>2. /\ u \in Seq(Letters) /\ Len(u) = cursor /\ v \in Seq(Letters)
      /\ cursor \in Nat
  BY Sides
<1>3. buff' = (u \o <<c>>) \o v
  <2>1. (cursor + 1) - 1 = cursor
    BY <1>2
  <2>2. InsertAt(buff, cursor + 1, c) =
          (SubSeq(buff, 1, cursor) \o <<c>>) \o SubSeq(buff, cursor + 1, Len(buff))
    BY <2>1, InsertedBetween
  <2>3. QED
    BY <1>1, <2>2
<1> HIDE DEF u, v
<1>4. /\ u \o <<c>> = Append(u, c) /\ Append(u, c) \in Seq(Letters)
      /\ Len(Append(u, c)) = cursor + 1
  BY <1>2, AppendProperties, AppendIsConcat
<1>5. cursor' = Len(Append(u, c)) /\ buff' = Append(u, c) \o v
  BY <1>3, <1>4 DEF Insert
<1>6. /\ SubSeq(buff, 1, cursor)' = Append(u, c)
      /\ SubSeq(buff, cursor + 1, Len(buff))' = v
  BY <1>2, <1>4, <1>5, CutBetween
<1>7. /\ text = buff /\ place = cursor /\ text' = buff' /\ place' = cursor'
      /\ UNCHANGED history
  BY Reading DEF Insert
<1>8. QED
  BY <1>6, <1>7 DEF Cursor!Write, u, v

LEMMA LeftMovesBack ==
  ASSUME EditorInv, Left
  PROVE  Cursor!MoveBack \/ UNCHANGED Cursor!vars
<1>1. /\ text = buff /\ place = cursor /\ text' = buff' /\ place' = cursor'
      /\ UNCHANGED <<history, buff>>
  BY Reading DEF Left
<1>2. CASE cursor > 0
  <2>1. /\ buff \in Seq(Letters) /\ cursor \in 1 .. Len(buff)
        /\ cursor' = cursor - 1 /\ (cursor - 1) + 1 = cursor
    BY <1>2, Lengths DEF EditorInv, EditorTypeOK, Left
  <2>2. /\ buff[cursor] \in Letters
        /\ SubSeq(buff, 1, cursor) =
             Append(SubSeq(buff, 1, cursor - 1), buff[cursor])
        /\ SubSeq(buff, cursor, Len(buff)) =
             <<buff[cursor]>> \o SubSeq(buff, cursor + 1, Len(buff))
    BY <2>1, MoveCut
  <2>3. QED
    BY <1>1, <2>1, <2>2 DEF Cursor!MoveBack
<1>3. CASE ~ (cursor > 0)
  BY <1>1, <1>3 DEF Left, Cursor!vars
<1>4. QED
  BY <1>2, <1>3

LEMMA RightMovesOn ==
  ASSUME EditorInv, Right
  PROVE  Cursor!MoveOn \/ UNCHANGED Cursor!vars
<1>1. /\ text = buff /\ place = cursor /\ text' = buff' /\ place' = cursor'
      /\ UNCHANGED <<history, buff>>
  BY Reading DEF Right
<1>2. CASE cursor < Len(buff)
  <2>1. /\ buff \in Seq(Letters) /\ cursor + 1 \in 1 .. Len(buff)
        /\ cursor' = cursor + 1 /\ (cursor + 1) - 1 = cursor
    BY <1>2, Lengths DEF EditorInv, EditorTypeOK, Right
  <2>2. /\ buff[cursor + 1] \in Letters
        /\ SubSeq(buff, 1, cursor + 1) =
             Append(SubSeq(buff, 1, (cursor + 1) - 1), buff[cursor + 1])
        /\ SubSeq(buff, cursor + 1, Len(buff)) =
             <<buff[cursor + 1]>> \o SubSeq(buff, (cursor + 1) + 1, Len(buff))
    BY <2>1, MoveCut
  <2>3. QED
    BY <1>1, <2>1, <2>2 DEF Cursor!MoveOn
<1>3. CASE ~ (cursor < Len(buff))
  BY <1>1, <1>3 DEF Right, Cursor!vars
<1>4. QED
  BY <1>2, <1>3

LEMMA BackspaceErases ==
  ASSUME EditorInv, Backspace
  PROVE  Cursor!EraseBefore \/ UNCHANGED Cursor!vars
<1>1. /\ text = buff /\ place = cursor /\ text' = buff' /\ place' = cursor'
      /\ UNCHANGED history
  BY Reading DEF Backspace
<1>2. CASE cursor > 0
  <2> DEFINE u == SubSeq(buff, 1, cursor - 1)
             v == SubSeq(buff, cursor + 1, Len(buff))
  <2>1. /\ buff \in Seq(Letters) /\ cursor \in 1 .. Len(buff)
        /\ cursor - 1 \in 0 .. Len(buff)
    BY <1>2, Lengths DEF EditorInv, EditorTypeOK
  <2>2. /\ buff[cursor] \in Letters
        /\ SubSeq(buff, 1, cursor) = Append(u, buff[cursor])
    BY <2>1, MoveCut
  <2>3. u \in Seq(Letters) /\ Len(u) = cursor - 1
    BY <2>1, TakePrefix
  <2>4. v \in Seq(Letters)
    BY Sides
  <2>5. buff' = u \o v /\ cursor' = Len(u)
    BY <1>2, <2>3 DEF Backspace, RemoveAt
  <2> HIDE DEF u, v
  <2>6. /\ SubSeq(buff, 1, cursor)' = u
        /\ SubSeq(buff, cursor + 1, Len(buff))' = v
    BY <2>3, <2>4, <2>5, CutBetween
  <2>7. QED
    BY <1>1, <2>2, <2>6 DEF Cursor!EraseBefore, v
<1>3. CASE ~ (cursor > 0)
  BY <1>1, <1>3 DEF Backspace, Cursor!vars
<1>4. QED
  BY <1>2, <1>3

LEMMA DeleteErases ==
  ASSUME EditorInv, Delete
  PROVE  Cursor!EraseAfter \/ UNCHANGED Cursor!vars
<1>1. /\ text = buff /\ place = cursor /\ text' = buff' /\ place' = cursor'
      /\ UNCHANGED <<history, cursor>>
  BY Reading DEF Delete
<1>2. CASE Len(buff) > cursor
  <2> DEFINE u == SubSeq(buff, 1, cursor)
             v == SubSeq(buff, (cursor + 1) + 1, Len(buff))
  <2>1. /\ buff \in Seq(Letters) /\ cursor + 1 \in 1 .. Len(buff)
        /\ cursor + 1 \in 0 .. Len(buff) /\ (cursor + 1) - 1 = cursor
    BY <1>2, Lengths DEF EditorInv, EditorTypeOK
  <2>2. /\ buff[cursor + 1] \in Letters
        /\ SubSeq(buff, cursor + 1, Len(buff)) = <<buff[cursor + 1]>> \o v
    BY <2>1, MoveCut
  <2>3. u \in Seq(Letters) /\ Len(u) = cursor
    BY Sides
  <2>4. v \in Seq(Letters)
    BY <2>1, DropPrefix
  <2>5. buff' = u \o v /\ cursor' = Len(u)
    BY <1>1, <1>2, <2>1, <2>3 DEF Delete, RemoveAt
  <2> HIDE DEF u, v
  <2>6. /\ SubSeq(buff, 1, cursor)' = u
        /\ SubSeq(buff, cursor + 1, Len(buff))' = v
    BY <2>3, <2>4, <2>5, CutBetween
  <2>7. QED
    BY <1>1, <2>2, <2>6 DEF Cursor!EraseAfter, u
<1>3. CASE ~ (Len(buff) > cursor)
  BY <1>1, <1>3 DEF Delete, Cursor!vars
<1>4. QED
  BY <1>2, <1>3

(* What is recalled is an entry of the history or an empty line.           *)
LEMMA Recalls ==
  ASSUME EditorInv, UNCHANGED history, text' = buff', place' = cursor',
         \/ \E n \in 1 .. Len(history) :
              buff' = history[n] /\ cursor' = Len(history[n])
         \/ buff' = <<>> /\ cursor' = 0
  PROVE  Cursor!Recall
<1>1. PICK l \in Seq(Letters) : /\ buff' = l /\ cursor' = Len(l)
                               /\ l \in Cursor!Lines \cup {<<>>}
  <2>1. CASE buff' = <<>> /\ cursor' = 0
    BY <2>1, EmptySeq
  <2>2. ASSUME NEW n \in 1 .. Len(history),
               buff' = history[n] /\ cursor' = Len(history[n])
        PROVE  \E l \in Seq(Letters) : /\ buff' = l /\ cursor' = Len(l)
                                       /\ l \in Cursor!Lines \cup {<<>>}
    <3>1. history[n] \in Seq(Letters) /\ history[n] \in Cursor!Lines
      BY Lengths DEF EditorInv, Cursor!Lines
    <3>2. QED
      BY <2>2, <3>1
  <2>3. QED
    BY <2>1, <2>2
<1>2. <<>> \in Seq(Letters) /\ l \o <<>> = l
  BY EmptySeq, ConcatEmptySeq
<1>3. buff' = l \o <<>> /\ cursor' = Len(l)
  BY <1>1, <1>2
<1>4. /\ SubSeq(buff, 1, cursor)' = l
      /\ SubSeq(buff, cursor + 1, Len(buff))' = <<>>
  BY <1>2, <1>3, CutBetween
<1>5. QED
  BY <1>1, <1>4 DEF Cursor!Recall

LEMMA UpRecalls ==
  ASSUME EditorInv, Up
  PROVE  Cursor!Recall \/ UNCHANGED Cursor!vars
<1>1. reader = "reading" /\ UNCHANGED history
  BY DEF Up, Key
<1>2. /\ reader' \in {"reading", "undefined"}
      /\ \/ UNCHANGED <<buff, cursor>>
         \/ \E n \in 1 .. Len(history) :
              buff' = history[n] /\ cursor' = Len(history[n])
  BY <1>1 DEF Up, ShowsEntry, line
<1>3. text = buff /\ place = cursor /\ text' = buff' /\ place' = cursor'
  BY <1>1, <1>2 DEF text, place
<1>4. CASE UNCHANGED <<buff, cursor>>
  BY <1>1, <1>3, <1>4 DEF Cursor!vars
<1>5. CASE \E n \in 1 .. Len(history) :
             buff' = history[n] /\ cursor' = Len(history[n])
  BY <1>1, <1>3, <1>5, Recalls
<1>6. QED
  BY <1>2, <1>4, <1>5

LEMMA DownRecalls ==
  ASSUME EditorInv, Down
  PROVE  Cursor!Recall \/ UNCHANGED Cursor!vars
<1>1. reader = "reading" /\ UNCHANGED history
  BY DEF Down, Key
<1>2. /\ reader' \in {"reading", "undefined"}
      /\ \/ UNCHANGED <<buff, cursor>>
         \/ buff' = <<>> /\ cursor' = 0
         \/ \E n \in 1 .. Len(history) :
              buff' = history[n] /\ cursor' = Len(history[n])
  BY <1>1 DEF Down, ShowsEntry, ShowsNothing
<1>3. text = buff /\ place = cursor /\ text' = buff' /\ place' = cursor'
  BY <1>1, <1>2 DEF text, place
<1>4. CASE UNCHANGED <<buff, cursor>>
  BY <1>1, <1>3, <1>4 DEF Cursor!vars
<1>5. CASE \/ buff' = <<>> /\ cursor' = 0
           \/ \E n \in 1 .. Len(history) :
                buff' = history[n] /\ cursor' = Len(history[n])
  BY <1>1, <1>3, <1>5, Recalls
<1>6. QED
  BY <1>2, <1>4, <1>5

(* The whole line is entered, and the text is empty.                       *)
LEMMA EnterEnters == ASSUME EditorInv, Enter PROVE Cursor!EnterLine
<1>1. /\ history' = Append(history, buff) /\ reader' = "entered"
      /\ reader = "reading"
  BY DEF Enter, Key
<1>2. /\ text = buff /\ place = cursor
      /\ text' = <<>> /\ place' = 0 /\ Len(<<>>) = 0
  BY <1>1 DEF text, place
<1>3. SubSeq(buff, 1, cursor) \o SubSeq(buff, cursor + 1, Len(buff)) = buff
  BY Sides
<1>4. SubSeq(<<>>, 1, 0) = <<>> /\ SubSeq(<<>>, 0 + 1, 0) = <<>>
  OBVIOUS
<1>5. QED
  BY <1>1, <1>2, <1>3, <1>4 DEF Cursor!EnterLine

(* The next line begins as the text that was left.                         *)
LEMMA ReadLineStutters ==
  ASSUME EditorInv, reader = "entered", ReadLine
  PROVE  UNCHANGED Cursor!vars
BY DEF ReadLine, text, place, Cursor!vars

LEMMA EditRefines ==
  ASSUME EditorInv, Edit
  PROVE  Cursor!Next \/ UNCHANGED Cursor!vars
<1>1. ASSUME AwaitByte \/ ReadNothing \/ Ignored
      PROVE  UNCHANGED Cursor!vars
  BY <1>1 DEF AwaitByte, ReadNothing, Ignored, line, text, place, Cursor!vars
<1>2. ASSUME Eof PROVE UNCHANGED Cursor!vars
  BY <1>2 DEF Eof, Key, line, text, place, Cursor!vars
<1>3. QED
  BY <1>1, <1>2, InsertWrites, LeftMovesBack, RightMovesOn, BackspaceErases,
     DeleteErases, UpRecalls, DownRecalls, EnterEnters DEF Edit, Cursor!Next

(* Outside the editor only interpret's return changes it, and it returns   *)
(* when a line has been entered, or there is no editor.                    *)
AwaitsResult ==
  file = "none" /\ vm \in {"called", "compiling", "running"} =>
    reader = "entered"

LEMMA SameText == UNCHANGED editorVars => UNCHANGED Cursor!vars
BY DEF editorVars, line, text, place, Cursor!vars

LEMMA ReturnedStutters ==
  ASSUME EditorInv, AwaitsResult, vm \in {"called", "compiling", "running"},
         NEW res, Returned(res)
  PROVE  UNCHANGED Cursor!vars
<1>1. CASE file = "none"
  BY <1>1, ReadLineStutters DEF AwaitsResult, Returned
<1>2. CASE file # "none"
  BY <1>2, SameText DEF Returned
<1>3. QED
  BY <1>1, <1>2

LEMMA FailsStutters ==
  ASSUME EditorInv, AwaitsResult, vm = "running", Fails
  PROVE  UNCHANGED Cursor!vars /\ vm' \notin {"called", "compiling", "running"}
<1>1. CASE CanReport
  <2>1. Returned("runtime_error")
    BY <1>1 DEF Fails
  <2>2. QED
    BY <2>1, ReturnedStutters DEF Returned, Exit
<1>2. CASE ~ CanReport
  BY <1>2, SameText DEF Fails
<1>3. QED
  BY <1>1, <1>2

(* Steps that leave the editor alone, and steps in which interpret returns.*)
LEMMA SessionStutters ==
  ASSUME EditorInv, AwaitsResult, Next, ~ EditLine
  PROVE  UNCHANGED Cursor!vars /\ AwaitsResult'
<1>1. ASSUME StartRepl \/ RunFile \/ LineEntered \/ EndOfSession
      PROVE  UNCHANGED Cursor!vars /\ AwaitsResult'
  BY <1>1, SameText DEF StartRepl, RunFile, LineEntered, EndOfSession, Exit,
     AwaitsResult, editorVars
<1>2. ASSUME BeginInterpret \/ RunMain \/ Pushes \/ PopsValue
      PROVE  UNCHANGED Cursor!vars /\ AwaitsResult'
  BY <1>2, SameText DEF BeginInterpret, RunMain, Pushes, PopsValue,
     AwaitsResult, editorVars
<1>3. ASSUME NEW res, CompileFails(res)
      PROVE  UNCHANGED Cursor!vars /\ AwaitsResult'
  BY <1>3, ReturnedStutters DEF CompileFails, Returned, Exit, AwaitsResult
<1>4. ASSUME RuntimeError
      PROVE  UNCHANGED Cursor!vars /\ AwaitsResult'
  BY <1>4, FailsStutters DEF RuntimeError, AwaitsResult
<1>5. ASSUME NEW argc, Call(argc)
      PROVE  UNCHANGED Cursor!vars /\ AwaitsResult'
  <2>1. vm = "running" /\ UNCHANGED file
    BY <1>5 DEF Call
  <2>2. CASE Fails
    BY <2>1, <2>2, FailsStutters DEF AwaitsResult
  <2>3. CASE UNCHANGED editorVars
    BY <2>1, <2>3, SameText DEF AwaitsResult, editorVars
  <2>4. QED
    BY <1>5, <2>2, <2>3 DEF Call
<1>6. ASSUME OpReturn
      PROVE  UNCHANGED Cursor!vars /\ AwaitsResult'
  <2>1. vm = "running" /\ UNCHANGED file
    BY <1>6 DEF OpReturn
  <2>2. CASE Returned("ok")
    BY <2>1, <2>2, ReturnedStutters DEF Returned, Exit, AwaitsResult
  <2>3. CASE UNCHANGED editorVars
    BY <2>1, <2>3, SameText DEF AwaitsResult, editorVars
  <2>4. QED
    BY <1>6, <2>2, <2>3 DEF OpReturn
<1>7. QED
  BY <1>1, <1>2, <1>3, <1>4, <1>5, <1>6 DEF Next

LEMMA NextRefines ==
  IInv /\ AwaitsResult /\ [Next]_vars =>
    [Cursor!Next]_(Cursor!vars) /\ AwaitsResult'
<1>1. SUFFICES ASSUME IInv, AwaitsResult, [Next]_vars
               PROVE  [Cursor!Next]_(Cursor!vars) /\ AwaitsResult'
  OBVIOUS
<1>2. EditorInv
  BY <1>1 DEF IInv
<1>3. CASE EditLine
  <2>1. vm = "idle" /\ Edit /\ UNCHANGED vm
    BY <1>3 DEF EditLine
  <2>2. QED
    BY <1>2, <2>1, EditRefines DEF AwaitsResult
<1>4. CASE Next /\ ~ EditLine
  BY <1>1, <1>2, <1>4, SessionStutters
<1>5. CASE UNCHANGED vars
  BY <1>1, <1>5, SameText DEF vars, editorVars, AwaitsResult
<1>6. QED
  BY <1>1, <1>3, <1>4, <1>5

LEMMA InitRefines == Init => Cursor!Init /\ AwaitsResult
<1>1. SUFFICES ASSUME Init PROVE Cursor!Init /\ AwaitsResult
  OBVIOUS
<1>2. text = <<>> /\ place = 0 /\ history = <<>> /\ Len(<<>>) = 0
  BY <1>1 DEF Init, EditorInit, text, place
<1>3. SubSeq(<<>>, 1, 0) = <<>> /\ SubSeq(<<>>, 0 + 1, 0) = <<>>
  OBVIOUS
<1>4. QED
  BY <1>1, <1>2, <1>3 DEF Init, Cursor!Init, AwaitsResult

(* Sessions with lines and histories of any length refine the text with a  *)
(* place in it (repl.cpp:117-217).                                         *)
THEOREM EditorRefines == Spec => ImplementsTextCursor
<1>1. IInv /\ AwaitsResult /\ [Next]_vars =>
        [Cursor!Next]_(Cursor!vars) /\ AwaitsResult'
  BY NextRefines
<1>2. Init => Cursor!Init /\ AwaitsResult
  BY InitRefines
<1>3. QED
  BY <1>1, <1>2, Inductive, PTL DEF Spec, ImplementsTextCursor, Cursor!Spec

(***************************************************************************)
(* Key up goes to older lines, key down to newer ones                      *)
(***************************************************************************)
(* The index and what it last showed, while a line is read: key up shows   *)
(* the entry before the index, key down the one at it, unless the index is *)
(* the last and nothing is shown.                                          *)
ShownInv ==
  reader = "reading" =>
    /\ history = <<>> => shown = 1
    /\ history # <<>> =>
         /\ hist_idx <= shown
         /\ shown <= hist_idx + 1 \/ hist_idx >= Len(history) - 1

LEMMA UpShowsOlder ==
  ASSUME EditorInv, ShownInv, Up
  PROVE  shown' <= shown /\ ShownInv'
<1>1. reader = "reading" /\ UNCHANGED history
  BY DEF Up, Key
<1>2. shown \in Nat /\ hist_idx \in Nat /\ Len(history) \in Nat
  BY Lengths DEF EditorInv, EditorTypeOK
<1>3. CASE UNCHANGED line
  BY <1>1, <1>2, <1>3 DEF line, ShownInv
<1>4. CASE hist_idx > 0 /\ hist_idx \in 1 .. Len(history)
  <2>1. shown' = hist_idx /\ hist_idx' = hist_idx - 1
    BY <1>4 DEF Up, ShowsEntry
  <2>2. history # <<>>
    BY <1>4
  <2>3. QED
    BY <1>1, <1>2, <2>1, <2>2 DEF ShownInv
<1>5. CASE hist_idx > 0 /\ hist_idx \notin 1 .. Len(history)
  <2>1. shown' = shown /\ reader' = "undefined"
    BY <1>5 DEF Up, ShowsEntry
  <2>2. QED
    BY <1>2, <2>1 DEF ShownInv
<1>6. QED
  BY <1>3, <1>4, <1>5 DEF Up, line

LEMMA DownShowsNewer ==
  ASSUME EditorInv, ShownInv, Down
  PROVE  shown' >= shown /\ ShownInv'
<1> DEFINE last == SizeOf(Len(history) - 1)
<1>1. reader = "reading" /\ UNCHANGED history
  BY DEF Down, Key
<1>2. /\ shown \in Nat /\ shown <= Len(history) + 1
      /\ hist_idx \in Nat /\ Len(history) \in Nat
  BY Lengths DEF EditorInv, EditorTypeOK
<1>3. history = <<>> <=> Len(history) = 0
  BY EmptySeq DEF EditorInv, EditorTypeOK
<1>4. /\ Len(history) = 0 => last = SizeMax
      /\ Len(history) > 0 => last = Len(history) - 1
  BY Lengths DEF EditorInv, SizeOf
<1> HIDE DEF last
<1>5. CASE hist_idx > 0 /\ hist_idx < last
  <2>1. Len(history) > 0
    BY <1>1, <1>3, <1>4, <1>5, Lengths DEF EditorInv, IndexInv
  <2>2. hist_idx + 1 \in 1 .. Len(history)
    BY <1>2, <1>4, <1>5, <2>1
  <2>3. hist_idx' = hist_idx + 1 /\ shown' = hist_idx + 1
    BY <1>5, <2>2 DEF Down, ShowsEntry, last
  <2>4. QED
    BY <1>1, <1>2, <1>3, <1>4, <1>5, <2>1, <2>3 DEF ShownInv
<1>6. CASE ~ (hist_idx > 0 /\ hist_idx < last)
  <2>1. hist_idx' = last /\ shown' = Len(history) + 1
    BY <1>6 DEF Down, ShowsNothing, last
  <2>2. QED
    BY <1>1, <1>2, <1>3, <1>4, <2>1 DEF ShownInv
<1>7. QED
  BY <1>5, <1>6

LEMMA ReadLineShows == ASSUME EditorInv, ReadLine PROVE ShownInv'
<1>1. /\ hist_idx' = Len(history) /\ shown' = Len(history) + 1
      /\ UNCHANGED history /\ Len(history) \in Nat
  BY Lengths DEF EditorInv, ReadLine
<1>2. history = <<>> <=> Len(history) = 0
  BY EmptySeq DEF EditorInv, EditorTypeOK
<1>3. QED
  BY <1>1, <1>2 DEF ShownInv

LEMMA SameShown == ShownInv /\ UNCHANGED editorVars => ShownInv'
BY DEF ShownInv, editorVars, line

LEMMA EditShows == ASSUME EditorInv, ShownInv, Edit PROVE ShownInv'
<1>1. ASSUME AwaitByte \/ ReadNothing \/ Ignored PROVE ShownInv'
  BY <1>1 DEF AwaitByte, ReadNothing, Ignored, line, ShownInv
<1>2. ASSUME Insert \/ Left \/ Right \/ Backspace \/ Delete PROVE ShownInv'
  BY <1>2 DEF Insert, Left, Right, Backspace, Delete, ShownInv
<1>3. ASSUME Enter \/ Eof PROVE ShownInv'
  BY <1>3 DEF Enter, Eof, ShownInv
<1>4. QED
  BY <1>1, <1>2, <1>3, UpShowsOlder, DownShowsNewer DEF Edit

LEMMA NextShows == IInv /\ ShownInv /\ [Next]_vars => ShownInv'
<1>1. SUFFICES ASSUME IInv, ShownInv, [Next]_vars PROVE ShownInv'
  OBVIOUS
<1>2. EditorInv
  BY <1>1 DEF IInv
<1>3. ASSUME NEW res, Returned(res) PROVE ShownInv'
  BY <1>1, <1>2, <1>3, ReadLineShows, SameShown DEF Returned
<1>4. ASSUME Fails PROVE ShownInv'
  BY <1>1, <1>3, <1>4, SameShown DEF Fails
<1>5. CASE EditLine
  BY <1>1, <1>2, <1>5, EditShows DEF EditLine
<1>6. CASE StartRepl \/ RunFile \/ LineEntered \/ EndOfSession
  BY <1>1, <1>6, SameShown DEF StartRepl, RunFile, LineEntered, EndOfSession
<1>7. CASE BeginInterpret \/ RunMain \/ Pushes \/ PopsValue
  BY <1>1, <1>7, SameShown DEF BeginInterpret, RunMain, Pushes, PopsValue
<1>8. ASSUME NEW res, CompileFails(res) PROVE ShownInv'
  BY <1>3, <1>8 DEF CompileFails
<1>9. CASE RuntimeError
  BY <1>4, <1>9 DEF RuntimeError
<1>10. ASSUME NEW argc, Call(argc) PROVE ShownInv'
  BY <1>1, <1>4, <1>10, SameShown DEF Call
<1>11. CASE OpReturn
  BY <1>1, <1>3, <1>11, SameShown DEF OpReturn
<1>12. CASE UNCHANGED vars
  BY <1>1, <1>12, SameShown DEF vars
<1>13. QED
  BY <1>1, <1>5, <1>6, <1>7, <1>8, <1>9, <1>10, <1>11, <1>12 DEF Next

LEMMA InitShows == Init => ShownInv
BY DEF Init, EditorInit, ShownInv

(* Up to older lines and down to newer ones, in histories of any length    *)
(* (repl.cpp:159-183).                                                     *)
THEOREM UpIsOlderDownIsNewer == Spec => OlderThenNewer
<1>1. IInv /\ ShownInv =>
        [/\ Up => shown' <= shown
         /\ Down => shown' >= shown]_<<line, reader>>
  BY UpShowsOlder, DownShowsNewer DEF IInv
<1>2. QED
  BY <1>1, InitShows, NextShows, Inductive, PTL DEF Spec, OlderThenNewer
=============================================================================
