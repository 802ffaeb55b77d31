------------------------------ MODULE Session ------------------------------
(***************************************************************************)
(* A session of oklang: the REPL, which reads a line, hands it to          *)
(* vm::interpret and reads the next one, or the runner, which interprets   *)
(* one file (main.cpp, repl.cpp, runner.cpp); and what interpret does with *)
(* the call frames and the stack, which survive from line to line          *)
(* (vm.cpp, vm.hpp).                                                       *)
(*                                                                         *)
(* What a program computes is left open: it pushes, pops, calls, returns   *)
(* and fails, in any order the compiler's count of its values allows.      *)
(*                                                                         *)
(* That a program pops nothing below that count is an assumption about the *)
(* code the compiler makes.  "and" and "or" of booleans break it: the vm   *)
(* pops the value they test on both paths (vm.cpp:1749).  What is said     *)
(* here of frames and stack is said of programs without those two.         *)
(***************************************************************************)
EXTENDS LineEditor

CONSTANTS
  FrameLimit,   \* s_call_frame_max_size
  FrameSize,    \* the values s_stack_base_size allows each frame
  MaxValues     \* bound: values on the stack

ASSUME SessionAssumption ==
  /\ FrameLimit \in Nat \ {0} /\ FrameSize \in Nat \ {0}
  /\ MaxValues \in Nat

VARIABLES
  frames,       \* m_call_frames: has it a closure, and where its slots begin
  top,          \* m_stack's m_top
  storage,      \* the size of m_stack's storage
  vm,           \* what the vm is doing
  file,         \* what the command line asks for
  status,       \* what main returns
  heights,      \* bookkeeping: how many values the compiler counts per frame
  wide,         \* bookkeeping: has a frame held more than FrameSize values?
  left,         \* bookkeeping: frames left by the last line that ran
  failed        \* bookkeeping: lines since then that did not compile

machine == <<frames, top, storage>>
counts == <<heights, wide, left, failed>>
vars == <<editorVars, machine, vm, file, status, counts>>

depth == Len(frames)
Frame(slots) == [closure |-> TRUE, slots |-> slots]
Dummy == [closure |-> FALSE, slots |-> 0]

(* interpret_result, and main's FILE_ERROR after it.                       *)
to_utype(res) == CASE res = "ok" -> 0 [] res = "parse_error" -> 1
                   [] res = "compile_error" -> 2 [] res = "runtime_error" -> 3
FILE_ERROR == 4

(***************************************************************************)
(* main, repl::start and runner::start                                     *)
(***************************************************************************)
(* No file, too many, or one: that a check of the runner's refuses (its     *)
(* name is the error's), that exists throws for, because a directory on    *)
(* its path may not be searched, that passes the checks and can still not  *)
(* be opened (only the owner's read bit is looked at), or that is read.    *)
Refused == {"file_not_found", "not_a_file", "no_permission"}
Files == Refused \cup {"none", "many", "unsearchable", "unopened", "text"}

(* A stream that is not open yields the empty text; it has no tokens and   *)
(* compile makes no function of it, without a parse error.                 *)
HasTokens == file # "unopened"

Exit(code) == vm' = "exited" /\ status' = code

(* main without an argument, with a file, and with more than one.          *)
StartRepl ==
  /\ vm = "started" /\ file = "none"
  /\ vm' = "idle"
  /\ UNCHANGED <<editorVars, machine, file, status, counts>>

RunFile ==
  /\ vm = "started" /\ file # "none"
  /\ CASE file \in {"text", "unopened"} -> vm' = "called" /\ UNCHANGED status
       [] file = "many" -> Exit(to_utype("ok"))
       [] file = "unsearchable" -> vm' = "terminated" /\ UNCHANGED status
       [] file \in Refused -> Exit(FILE_ERROR)
  /\ UNCHANGED <<editorVars, machine, file, counts>>

LineEntered ==
  /\ vm = "idle" /\ reader = "entered"
  /\ vm' = "called"
  /\ UNCHANGED <<editorVars, machine, file, status, counts>>

EditLine ==
  /\ vm = "idle" /\ Edit
  /\ UNCHANGED <<machine, vm, file, status, counts>>

EndOfSession ==
  /\ vm = "idle" /\ reader = "ended"
  /\ Exit(to_utype("ok"))
  /\ UNCHANGED <<editorVars, machine, file, counts>>

(* A bug the runs must notice: main drops the runner's result.             *)
ReturnedOk(res) ==
  IF file = "none" THEN /\ vm' = "idle" /\ ReadLine
                        /\ UNCHANGED status
                   ELSE /\ Exit(to_utype("ok"))
                        /\ UNCHANGED editorVars

(* interpret returns: the REPL goes on whatever the result is.             *)
Returned(res) ==
  IF file = "none" THEN /\ vm' = "idle" /\ ReadLine
                        /\ UNCHANGED status
                   ELSE /\ Exit(to_utype(res))
                        /\ UNCHANGED editorVars

(***************************************************************************)
(* stack<T>                                                                *)
(***************************************************************************)
(* A push onto a full storage makes room, and leaves m_top where it is.    *)
PushOn(height) ==
  IF height = storage
  THEN storage' = storage + 1 /\ top' = height
  ELSE top' = height + 1 /\ UNCHANGED storage

(* A pop of an empty stack reads before the storage.                       *)
Pops(height) == IF height > 0 THEN height - 1 ELSE 0

(***************************************************************************)
(* interpret                                                               *)
(***************************************************************************)
(* runtime_error prints the name of each frame's closure.                  *)
CanReport == \A i \in 1 .. depth : frames[i].closure

(* runtime_error, and interpret's return.                                  *)
Fails ==
  /\ IF CanReport THEN Returned("runtime_error")
                  ELSE vm' = "undefined" /\ UNCHANGED <<editorVars, status>>
  /\ heights' = <<>> /\ left' = Len(heights)
  /\ UNCHANGED <<wide, failed>>

(* A bug the runs must notice: one frame less than the limit.              *)
BeginInterpretBelowLimit ==
  /\ vm = "called"
  /\ IF depth + 1 < FrameLimit
     THEN frames' = Append(frames, Dummy) /\ vm' = "compiling"
     ELSE /\ vm' = IF CanReport THEN "compiling" ELSE "undefined"
          /\ UNCHANGED frames
  /\ UNCHANGED <<editorVars, top, storage, file, status, counts>>

(* And one more.                                                           *)
BeginInterpretPastLimit ==
  /\ vm = "called"
  /\ IF depth <= FrameLimit
     THEN frames' = Append(frames, Dummy) /\ vm' = "compiling"
     ELSE /\ vm' = IF CanReport THEN "compiling" ELSE "undefined"
          /\ UNCHANGED frames
  /\ UNCHANGED <<editorVars, top, storage, file, status, counts>>

(* push_call_frame, as the first thing interpret does: what it returns is  *)
(* ignored.                                                                *)
BeginInterpret ==
  /\ vm = "called"
  /\ IF depth < FrameLimit
     THEN frames' = Append(frames, Dummy) /\ vm' = "compiling"
     ELSE /\ vm' = IF CanReport THEN "compiling" ELSE "undefined"
          /\ UNCHANGED frames
  /\ UNCHANGED <<editorVars, top, storage, file, status, counts>>

CompileFails(res) ==
  /\ vm = "compiling"
  /\ HasTokens \/ res = "compile_error"
  /\ Returned(res)
  /\ failed' = failed + 1
  /\ UNCHANGED <<machine, file, heights, wide, left>>

(* A bug the runs must notice: the frames are not cleared.                 *)
RunMainOnTop ==
  /\ vm = "compiling" /\ HasTokens
  /\ frames' = Append(frames, Frame(0))
  /\ PushOn(0)
  /\ vm' = "running"
  /\ heights' = <<1>>
  /\ left' = 0 /\ failed' = 0
  /\ UNCHANGED <<editorVars, file, status, wide>>

(* The frames and the stack are cleared, the script's closure is pushed    *)
(* and its frame entered.                                                  *)
RunMain ==
  /\ vm = "compiling" /\ HasTokens
  /\ frames' = <<Frame(0)>>
  /\ PushOn(0)
  /\ vm' = "running"
  /\ heights' = <<1>>
  /\ left' = 0 /\ failed' = 0
  /\ UNCHANGED <<editorVars, file, status, wide>>

(***************************************************************************)
(* run                                                                     *)
(***************************************************************************)
Held == Last(heights)

Counts(held) == /\ heights' = [heights EXCEPT ![Len(heights)] = held]
                /\ wide' = (wide \/ held > FrameSize)
                /\ UNCHANGED <<left, failed>>

Pushes ==
  /\ vm = "running" /\ top < MaxValues
  /\ PushOn(top)
  /\ Counts(Held + 1)
  /\ UNCHANGED <<editorVars, frames, vm, file, status>>

PopsValue ==
  /\ vm = "running" /\ Held > 1
  /\ top' = Pops(top)
  /\ vm' = IF top > 0 THEN "running" ELSE "undefined"
  /\ Counts(Held - 1)
  /\ UNCHANGED <<editorVars, frames, storage, file, status>>

(* A bug the runs must notice: the frame starts above the callee.          *)
CallAboveCallee(argc) ==
  /\ vm = "running" /\ Held > argc + 1
  /\ IF top <= argc
     THEN /\ vm' = "undefined"
          /\ UNCHANGED <<editorVars, frames, status, counts>>
     ELSE IF depth < FrameLimit
     THEN /\ frames' = Append(frames, Frame(top - argc))
          /\ heights' = Append([heights EXCEPT ![Len(heights)] = @ - argc - 1],
                               argc + 1)
          /\ UNCHANGED <<editorVars, vm, status, wide, left, failed>>
     ELSE Fails /\ UNCHANGED frames
  /\ UNCHANGED <<top, storage, file>>

(* The callee's frame starts at the callee, below its arguments.  With the *)
(* frames used up the call fails.                                          *)
Call(argc) ==
  /\ vm = "running" /\ Held > argc + 1
  /\ IF top <= argc
     THEN /\ vm' = "undefined"
          /\ UNCHANGED <<editorVars, frames, status, counts>>
     ELSE IF depth < FrameLimit
     THEN /\ frames' = Append(frames, Frame(top - argc - 1))
          /\ heights' = Append([heights EXCEPT ![Len(heights)] = @ - argc - 1],
                               argc + 1)
          /\ UNCHANGED <<editorVars, vm, status, wide, left, failed>>
     ELSE Fails /\ UNCHANGED frames
  /\ UNCHANGED <<top, storage, file>>

(* An instruction fails: frames and stack stay as they are.                *)
RuntimeError ==
  /\ vm = "running"
  /\ Fails
  /\ UNCHANGED <<machine, file>>

(* op_return: the frame's values go, and its result takes their place, or  *)
(* the script has ended.                                                   *)
OpReturn ==
  /\ vm = "running" /\ Held > 1
  /\ IF top = 0
     THEN /\ vm' = "undefined"
          /\ UNCHANGED <<editorVars, machine, status, counts>>
     ELSE IF depth = 1
     THEN /\ Returned("ok")
          /\ frames' = <<>>
          /\ top' = frames[depth].slots
          /\ heights' = <<>>
          /\ UNCHANGED <<storage, wide, left, failed>>
     ELSE /\ frames' = Front(frames)
          /\ PushOn(frames[depth].slots)
          /\ heights' = [Front(heights) EXCEPT ![Len(heights) - 1] = @ + 1]
          /\ UNCHANGED <<editorVars, vm, status, wide, left, failed>>
  /\ UNCHANGED file

Init ==
  /\ EditorInit
  /\ frames = <<>> /\ top = 0 /\ storage = FrameLimit * FrameSize
  /\ vm = "started" /\ status = 0
  /\ file \in Files
  /\ heights = <<>> /\ wide = FALSE /\ left = 0 /\ failed = 0

Next ==
  \/ StartRepl \/ RunFile \/ EditLine \/ LineEntered \/ EndOfSession
  \/ BeginInterpret \/ RunMain
  \/ CompileFails("parse_error") \/ CompileFails("compile_error")
  \/ Pushes \/ PopsValue \/ OpReturn \/ RuntimeError
  \/ \E argc \in 0 .. FrameSize - 1 : Call(argc)

Spec == Init /\ [][Next]_vars

(***************************************************************************)
(* Properties                                                              *)
(***************************************************************************)
(* The types, and that there are never more frames than the vm reserves.   *)
TypeOK ==
  /\ EditorTypeOK
  /\ frames \in Seq([closure : BOOLEAN, slots : Nat])
  /\ Len(frames) <= FrameLimit
  /\ top \in Nat /\ storage \in Nat
  /\ vm \in {"started", "idle", "called", "compiling", "running", "exited",
             "terminated", "undefined"}
  /\ file \in Files /\ status \in 0 .. FILE_ERROR
  /\ heights \in Seq(Nat) /\ wide \in BOOLEAN
  /\ left \in Nat /\ failed \in Nat

(* Between lines, the frames there are those the last line that ran left   *)
(* when it failed, and one for each line since then that did not compile,  *)
(* as many as the limit allows (vm.cpp, interpret and runtime_error).      *)
FramesAreAccountedFor ==
  vm \in {"idle", "called"} =>
    Len(frames) = IF left + failed < FrameLimit THEN left + failed
                                                ELSE FrameLimit

(* The vm dereferences the closure of a frame that has none only when      *)
(* lines that did not compile have filled the frames, and otherwise it     *)
(* leaves the stack only in a program too wide for its storage.  This      *)
(* rests on the assumption above that nothing pops below the compiler's    *)
(* count, so it holds of programs without "and" and "or" of booleans.      *)
CrashesOnlyWithFramesFull ==
  vm = "undefined" /\ ~ wide => failed > 0 /\ left + failed >= FrameLimit

(* A line that runs has a frame for each call in progress and no others:   *)
(* what earlier lines left is not returned to.                             *)
RunsInItsOwnFrames ==
  vm = "running" => /\ Len(frames) = Len(heights)
                    /\ \A i \in 1 .. depth : frames[i].closure
                    /\ frames[1].slots = 0

(* s_stack_base_size suffices: as long as no frame held more values than   *)
(* it allows each one, the storage did not grow, each frame begins where   *)
(* the compiler's counts say, and no value was lost (vm.hpp, push).  Like  *)
(* the property before last, it is about programs without "and" and "or".  *)
StorageSuffices ==
  vm = "running" /\ ~ wide =>
    /\ storage = FrameLimit * FrameSize
    /\ \A i \in 1 .. depth - 1 :
         frames[i + 1].slots = frames[i].slots + heights[i]
    /\ top = frames[depth].slots + Held

(* When main returns, it returns 0 when there was nothing to run or the    *)
(* file ran to its end, FILE_ERROR, which no result is, exactly when one   *)
(* of the runner's three checks refused the file, and the result of a file *)
(* that failed.  FILE_ERROR does not say that the file could not be read:  *)
(* one that passes the checks and cannot be opened is a compile_error, and *)
(* main does not return when exists throws (runner.cpp:18-41).             *)
ExitCodeIsTheOutcome ==
  vm = "exited" =>
    /\ file # "unsearchable"
    /\ (status = 0) <=> \/ file \in {"none", "many"}
                        \/ file = "text" /\ left + failed = 0
    /\ (status = FILE_ERROR) <=> file \in Refused
    /\ file = "unopened" => status = to_utype("compile_error")
    /\ file = "text" => (status = to_utype("runtime_error") <=> left > 0)

(* The editor is one text with a place in it: nothing is inserted, erased  *)
(* or entered but what a key says, whichever keys came before.             *)
place == IF reader = "entered" THEN 0 ELSE cursor
text == IF reader = "entered" THEN <<>> ELSE buff

Cursor == INSTANCE TextCursor WITH
  before <- SubSeq(text, 1, place),
  after <- SubSeq(text, place + 1, Len(text)),
  lines <- history

ImplementsTextCursor == Cursor!Spec
=============================================================================
