------------------------------- MODULE Globals -------------------------------
(***************************************************************************)
(* Global variables: the index the compiler gives each global in the       *)
(* identifier table of the chunk it is compiling, the instructions that    *)
(* carry the index, and the virtual machine, which looks the index up in   *)
(* the identifiers of the chunk it is running and the name it finds there  *)
(* in its table of globals (compiler.cpp, chunk.hpp, vm.cpp).              *)
(*                                                                         *)
(* A behaviour is a session of the REPL: every line is compiled, function  *)
(* by function, and then runs.  What the model leaves to chance is what    *)
(* the programs say: any name, any operation, functions nested and called  *)
(* in any order.                                                           *)
(***************************************************************************)
EXTENDS Integers, SequencesExt

CONSTANTS
  Names,            \* what programs call their globals
  Natives,          \* those that vm::init defines
  Values,           \* what a global can hold
  Initially,        \* the value of a native function
  Shared,           \* whether a function and the one around it may share a name
  MaxChunks,        \* bound: functions compiled in a session
  MaxInstructions,  \* bound: instructions compiled in a session
  MaxIdentifiers,   \* bound: identifiers that a session's chunks list
  MaxCalls          \* bound: call depth

ASSUME ConstantsAssumption ==
  /\ Natives \subseteq Names
  /\ Initially \in Values
  /\ Shared \in BOOLEAN
  /\ MaxChunks \in Nat \ {0}
  /\ MaxInstructions \in Nat \ {0}
  /\ MaxIdentifiers \in Nat \ {0}
  /\ MaxCalls \in Nat \ {0}

VARIABLES
  chunks,    \* every function's chunk: its identifiers and its code
  contexts,  \* m_function_contexts: the functions being compiled, innermost last
  indexes,   \* compiler::m_globals: name -> index, with the chunk it belongs to
  table,     \* vm::m_globals: name -> value and flags
  calls,     \* m_call_frames: the chunks being run, and where
  made,      \* the functions op_closure has made closures of
  line,      \* what became of the line: "ok", "error" or "assert"
  done       \* the last instruction that succeeded, as the source has it

vars == <<chunks, contexts, indexes, table, calls, made, line, done>>

Extend(f, n, x) == [k \in DOMAIN f \cup {n} |-> IF k = n THEN x ELSE f[k]]

Compiling == contexts # << >>
Running == ~Compiling /\ calls # << >>

-----------------------------------------------------------------------------
(* The compiler. *)

Context == contexts[Len(contexts)]
Identifiers == chunks[Context.chunk].identifiers

Listed(n) == \E i \in DOMAIN Identifiers : Identifiers[i] = n

(* An instruction names a global by an index, counted from 0.  The model   *)
(* also keeps the name that the source has there.                          *)
Instruction(op, index, name, mutable) ==
  [op |-> op, index |-> index, name |-> name, mutable |-> mutable]

(* op_closure, whose index is the chunk of the function.                   *)
Closure(chunk) == Instruction("closure", chunk, "", FALSE)

EmptyChunk == [identifiers |-> << >>, code |-> << >>]

(* A function being compiled, and the global it defines when done.         *)
FunctionContext(chunk, kind, index, name, mutable) ==
  [chunk |-> chunk, kind |-> kind, index |-> index, name |-> name,
   mutable |-> mutable]

Script(chunk) == FunctionContext(chunk, "script", 0, "", FALSE)

Emit(c, identifiers, code) ==
  [c EXCEPT !.identifiers = @ \o identifiers, !.code = @ \o code]

Room(identifiers, code) ==
  /\ FoldSeq(LAMBDA c, n : Len(c.identifiers) + n, Len(identifiers), chunks)
       <= MaxIdentifiers
  /\ FoldSeq(LAMBDA c, n : Len(c.code) + n, Len(code), chunks)
       <= MaxInstructions

(* New identifiers and instructions for chunk c.                           *)
Write(c, identifiers, code) ==
  /\ Room(identifiers, code)
  /\ chunks' = [chunks EXCEPT ![c] = Emit(@, identifiers, code)]

(* Only identifiers, and a chunk for a new function.                       *)
WriteAndAdd(c, identifiers) ==
  /\ Room(identifiers, << >>)
  /\ chunks' = Append([chunks EXCEPT ![c] = Emit(@, identifiers, << >>)],
                      EmptyChunk)

(* Mutants of NextIndex: the size after the push, and the size before it   *)
(* less one.                                                               *)
SizeAfterPush == Len(Identifiers) + 1
LastIndex == Len(Identifiers) - 1

(* add_identifier returns the index of what it pushes.                     *)
NextIndex == Len(Identifiers)

IndexHere(index) == [index |-> index, chunk |-> Context.chunk]

(* A mutant of MentionIndex: the function's own identifiers are not         *)
(* searched.                                                               *)
MentionKnown(n) == IF n \in DOMAIN indexes THEN indexes[n].index ELSE NextIndex

MentionIndex(n) ==
  IF n \in DOMAIN indexes /\ Listed(n) THEN indexes[n].index ELSE NextIndex

(* get_or_add_global: the global has an index and the function lists its   *)
(* name, or else it is added to the function's identifiers.                *)
MentionAdds(n) == ~(n \in DOMAIN indexes /\ Listed(n))

(* With Shared FALSE, the programs where no function reads or assigns a    *)
(* global again after one nested in it, or the one around it, took the     *)
(* global's index over.                                                    *)
MayMention(n) ==
  Shared \/ (n \in DOMAIN indexes /\ Listed(n) => indexes[n].chunk = Context.chunk)

(* A line of the REPL, or a file: a new compiler, which knows no globals.  *)
StartLine ==
  /\ ~Compiling /\ calls = << >> /\ line # "assert"
  /\ Len(chunks) < MaxChunks
  /\ chunks' = Append(chunks, EmptyChunk)
  /\ contexts' = <<Script(Len(chunks) + 1)>>
  /\ indexes' = [n \in {} |-> 0]
  /\ line' = "ok"
  /\ UNCHANGED <<table, calls, made, done>>

(* "glob let": add_global, and op_define_global.                           *)
DeclareVariable(n, mutable) ==
  /\ Compiling
  /\ Write(Context.chunk, <<n>>, <<Instruction("define", NextIndex, n, mutable)>>)
  /\ indexes' = Extend(indexes, n, IndexHere(NextIndex))
  /\ UNCHANGED <<contexts, table, calls, made, line, done>>

(* A name that is no local and no upvalue: named_variable.                 *)
NamedVariable(n, op) ==
  /\ Compiling /\ MayMention(n)
  /\ Write(Context.chunk, IF MentionAdds(n) THEN <<n>> ELSE << >>,
           <<Instruction(op, MentionIndex(n), n, FALSE)>>)
  /\ indexes' = IF MentionAdds(n)
                THEN Extend(indexes, n, IndexHere(NextIndex)) ELSE indexes
  /\ UNCHANGED <<contexts, table, calls, made, line, done>>

(* The name of a property or of a local class: it goes into the            *)
(* identifiers and m_globals does not hear of it.                          *)
OtherIdentifier(n) ==
  /\ Compiling
  /\ Write(Context.chunk, <<n>>, << >>)
  /\ UNCHANGED <<contexts, indexes, table, calls, made, line, done>>

(* "glob class": its name goes in twice, for op_class and for the global,  *)
(* which is then read back to receive the methods.                         *)
DeclareClass(n, mutable) ==
  /\ Compiling
  /\ Write(Context.chunk, <<n, n>>, <<Instruction("define", NextIndex + 1, n, mutable),
                       Instruction("get", NextIndex + 1, n, FALSE)>>)
  /\ indexes' = Extend(indexes, n, IndexHere(NextIndex + 1))
  /\ UNCHANGED <<contexts, table, calls, made, line, done>>

(* The body of a function is compiled into a chunk of its own.             *)
BeginFunction(identifiers, kind, n, mutable) ==
  /\ Compiling /\ Len(chunks) < MaxChunks
  /\ WriteAndAdd(Context.chunk, identifiers)
  /\ contexts' = Append(contexts,
       FunctionContext(Len(chunks) + 1, kind, NextIndex, n, mutable))
  /\ UNCHANGED <<table, calls, made, line, done>>

BeginLocalFunction ==
  /\ BeginFunction(<< >>, "local", "", FALSE)
  /\ UNCHANGED indexes

(* The name of a method is an identifier of the code around the class.     *)
BeginMethod(n) ==
  /\ BeginFunction(<<n>>, "method", "", FALSE)
  /\ UNCHANGED indexes

(* The index of a "glob fu" is taken before its body is compiled.          *)
BeginGlobalFunction(n, mutable) ==
  /\ BeginFunction(<<n>>, "global", n, mutable)
  /\ indexes' = Extend(indexes, n, IndexHere(NextIndex))

(* The function around it goes on: op_closure, and op_define_global with   *)
(* the index taken before.                                                 *)
EndFunction ==
  LET outer == contexts[Len(contexts) - 1].chunk
      code == <<Closure(Context.chunk)>> \o
              IF Context.kind = "global"
              THEN <<Instruction("define", Context.index, Context.name,
                                 Context.mutable)>>
              ELSE << >>
  IN
  /\ Len(contexts) > 1
  /\ Write(outer, << >>, code)
  /\ contexts' = SubSeq(contexts, 1, Len(contexts) - 1)
  /\ UNCHANGED <<indexes, table, calls, made, line, done>>

(* The line compiles, and its script is called, or it does not.            *)
EndLine ==
  /\ Len(contexts) = 1
  /\ contexts' = << >>
  /\ \/ calls' = <<[chunk |-> Context.chunk, ip |-> 1]>>
     \/ UNCHANGED calls
  /\ UNCHANGED <<chunks, indexes, table, made, line, done>>

-----------------------------------------------------------------------------
(* The virtual machine. *)

Frame == calls[Len(calls)]
Code == chunks[Frame.chunk].code
Current == Code[Frame.ip]
AtInstruction == Running /\ Frame.ip <= Len(Code)

(* read_identifier looks in the chunk of the running function, and asserts *)
(* that the index is in range.                                             *)
InRange == Current.index < Len(chunks[Frame.chunk].identifiers)
Name == chunks[Frame.chunk].identifiers[Current.index + 1]

Reads(op) ==
  AtInstruction /\ Current.op = op /\ InRange

Advance == calls' = [calls EXCEPT ![Len(calls)].ip = @ + 1]

(* A runtime error ends the line; what the globals hold stays.             *)
RuntimeError ==
  /\ calls' = << >>
  /\ line' = "error"
  /\ UNCHANGED <<table, done>>

Compiled == UNCHANGED <<chunks, contexts, indexes>>

OpClosure ==
  /\ AtInstruction /\ Current.op = "closure"
  /\ made' = made \cup {Current.index}
  /\ Advance
  /\ UNCHANGED <<table, line, done>>
  /\ Compiled

OpDefineGlobal(x) ==
  /\ Reads("define")
  /\ IF Name \in DOMAIN table
     THEN RuntimeError
     ELSE /\ table' = Extend(table, Name,
                             [value |-> x, mutable |-> Current.mutable])
          /\ done' = <<"define", Current.name, x>>
          /\ Advance
          /\ UNCHANGED line
  /\ UNCHANGED made
  /\ Compiled

OpGetGlobal ==
  /\ Reads("get")
  /\ IF Name \notin DOMAIN table
     THEN RuntimeError
     ELSE /\ done' = <<"get", Current.name, table[Name].value>>
          /\ Advance
          /\ UNCHANGED <<table, line>>
  /\ UNCHANGED made
  /\ Compiled

(* A mutant of MayAssign: the flag is not looked at.                       *)
MayAssignDefined(n) == n \in DOMAIN table

MayAssign(n) == n \in DOMAIN table /\ table[n].mutable

AssignGlobal(x) ==
  IF MayAssign(Name)
  THEN /\ table' = [table EXCEPT ![Name].value = x]
       /\ done' = <<"set", Current.name, x>>
       /\ Advance
       /\ UNCHANGED line
  ELSE RuntimeError

OpSetGlobal(x) ==
  /\ Reads("set")
  /\ AssignGlobal(x)
  /\ UNCHANGED made
  /\ Compiled

(* The second half of ++, -- and the compound assignments: an operator of  *)
(* the built-in types assigns, one that a class overloads has done so.     *)
OpSetIfGlobal(x) ==
  /\ Reads("set_if")
  /\ \/ AssignGlobal(x)
     \/ Advance /\ UNCHANGED <<table, line, done>>
  /\ UNCHANGED made
  /\ Compiled

(* The assertion in read_identifier.                                       *)
AssertFails ==
  /\ AtInstruction /\ Current.op # "closure" /\ ~InRange
  /\ calls' = << >>
  /\ line' = "assert"
  /\ UNCHANGED <<table, made, done>>
  /\ Compiled

(* A function may be called wherever the program says, once there is a     *)
(* closure of it.                                                          *)
Call(c) ==
  /\ Running /\ Len(calls) < MaxCalls
  /\ calls' = Append(calls, [chunk |-> c, ip |-> 1])
  /\ UNCHANGED <<table, made, line, done>>
  /\ Compiled

Return ==
  /\ Running
  /\ Frame.ip > Len(Code)
  /\ calls' = SubSeq(calls, 1, Len(calls) - 1)
  /\ UNCHANGED <<table, made, line, done>>
  /\ Compiled

-----------------------------------------------------------------------------
Init ==
  /\ chunks = << >>
  /\ contexts = << >>
  /\ indexes = [n \in {} |-> 0]
  /\ table = [n \in Natives |-> [value |-> Initially, mutable |-> FALSE]]
  /\ calls = << >>
  /\ made = {}
  /\ line = "ok"
  /\ done = << >>

CompileStep ==
  \/ StartLine
  \/ \E n \in Names, mutable \in BOOLEAN :
       \/ DeclareVariable(n, mutable)
       \/ DeclareClass(n, mutable)
       \/ BeginGlobalFunction(n, mutable)
  \/ \E n \in Names, op \in {"get", "set", "set_if"} : NamedVariable(n, op)
  \/ \E n \in Names : OtherIdentifier(n) \/ BeginMethod(n)
  \/ BeginLocalFunction
  \/ EndFunction
  \/ EndLine

RunStep ==
  \/ OpClosure
  \/ \E x \in Values : OpDefineGlobal(x) \/ OpSetGlobal(x) \/ OpSetIfGlobal(x)
  \/ OpGetGlobal
  \/ AssertFails
  \/ \E c \in made : Call(c)
  \/ Return

Next == CompileStep \/ RunStep

Spec == Init /\ [][Next]_vars

-----------------------------------------------------------------------------
(***************************************************************************)
(* Properties                                                              *)
(***************************************************************************)
GlobalOps == {"define", "get", "set", "set_if"}

InstructionRecord ==
  [op : GlobalOps \cup {"closure"}, index : Nat, name : Names \cup {""},
   mutable : BOOLEAN]

ChunkRecord == [identifiers : Seq(Names), code : Seq(InstructionRecord)]

ContextRecord ==
  [chunk : DOMAIN chunks, kind : {"script", "local", "global", "method"},
   index : Nat, name : Names \cup {""}, mutable : BOOLEAN]

CallRecord == [chunk : DOMAIN chunks, ip : Nat \ {0}]

(* Every variable has its type.                                            *)
TypeOK ==
  /\ chunks \in Seq(ChunkRecord)
  /\ contexts \in Seq(ContextRecord)
  /\ DOMAIN indexes \subseteq Names
  /\ indexes \in [DOMAIN indexes -> [index : Nat, chunk : DOMAIN chunks]]
  /\ DOMAIN table \subseteq Names
  /\ table \in [DOMAIN table -> [value : Values, mutable : BOOLEAN]]
  /\ calls \in Seq(CallRecord)
  /\ made \subseteq DOMAIN chunks
  /\ line \in {"ok", "error", "assert"}

(* The identifier at index i of chunk c is n.                              *)
IsIndexOf(c, i, n) ==
  /\ i < Len(chunks[c].identifiers)
  /\ chunks[c].identifiers[i + 1] = n

NamesItsGlobal(c, ops) ==
  \A k \in DOMAIN chunks[c].code :
    LET i == chunks[c].code[k] IN i.op \in ops => IsIndexOf(c, i.index, i.name)

(* Every op_define_global, wherever its index was taken and however much   *)
(* was compiled since, finds the global it defines at that index of the    *)
(* chunk it runs in.                                                       *)
DefinitionsNameTheirGlobal ==
  \A c \in DOMAIN chunks : NamesItsGlobal(c, {"define"})

(* So does every instruction that reads or assigns a global, in programs   *)
(* where nested functions do not share their globals: m_globals has one    *)
(* index for a name, and each chunk needs its own.                         *)
MentionsNameTheirGlobal ==
  ~Shared => \A c \in DOMAIN chunks : NamesItsGlobal(c, GlobalOps)

(* The assertion in read_identifier (vm.cpp:2079) never fails: every index *)
(* that is run is an index of the running function's identifiers.          *)
IndexInRange == line # "assert"

-----------------------------------------------------------------------------
CONSTANT Undefined

ASSUME UndefinedAssumption == Undefined \notin [value : Values, mutable : BOOLEAN]

Variables == INSTANCE GlobalVariables WITH
  val <- [n \in Names |-> IF n \in DOMAIN table THEN table[n] ELSE Undefined]

(* Refinement: the indexes, the chunks and the table implement global      *)
(* variables.                                                              *)
ImplementsGlobalVariables == Variables!Spec
=============================================================================
