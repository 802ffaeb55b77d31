------------------------------ MODULE FrontEnd ------------------------------
(***************************************************************************)
(* compiler::compile from the text to the tree (compiler.cpp:53-72): the    *)
(* lexer makes all tokens, parser::parse_program one declaration after the  *)
(* other, and the tree is handed to the compiler if there was no error.     *)
(***************************************************************************)
EXTENDS Lexing, Parser

CONSTANTS
  Programs,  \* Programs, of which the text is read
  Texts      \* Texts that may be no program

VARIABLES
  written,   \* The program the text is of, if it is of one
  parser,    \* The parser, as it is between two declarations
  program,   \* parse_program's list
  turn       \* Alternates with every step: one that gets nowhere is no stuttering

vars == <<text, written, lexer, parser, program, stage, turn>>

G == INSTANCE Grammar

Ends == {"accepted", "refused", "crashed", "hung"}

ASSUME FrontEndAssumption == \A t \in Texts : IsText(t)
-----------------------------------------------------------------------------
(* The lexer's steps; the parser begins with all tokens.                    *)
RejectText ==
  /\ RejectInput
  /\ parser' = NewParser(lexer'.tokens)
  /\ UNCHANGED <<written, program>>

EmptyText ==
  /\ RefuseEmpty
  /\ UNCHANGED <<written, parser, program>>

Lex ==
  /\ LexOne
  /\ parser' = IF stage' = "parsing" THEN NewParser(lexer'.tokens) ELSE parser
  /\ UNCHANGED <<written, program>>

(* Mutant: parse_program leaves the last token of a declaration to the next *)
(* one.                                                                     *)
StaysOnLastToken(p) == p

(* What parse_program does after a declaration.                             *)
Onward(p) == Advance(p)

(* One turn of parse_program's loop.                                        *)
NextDeclaration ==
  /\ stage = "parsing"
  /\ Cur(parser) # "eof"
  /\ \E p \in {ParseDeclaration(parser)} :
         /\ parser' = IF p.fault = "none" THEN Onward(p) ELSE p
         /\ program' = IF p.node \in {Nothing, <<"empty">>} THEN program
                       ELSE Append(program, p.node)
         /\ stage' = CASE p.fault = "null" -> "crashed"
                       [] p.fault = "hangs" -> "hung"
                       [] OTHER -> "parsing"
  /\ UNCHANGED <<text, written, lexer>>

HandOver ==
  /\ stage = "parsing"
  /\ Cur(parser) = "eof"
  /\ stage' = IF parser.errors = << >> THEN "accepted" ELSE "refused"
  /\ UNCHANGED <<text, written, lexer, parser, program>>

Init ==
  /\ \/ \E p \in Programs : written = <<p>> /\ text = G!Text(p)
     \/ written = << >> /\ text \in Texts
  /\ lexer = StartLexing(text)
  /\ parser = NewParser(<< >>)
  /\ program = << >>
  /\ stage = "lexing"
  /\ turn = 0

Next ==
  /\ RejectText \/ EmptyText \/ Lex \/ NextDeclaration \/ HandOver
  /\ turn' = 1 - turn

(* Weak fairness of Next, with "Next is enabled" written out: it is until    *)
(* the text has been read.  Nothing outside the process is waited for.      *)
Progress == []<>(stage \in Ends) \/ []<><<Next>>_vars

Spec == Init /\ [][Next]_vars /\ Progress
-----------------------------------------------------------------------------
(* The parts of a node in the order of the text, its names among them; a    *)
(* part that may be missing is one only when it is there.                   *)
Identifier(raw) == <<"identifier", raw>>

Present(parts) == SelectSeq(parts, LAMBDA n : n # Nothing)

Invoked(invocation) == IF invocation = << >> THEN << >> ELSE invocation[1]

(* A map's entries in some order, that of the table's buckets.               *)
InSomeOrder(bag) ==
  FlattenSeq(SetToSeq({[i \in 1 .. bag[e] |-> e] : e \in DOMAIN bag}))

Parts(n) ==
  CASE n[1] \in {"prefix", "postfix"} -> <<n[3]>>
    [] n[1] = "infix" -> <<n[3], n[4]>>
    [] n[1] \in {"assign", "subscript", "entry", "while"} -> <<n[2], n[3]>>
    [] n[1] = "conditional" -> <<n[2], n[3], n[4]>>
    [] n[1] = "call" -> <<n[2]>> \o n[3]
    [] n[1] = "access" -> <<n[2], Identifier(n[3])>> \o Invoked(n[4])
    [] n[1] = "super" -> <<Identifier(n[2])>> \o Invoked(n[3])
    [] n[1] \in {"expression", "print"} -> <<n[2]>>
    [] n[1] \in {"array", "block"} -> n[2]
    [] n[1] = "map" -> InSomeOrder(n[2])
    [] n[1] = "return" -> Present(<<n[2]>>)
    [] n[1] = "if" -> <<n[2], n[3]>> \o Present(<<n[4]>>)
    [] n[1] = "for" -> Present(<<n[2], n[3], n[4]>>) \o <<n[5]>>
    [] n[1] = "let" -> <<Identifier(n[4]), n[5]>>
    [] n[1] = "function" ->
         <<Identifier(n[4])>> \o [i \in DOMAIN n[6] |-> Identifier(n[6][i][1])] \o <<n[7]>>
    [] n[1] = "class" ->
         <<Identifier(n[4])>> \o [i \in DOMAIN n[5] |-> Identifier(n[5][i])] \o n[6]
    [] OTHER -> << >>

RECURSIVE HolesUnder(_, _), NamesOf(_), SeveralEntries(_), Kept(_)

(* The kinds of the nodes of a tree that have a null child, without looking *)
(* below the kinds in beyond.                                               *)
HolesUnder(n, beyond) ==
  LET parts == Range(Parts(n))
  IN  IF n[1] \in beyond THEN {}
      ELSE UNION {HolesUnder(part, beyond) : part \in parts}
             \cup (IF Nothing \in parts THEN {n[1]} ELSE {})

HolesBut(beyond) == UNION {HolesUnder(program[i], beyond) : i \in DOMAIN program}

(* What compile has no case for: an error; its children are not visited.    *)
NotCompiled == {"conditional", "array", "map", "subscript"}

(* The names and the literals of a tree in the order of the text.           *)
NamesOf(n) ==
  IF n[1] \in {"identifier", "number", "string"} THEN <<n[2]>>
  ELSE LET Flat(parts) == FlattenSeq([i \in DOMAIN parts |-> NamesOf(parts[i])])
       IN  CHOOSE names \in {Flat(parts) : parts \in {Parts(n)}} : TRUE

Names(nodes) == FlattenSeq([i \in DOMAIN nodes |-> NamesOf(nodes[i])])

(* A map of two or more entries is in the tree, in an order of its own.     *)
SeveralEntries(n) ==
  \/ n[1] = "map" /\ Len(Parts(n)) > 1
  \/ \E part \in Range(Parts(n)) : SeveralEntries(part)

(* Where a node of this kind has its nodes, and its lists of nodes.         *)
NodesAt(kind) ==
  CASE kind \in {"prefix", "postfix"} -> {3}
    [] kind = "infix" -> {3, 4}
    [] kind \in {"assign", "entry", "while"} -> {2, 3}
    [] kind \in {"conditional", "if"} -> {2, 3, 4}
    [] kind \in {"call", "access", "expression", "print", "return"} -> {2}
    [] kind = "for" -> 2 .. 5
    [] kind = "let" -> {5}
    [] kind = "function" -> {7}
    [] OTHER -> {}

ListAt(kind) ==
  CASE kind = "call" -> 3 [] kind \in {"array", "block"} -> 2 [] kind = "class" -> 6
    [] OTHER -> 0

InvocationAt(kind) == CASE kind = "access" -> 4 [] kind = "super" -> 3 [] OTHER -> 0

(* What a tree keeps of a program that is written as n: nothing of the      *)
(* operands of a subscript, and of a map its entries but not their order.   *)
KeptAll(list) == [i \in DOMAIN list |-> Kept(list[i])]

Kept(n) ==
  CASE n[1] = "subscript" -> <<"subscript", Nothing, Nothing>>
    [] n[1] = "map" -> <<"map", MapOf(KeptAll(n[2]))>>
    [] OTHER ->
         [i \in DOMAIN n |->
            CASE i \in NodesAt(n[1]) -> Kept(n[i])
              [] i = ListAt(n[1]) -> KeptAll(n[i])
              [] i = InvocationAt(n[1]) -> [j \in DOMAIN n[i] |-> KeptAll(n[i][j])]
              [] OTHER -> n[i]]

(* What stands for something a writer has named, and is no punctuation.     *)
IsName(raw) ==
  raw \notin Keywords \cup Punctuation \cup {""} \cup
             UNION {{c \o d : d \in Continuations[c]} : c \in Punctuation}

TokenAt(i) == lexer.tokens[i].type

(* A "fu" whose name is no identifier, and brackets after "operator".       *)
TakesAnyName ==
  \E i \in 2 .. Len(lexer.tokens) :
     \/ TokenAt(i - 1) \in {"fu", "mut"} /\ TokenAt(i) \in {"number", "string"}
     \/ TokenAt(i - 1) = "operator" /\ TokenAt(i) \in {"(", "[", "string"}
-----------------------------------------------------------------------------
(* The lexer counts no more lines than there are; the parser's lookahead is  *)
(* the token behind the current one, or both are the last.                  *)
TypeOK ==
  /\ stage \in Ends \cup {"lexing", "parsing"}
  /\ LexerTypeOK
  /\ turn \in {0, 1}
  /\ stage = "parsing" =>
       /\ parser.current \in DOMAIN lexer.tokens
       /\ \/ parser.lookahead = parser.current + 1
          \/ parser.lookahead = parser.current /\ parser.current = Len(lexer.tokens)
       /\ ~ parser.paranoia

(* The text of a program, with parentheses only where precedence and        *)
(* associativity ask for them, is accepted and read as that program, but    *)
(* for what the tree does not keep: a subscript's operands and the order of *)
(* a map's entries.  This is about every parse function together, and about *)
(* the off-by-ones of who moves past which token (parser.cpp:122-129).      *)
ReadsWhatIsWritten ==
  stage \in Ends /\ written # << >> => stage = "accepted" /\ program = KeptAll(written[1])

(* Every name and literal of an accepted text is in the tree or was given   *)
(* to the constructor that drops its operands (ast.hpp:913), as often as it *)
(* is in the text: no parse function moves past a token it did not look at. *)
(* Without subscripts, and maps of several entries, they are in order, too. *)
(* The exceptions are those of parse_function_declaration_impl.             *)
LosesNoName ==
  stage = "accepted" /\ ~ TakesAnyName =>
    LET inTree == SelectSeq(Names(program), IsName)
        dropped == SelectSeq(Names(parser.dropped), IsName)
        inText == SelectSeq([i \in DOMAIN lexer.tokens |-> lexer.tokens[i].raw], IsName)
        inOrder == parser.dropped = << >> /\ \A i \in DOMAIN program : ~ SeveralEntries(program[i])
    IN  /\ ToBag(inTree \o dropped) = ToBag(inText)
        /\ inOrder => inTree = inText

(* compile's assertion (compiler.cpp:94): no function is called with null.  *)
CompilerGetsNoNull == stage = "accepted" => HolesBut(NotCompiled) = {}

(* A tree without errors has null nodes only where subscript_expression's   *)
(* constructor leaves them, below a node that compile refuses, and as the   *)
(* body of a function, which parse_function_declaration_impl does not       *)
(* check: only where the text ends behind the function's "->".              *)
HolesOnlyWhereKnown ==
  stage = "accepted" =>
    /\ HolesBut({}) \subseteq {"subscript", "function"}
    /\ "function" \in HolesBut({}) => TokenAt(Len(lexer.tokens) - 1) = "->"

(* The lexer crashes only behind an unexpected character at the end of the  *)
(* text; the parser only on an assignment to what is no expression, because *)
(* a property has no name or a parenthesis opens none; and it loops only at *)
(* a "let" in a class or after an input that is not UTF-8.                  *)
FailsOnlyWhereKnown ==
  /\ NullOnlyBehindUnexpected
  /\ stage = "crashed" =>
       \/ lexer.at = 0
       \/ \E i, k \in DOMAIN lexer.tokens :
            /\ i + 1 < k /\ TokenAt(k) = "="
            /\ \/ TokenAt(i) = "." /\ TokenAt(i + 1) # "identifier"
               \/ TokenAt(i) = "(" /\ TokenAt(i + 1) \notin PrefixTokens
            /\ \A j \in i + 2 .. k - 1 : TokenAt(j) = ")"
  /\ stage = "hung" =>
       \/ Cur(parser) = "let" /\ \E i \in 1 .. parser.current : TokenAt(i) = "class"
       \/ Contains(text, Invalid)

(* The lexer and parse_program come to an end of every text.                *)
EveryTextIsRead == <>(stage \in Ends)
=============================================================================
