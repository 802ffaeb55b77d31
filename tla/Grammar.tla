------------------------------ MODULE Grammar ------------------------------
(***************************************************************************)
(* The language as a writer knows it, without a parser: the text of a       *)
(* program, with a space after every token and parentheses only where the   *)
(* levels of precedence (the comments of parser.hpp:19-41) ask for them.    *)
(* Operators at one level associate to the left, assignments and the        *)
(* conditional to the right.                                                *)
(***************************************************************************)
EXTENDS Lexer

Levels ==
  <<{"=", "+=", "-=", "*=", "/=", "%=", "^=", "|=", "&="}, {"?"}, {"or"}, {"and"},
    {"|"}, {"^"}, {"&"}, {"==", "!="}, {"<", "<=", ">", ">="}, {"<<", ">>"}, {"as"},
    {"+", "-"}, {"*", "/", "%"}>>

LevelOf(t) == CHOOSE i \in DOMAIN Levels : t \in Levels[i]
PrefixLevel == Len(Levels) + 1
PostfixLevel == PrefixLevel + 1

Level(e) ==
  CASE e[1] = "infix" -> LevelOf(e[2])
    [] e[1] = "assign" -> 1
    [] e[1] = "conditional" -> 2
    [] e[1] = "prefix" -> PrefixLevel
    [] OTHER -> PostfixLevel

(* A token of two characters is written with both.                          *)
Characters(raw) ==
  IF \E c \in Punctuation : \E d \in Continuations[c] : raw = c \o d
  THEN LET c == CHOOSE c \in Punctuation : \E d \in Continuations[c] : raw = c \o d
       IN  <<c, CHOOSE d \in Continuations[c] : raw = c \o d>>
  ELSE <<raw>>

Word(raw) == Characters(raw) \o <<" ">>

(* All words of a sequence, one after the other.                            *)
Words(raws) == FlattenSeq([i \in DOMAIN raws |-> Word(raws[i])])

(* Parts with a comma between any two.                                      *)
Separated(parts) ==
  FlattenSeq([i \in DOMAIN parts |-> IF i = 1 THEN parts[i] ELSE Word(",") \o parts[i]])

RECURSIVE Expression(_, _), Statement(_)

Listed(es) == Separated([i \in DOMAIN es |-> Expression(es[i], 1)])

Called(invocation) ==
  IF invocation = << >> THEN << >>
  ELSE Word("(") \o Listed(invocation[1]) \o Word(")")

(* A method that is named and not invoked.                                  *)
IsNamed(e) ==
  \/ e[1] = "access" /\ e[4] = << >>
  \/ e[1] = "super" /\ e[3] = << >>

(* e where nothing looser than level may stand.  A method that is named is  *)
(* in parentheses where it is called, or the call would be an invocation.   *)
Expression(e, level) ==
  IF Level(e) < level THEN Word("(") \o Expression(e, 1) \o Word(")")
  ELSE CASE e[1] = "infix" /\ Level(e) = 1 ->
              Expression(e[3], 2) \o Word(e[2]) \o Expression(e[4], 1)
         [] e[1] = "infix" /\ Level(e) > 1 ->
              Expression(e[3], Level(e)) \o Word(e[2]) \o Expression(e[4], Level(e) + 1)
         [] e[1] = "assign" -> Expression(e[2], 2) \o Word("=") \o Expression(e[3], 1)
         [] e[1] = "conditional" ->
              Expression(e[2], 3) \o Word("?") \o Expression(e[3], 1)
                \o Word(":") \o Expression(e[4], 2)
         [] e[1] = "prefix" -> Word(e[2]) \o Expression(e[3], PrefixLevel)
         [] e[1] = "postfix" -> Expression(e[3], PostfixLevel) \o Word(e[2])
         [] e[1] = "call" ->
              Expression(e[2], IF IsNamed(e[2]) THEN PostfixLevel + 1 ELSE PostfixLevel)
                \o Called(<<e[3]>>)
         [] e[1] = "access" ->
              Expression(e[2], PostfixLevel) \o Words(<<".", e[3]>>) \o Called(e[4])
         [] e[1] = "subscript" ->
              Expression(e[2], PostfixLevel) \o Word("[") \o Expression(e[3], 1) \o Word("]")
         [] e[1] = "super" -> Words(<<"super", ".", e[2]>>) \o Called(e[3])
         [] e[1] = "array" -> Word("[") \o Listed(e[2]) \o Word("]")
         [] e[1] = "map" -> Word("{") \o Listed(e[2]) \o Word("}")
         [] e[1] = "entry" -> Expression(e[2], 1) \o Word(":") \o Expression(e[3], 1)
         [] e[1] = "string" -> <<"'", e[2], "'", " ">>
         [] OTHER -> Word(e[2])

Optional(e) == IF e = <<"nothing">> THEN << >> ELSE Expression(e, 1)

Modified(modifiers) == Words(SetToSeq(modifiers))

Parameter(p) == Modified(p[2]) \o Word(p[1])

(* What follows "fu" or stands for a method that overloads an operator.     *)
Function(f) ==
  Modified(f[3])
    \o (IF f[5] = "method" THEN Word(f[4]) ELSE Words(<<"operator", f[4]>>))
    \o Word("(") \o Separated([i \in DOMAIN f[6] |-> Parameter(f[6][i])]) \o Word(")")
    \o (IF f[7][1] = "block" THEN << >> ELSE Word("->")) \o Statement(f[7])

Method(f) ==
  Modified(f[2]) \o (IF f[5] = "method" THEN Word("fu") ELSE << >>) \o Function(f)

Value(e) == IF e = <<"null", "null">> THEN << >> ELSE Word("=") \o Expression(e, 1)

Statement(s) ==
  CASE s[1] = "expression" -> Expression(s[2], 1) \o Word(";")
    [] s[1] = "print" -> Word("print") \o Expression(s[2], 1) \o Word(";")
    [] s[1] = "empty" -> Word(";")
    [] s[1] \in {"break", "continue"} -> Words(<<s[1], ";">>)
    [] s[1] = "return" -> Word("return") \o Optional(s[2]) \o Word(";")
    [] s[1] = "block" ->
         Word("{") \o FlattenSeq([i \in DOMAIN s[2] |-> Statement(s[2][i])]) \o Word("}")
    [] s[1] = "if" ->
         Word("if") \o Expression(s[2], 1) \o Word("->") \o Statement(s[3])
           \o (IF s[4] = <<"nothing">> THEN << >> ELSE Word("else") \o Statement(s[4]))
    [] s[1] = "while" -> Word("while") \o Expression(s[2], 1) \o Word("->") \o Statement(s[3])
    [] s[1] = "for" ->
         Word("for") \o (IF s[2] = <<"nothing">> THEN Word(";") ELSE Statement(s[2]))
           \o Optional(s[3]) \o Word(";") \o Optional(s[4]) \o Word("->") \o Statement(s[5])
    [] s[1] = "let" ->
         Modified(s[2]) \o Word("let") \o Modified(s[3]) \o Word(s[4]) \o Value(s[5])
           \o Word(";")
    [] s[1] = "function" -> Modified(s[2]) \o Word("fu") \o Function(s)
    [] s[1] = "class" ->
         Modified(s[2]) \o Words(<<"class", s[4]>>)
           \o (IF s[5] = << >> THEN << >> ELSE Words(<<"inherits", s[5][1]>>))
           \o Word("{") \o FlattenSeq([i \in DOMAIN s[6] |-> Method(s[6][i])]) \o Word("}")

(* The text of a program.                                                   *)
Text(program) == FlattenSeq([i \in DOMAIN program |-> Statement(program[i])])
=============================================================================
