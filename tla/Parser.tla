------------------------------- MODULE Parser -------------------------------
(***************************************************************************)
(* The recursive descent parser (parser.hpp, parser.cpp, parsers.hpp).      *)
(*                                                                          *)
(* A parser p is its tokens with the indices of the current and the         *)
(* lookahead token, the errors so far, paranoia (which holds errors back    *)
(* until sync_state), and node, what the last function returned.  fault is  *)
(* "null" once a null node has been dereferenced and "hangs" once a loop    *)
(* has come back to the state it was in.  dropped holds the nodes that a    *)
(* constructor was given and has not kept; no parse function looks at it.   *)
(*                                                                          *)
(* A node is a tuple that begins with its kind.                             *)
(***************************************************************************)
EXTENDS Integers, SequencesExt

Nothing == <<"nothing">>

Precedence ==
  [assignment |-> 1, conditional |-> 2, or |-> 3, and |-> 4, bitwise_or |-> 5,
   bitwise_xor |-> 6, bitwise_and |-> 7, equality |-> 8, comparision |-> 9,
   shift |-> 10, as |-> 11, sum |-> 12, product |-> 13, exponent |-> 14,
   prefix |-> 15, postfix |-> 16, call |-> 17, member |-> 18, subscript |-> 19]

Lowest == 0

Compound ==
  {"+=", "-=", "*=", "/=", "%=", "^=", "|=", "&=", "<<=", ">>="}

(* The tokens between two expressions and what each one's parser is given.  *)
BinaryPrecedence ==
  [t \in {"+", "-"} |-> Precedence.sum] @@
  [t \in {"*", "/", "%"} |-> Precedence.product] @@
  [t \in {"=="  , "!="} |-> Precedence.equality] @@
  [t \in {"<", "<=", ">", ">="} |-> Precedence.comparision] @@
  [t \in {"<<", ">>"} |-> Precedence.shift] @@
  [t \in {"and"} |-> Precedence.and] @@ [t \in {"or"} |-> Precedence.or] @@
  [t \in {"|"} |-> Precedence.bitwise_or] @@ [t \in {"^"} |-> Precedence.bitwise_xor] @@
  [t \in {"&"} |-> Precedence.bitwise_and] @@ [t \in {"as"} |-> Precedence.as] @@
  [t \in Compound |-> Precedence.assignment]

BinaryOperators == DOMAIN BinaryPrecedence

(* Mutant: "a -= b -= c" associates to the left.                            *)
NoneIsRight(t) == FALSE

IsRight(t) == t \in Compound

(* s_infix_parse_map as parser::get_precedence reads it.                    *)
GetPrecedence(t) ==
  CASE t \in BinaryOperators -> BinaryPrecedence[t]
    [] t = "=" -> Precedence.assignment
    [] t = "?" -> Precedence.conditional
    [] t \in {"++", "--"} -> Precedence.postfix
    [] t = "(" -> Precedence.call
    [] t = "." -> Precedence.member
    [] t = "[" -> Precedence.subscript
    [] OTHER -> Lowest

Leaves == {"identifier", "string", "number", "true", "false", "null", "this"}
PrefixOperators == {"+", "-", "!", "++", "--"}
PrefixTokens == Leaves \cup PrefixOperators \cup {"(", "super", "[", "{"}

DeclarationModifiers == {"glob", "export", "static", "async"}
BindingModifiers == {"mut"}

SyncTokens ==
  DeclarationModifiers \cup
  {"class", "fu", "let", "for", "if", "while", "print", "return", ";"}

(* What "operator" overloads with a token of its own, or with a pair.       *)
Bracketed == {"(", "["}
SingleOperators ==
  {"+", "-", "++", "--", "!", "~", "*", "/", "^", "%", "&", "|", ">", "<",
   "==", "!=", ">=", "<=", "<<", ">>"} \cup (Compound \ {"<<=", ">>="})
-----------------------------------------------------------------------------
(* The cursor and the errors.                                               *)

Cur(p) == p.tokens[p.current].type
RawLiteral(p) == p.tokens[p.current].raw
Ahead(p) == p.tokens[p.lookahead].type

Advance(p) ==
  IF p.lookahead >= Len(p.tokens) THEN [p EXCEPT !.current = p.lookahead]
  ELSE [p EXCEPT !.current = p.lookahead, !.lookahead = @ + 1]

ParseError(p, code) ==
  IF p.paranoia THEN p
  ELSE [p EXCEPT !.paranoia = TRUE, !.errors = Append(@, code)]

Check(p, holds, code) == IF holds THEN p ELSE ParseError(p, code)

ExpectCurrent(p, type) == Check(p, Cur(p) = type, "expected_token")
ExpectAhead(p, type) == Check(p, Ahead(p) = type, "expected_token")

Returns(p, node) == [p EXCEPT !.node = node]

(* What a function does with the parser that one it has called returns.     *)
Then(p, Continue(_)) == Continue(p)

(* parser::parser; without tokens parse_program does not read any.          *)
NewParser(tokens) ==
  Advance([tokens |-> tokens, current |-> 1, lookahead |-> 1, paranoia |-> FALSE,
           errors |-> << >>, node |-> Nothing, dropped |-> << >>, fault |-> "none"])

RECURSIVE Skip(_)

(* Mutant: sync_state also looks for its tokens behind the last one.         *)
SkipPastTheEnd(p) ==
  IF Cur(p) \in SyncTokens THEN p
  ELSE IF Advance(p) = p THEN [p EXCEPT !.fault = "hangs"]
  ELSE Skip(Advance(p))

(* parser::sync_state.                                                      *)
Skip(p) ==
  IF Ahead(p) = "eof" \/ Cur(p) \in SyncTokens THEN p
  ELSE IF Advance(p) = p THEN [p EXCEPT !.fault = "hangs"]
  ELSE Skip(Advance(p))

(* Mutant: errors stay held back.                                           *)
SyncHoldsErrorsBack(p) == Skip(p)

SyncState(p) == Skip([p EXCEPT !.paranoia = FALSE])
-----------------------------------------------------------------------------
(* Expressions.                                                             *)

IsLvalue(node) ==
  node[1] = "identifier" \/ (node[1] = "access" /\ node[4] = << >>)

RECURSIVE ParseExpression(_, _), Operators(_, _), List(_, _, _)

(* One element of an expression list, or one entry of a map.                *)
Element(p, end) ==
  IF end = "}"
  THEN Then(ParseExpression(Advance(p), Lowest), LAMBDA key :
       Then(ParseExpression(Advance(Advance(ExpectAhead(key, ":"))), Lowest), LAMBDA value :
         Returns(value, <<"entry", key.node, value.node>>)))
  ELSE ParseExpression(Advance(p), Lowest)

CloseList(p, end, list) ==
  Returns(IF Ahead(p) = end THEN Advance(p) ELSE ParseError(p, "expected_token"), list)

(* parse_expression_list and map_parser's loop from list on: list is what   *)
(* has been read, in the order it was read.                                 *)
List(p, end, list) ==
  IF Ahead(p) \in {end, "eof"} THEN CloseList(p, end, list)
  ELSE Then(Element(p, end), LAMBDA q :
         IF Ahead(q) = "," THEN List(Advance(q), end, Append(list, q.node))
         ELSE CloseList(Check(q, Ahead(q) = end, "expected_token"), end,
                        Append(list, q.node)))

(* The arguments of a method that is invoked, none when it is only named.   *)
Invocation(p) ==
  IF Ahead(p) # "(" THEN Returns(p, << >>)
  ELSE Then(List(Advance(p), ")", << >>), LAMBDA q : Returns(q, <<q.node>>))

Group(p) ==
  Then(ParseExpression(Advance(p), Lowest), LAMBDA q :
    IF Ahead(q) = ")" THEN Advance(q)
    ELSE Returns(ParseError(q, "expected_token"), Nothing))

Super(p) ==
  LET dot == Advance(ExpectAhead(p, "."))
      name == Advance(Check(dot, Ahead(dot) = "identifier", "expected_identifier"))
  IN  Then(Invocation(name), LAMBDA q :
        Returns(q, <<"super", RawLiteral(name), q.node>>))

PrefixUnary(p) ==
  Then(ParseExpression(Advance(p), Precedence.prefix), LAMBDA q :
    Returns(q, <<"prefix", Cur(p), q.node>>))

Array(p) ==
  Then(List(p, "]", << >>), LAMBDA q : Returns(q, <<"array", q.node>>))

(* map_parser's entries: an unordered_map with the key nodes' addresses for *)
(* keys.  It has no order, and two keys that look alike stay apart; only    *)
(* keys that could not be read are one key, null, which keeps the last.     *)
MapOf(list) ==
  LET unread == {i \in DOMAIN list : list[i][2] = Nothing}
      kept == DOMAIN list \ {i \in unread : \E j \in unread : j > i}
  IN  [e \in {list[i] : i \in kept} |-> Cardinality({i \in kept : list[i] = e})]

Map(p) ==
  Then(List(p, "}", << >>), LAMBDA q : Returns(q, <<"map", MapOf(q.node)>>))

ParsePrefix(p) ==
  CASE Cur(p) \in Leaves -> Returns(p, <<Cur(p), RawLiteral(p)>>)
    [] Cur(p) \in PrefixOperators -> PrefixUnary(p)
    [] Cur(p) = "(" -> Group(p)
    [] Cur(p) = "super" -> Super(p)
    [] Cur(p) = "[" -> Array(p)
    [] Cur(p) = "{" -> Map(p)

InfixBinary(p, left) ==
  Then(ParseExpression(Advance(p),
                       GetPrecedence(Cur(p)) - (IF IsRight(Cur(p)) THEN 1 ELSE 0)),
       LAMBDA q : Returns(q, <<"infix", Cur(p), left, q.node>>))

(* assign_parser asks its left side, which may be null, whether it is an    *)
(* lvalue.                                                                  *)
Assign(p, left) ==
  Then(ParseExpression(Advance(p), Precedence.assignment - 1), LAMBDA q :
    IF left = Nothing THEN [q EXCEPT !.fault = "null"]
    ELSE Returns(Check(q, IsLvalue(left), "expected_identifier"),
                 <<"assign", left, q.node>>))

(* expect_next moves to the colon, if it is there.                          *)
Conditional(p, condition) ==
  Then(ParseExpression(Advance(p), Lowest), LAMBDA left :
  Then(IF Ahead(left) = ":" THEN Advance(left) ELSE ParseError(left, "expected_token"),
       LAMBDA colon :
  Then(ParseExpression(Advance(colon), Precedence.conditional - 1), LAMBDA right :
    Returns(right, <<"conditional", condition, left.node, right.node>>))))

Access(p, left) ==
  Then(Advance(p), LAMBDA name :
    IF Cur(name) # "identifier"
    THEN Returns(ParseError(name, "expected_identifier"), Nothing)
    ELSE Then(Invocation(name), LAMBDA q :
           Returns(q, <<"access", left, RawLiteral(name), q.node>>)))

(* subscript_expression's constructor takes both operands and keeps none.   *)
SubscriptExpression(p, left, right) ==
  [Returns(p, <<"subscript", Nothing, Nothing>>) EXCEPT !.dropped = @ \o <<left, right>>]

Subscript(p, left) ==
  Then(ParseExpression(Advance(p), Lowest), LAMBDA q :
    SubscriptExpression(Advance(ExpectAhead(q, "]")), left, q.node))

Arguments(p, callee) ==
  Then(List(p, ")", << >>), LAMBDA q : Returns(q, <<"call", callee, q.node>>))

ParseInfix(p, left) ==
  CASE Cur(p) \in BinaryOperators -> InfixBinary(p, left)
    [] Cur(p) \in {"++", "--"} -> Returns(p, <<"postfix", Cur(p), left>>)
    [] Cur(p) = "=" -> Assign(p, left)
    [] Cur(p) = "?" -> Conditional(p, left)
    [] Cur(p) = "(" -> Arguments(p, left)
    [] Cur(p) = "." -> Access(p, left)
    [] Cur(p) = "[" -> Subscript(p, left)

(* The loop of parser::parse_expression, with its left side in p.node.      *)
Operators(p, precedence) ==
  IF p.fault # "none" \/ Ahead(p) = ";" \/ precedence >= GetPrecedence(Ahead(p)) THEN p
  ELSE Operators(ParseInfix(Advance(p), p.node), precedence)

ParseExpression(p, precedence) ==
  IF Cur(p) \in PrefixTokens THEN Operators(ParsePrefix(p), precedence)
  ELSE Returns(ParseError(p, "no_prefix_parse_function"), Nothing)

ParseExpr(p) == ParseExpression(p, Lowest)
-----------------------------------------------------------------------------
(* Statements and declarations.                                             *)

(* parse_declaration_modifiers, parse_binding_modifiers.                    *)
RECURSIVE Modifiers(_, _, _)
Modifiers(p, known, modifiers) ==
  IF Cur(p) \notin known THEN Returns(p, modifiers)
  ELSE Modifiers(Advance(Check(p, Cur(p) \notin modifiers, "illegal_modifier")),
                 known, modifiers \cup {Cur(p)})

Validate(p, modifiers, allowed) ==
  Check(p, modifiers \subseteq allowed, "illegal_modifier")

(* Mutant: whatever follows is taken for the semicolon.                     *)
AnySemicolon(p) == Advance(p)

(* What ends a statement: the semicolon becomes the current token.          *)
Semicolon(p) == Advance(ExpectAhead(p, ";"))

RECURSIVE ParseStatement(_), ParseDeclaration(_), Statements(_, _),
          Parameters(_, _), Members(_, _)

ExpressionStatement(p) ==
  Then(ParseExpr(p), LAMBDA q : Returns(Semicolon(q), <<"expression", q.node>>))

PrintStatement(p) ==
  Then(ParseExpr(Advance(p)), LAMBDA q : Returns(Semicolon(q), <<"print", q.node>>))

ControlFlowStatement(p) == Returns(Semicolon(p), <<Cur(p)>>)

ReturnStatement(p) ==
  Then(IF Ahead(p) = ";" THEN Returns(p, Nothing) ELSE ParseExpr(Advance(p)), LAMBDA q :
    Returns(Semicolon(q), <<"return", q.node>>))

Statements(p, statements) ==
  IF Ahead(p) \in {"}", "eof"} \/ p.fault # "none" THEN Returns(p, statements)
  ELSE Then(ParseDeclaration(Advance(p)), LAMBDA q :
         Statements(q, Append(statements, q.node)))

BlockStatement(p) ==
  Then(Statements(p, << >>), LAMBDA q :
  Then(Advance(ExpectAhead(q, "}")), LAMBDA brace :
    Returns(IF Ahead(brace) = ";" THEN Advance(brace) ELSE brace, <<"block", q.node>>)))

(* The condition of "if" and "while", and the "->" behind it.               *)
Condition(p) ==
  Then(ParseExpr(Advance(p)), LAMBDA q :
  Then(Advance(Check(q, q.node # Nothing, "expected_expression")), LAMBDA arrow :
    Returns(Advance(ExpectCurrent(arrow, "->")), q.node)))

(* Mutant: a missing statement is no error, as with a function's body.      *)
UncheckedBody(p) == ParseStatement(p)

(* A statement that must be there: only the end of the text is none.        *)
Body(p) ==
  Then(ParseStatement(p), LAMBDA q : Check(q, q.node # Nothing, "expected_statement"))

Alternative(p) ==
  IF Ahead(p) # "else" THEN Returns(p, Nothing)
  ELSE Then(Advance(Advance(p)), LAMBDA q :
         Body(IF Cur(q) = "->" THEN Advance(q) ELSE q))

IfStatement(p) ==
  Then(Condition(p), LAMBDA condition :
  Then(Body(condition), LAMBDA consequence :
  Then(Alternative(consequence), LAMBDA alternative :
    Returns(alternative,
            <<"if", condition.node, consequence.node, alternative.node>>))))

WhileStatement(p) ==
  Then(Condition(p), LAMBDA condition :
  Then(Body(condition), LAMBDA body :
    Returns(body, <<"while", condition.node, body.node>>)))

(* let_declaration up to the token behind it, which must be the semicolon.  *)
LetDeclaration(p, modifiers) ==
  Then(Modifiers(Advance(p), BindingModifiers, {}), LAMBDA mods :
  Then(ParseExpr(Validate(mods, mods.node, {"mut"})), LAMBDA q :
    LET assigns == q.node[1] = "assign"
        target == IF assigns THEN q.node[2] ELSE q.node
        value == IF assigns THEN q.node[3] ELSE <<"null", "null">>
        isName == target[1] = "identifier"
    IN  Returns(ExpectCurrent(Advance(Check(q, isName, "expected_identifier")), ";"),
                <<"let", modifiers, mods.node, IF isName THEN target[2] ELSE "", value>>)))

ForInitializer(p) ==
  CASE Cur(p) = ";" -> Returns(p, Nothing)
    [] Cur(p) \in DeclarationModifiers ->
         Then(Modifiers(p, DeclarationModifiers, {}), LAMBDA mods :
           LetDeclaration(Advance(ParseError(ExpectAhead(mods, "let"), "illegal_modifier")),
                          mods.node))
    [] Cur(p) = "let" -> LetDeclaration(p, {})
    [] OTHER -> ExpressionStatement(p)

(* A clause of "for" that may be missing, up to the token that ends it.     *)
Clause(p, end) ==
  IF Cur(p) = end THEN Returns(p, Nothing)
  ELSE Then(ParseExpr(p), LAMBDA q :
         ExpectCurrent(Advance(Check(q, q.node # Nothing, "expected_expression")), end))

ForStatement(p) ==
  Then(ForInitializer(Advance(p)), LAMBDA initializer :
  Then(Clause(Advance(initializer), ";"), LAMBDA condition :
  Then(Clause(Advance(condition), "->"), LAMBDA increment :
  Then(Body(Advance(increment)), LAMBDA body :
    Returns(body,
            <<"for", initializer.node, condition.node, increment.node, body.node>>)))))

ParseStatement(p) ==
  CASE Cur(p) = "print" -> PrintStatement(p)
    [] Cur(p) = "{" -> BlockStatement(p)
    [] Cur(p) = "if" -> IfStatement(p)
    [] Cur(p) = "while" -> WhileStatement(p)
    [] Cur(p) = "for" -> ForStatement(p)
    [] Cur(p) \in {"break", "continue"} -> ControlFlowStatement(p)
    [] Cur(p) = "return" -> ReturnStatement(p)
    [] Cur(p) = ";" -> Returns(p, <<"empty">>)
    [] Cur(p) = "eof" -> Returns(p, Nothing)
    [] OTHER -> ExpressionStatement(p)

CloseParameters(p, parameters) ==
  Returns(IF Cur(p) = ")" THEN Advance(p) ELSE ParseError(p, "expected_token"), parameters)

(* Any token is taken for a parameter's name.                               *)
Parameters(p, parameters) ==
  IF Cur(p) \in {")", "eof"} THEN CloseParameters(p, parameters)
  ELSE Then(Modifiers(p, BindingModifiers, {}), LAMBDA mods :
         LET longer == Append(parameters, <<RawLiteral(mods), mods.node>>)
             q == Advance(Validate(mods, mods.node, {"mut"}))
         IN  IF Cur(q) = "," THEN Parameters(Advance(q), longer)
             ELSE CloseParameters(ExpectCurrent(q, ")"), longer))

(* The pair of brackets after "operator": two tokens are skipped before the *)
(* closing one is looked for.                                               *)
BracketOperator(p) ==
  LET q == Advance(Advance(p))
      close == IF RawLiteral(p) = "(" THEN ")" ELSE "]"
  IN  IF Ahead(q) = close THEN Returns(Advance(q), <<RawLiteral(p) \o close, RawLiteral(p)>>)
      ELSE Returns(ParseError(q, "expected_token"), <<RawLiteral(p), RawLiteral(p)>>)

OperatorName(p, overrides) ==
  LET q == IF RawLiteral(p) \in Bracketed THEN BracketOperator(p)
           ELSE IF RawLiteral(p) \in SingleOperators THEN Returns(p, <<RawLiteral(p), RawLiteral(p)>>)
           ELSE IF Cur(p) = "identifier" THEN Returns(p, <<RawLiteral(p), "convert">>)
           ELSE Returns(p, <<RawLiteral(p), "none">>)
  IN  Check(q, overrides /\ q.node[2] # "none", "illegal_operator_override")

(* The name of a function and what it overloads; a token that is neither an *)
(* identifier nor "operator" is taken for the name of none.                 *)
FunctionName(p, overrides) ==
  IF Cur(p) = "identifier" THEN Returns(p, <<RawLiteral(p), "method">>)
  ELSE IF Cur(p) = "operator" THEN OperatorName(Advance(p), overrides)
  ELSE Returns(p, <<"", "method">>)

FunctionDeclaration(p, modifiers, allowed, overrides) ==
  Then(Modifiers(p, BindingModifiers, {}), LAMBDA mods :
  Then(FunctionName(mods, overrides), LAMBDA named :
  Then(ExpectCurrent(Advance(Validate(named, mods.node, allowed)), "("), LAMBDA open :
  Then(Parameters(Advance(open), << >>), LAMBDA parameters :
  Then(ParseStatement(IF Cur(parameters) = "->" THEN Advance(parameters)
                      ELSE ExpectCurrent(parameters, "{")), LAMBDA body :
    Returns(body, <<"function", modifiers, mods.node, named.node[1],
                    named.node[2], parameters.node, body.node>>))))))

(* parse_class_declaration's loop over the members.  A "let" leaves the     *)
(* parser where it is.                                                      *)
Members(p, methods) ==
  LET Member(q) == Members(Advance(q), Append(methods, q.node))
  IN  IF Cur(p) \in {"}", "eof"} \/ p.fault # "none" THEN Returns(p, methods)
      ELSE Then(Modifiers(p, DeclarationModifiers, {}), LAMBDA mods :
           Then(Validate(mods, mods.node, {"static"}), LAMBDA valid :
             CASE Cur(mods) = "fu" ->
                    Member(FunctionDeclaration(Advance(valid), {}, {}, FALSE))
               [] Cur(mods) = "operator" ->
                    Member(FunctionDeclaration(valid, mods.node, {}, TRUE))
               [] Cur(mods) = "let" -> Returns([valid EXCEPT !.fault = "hangs"], methods)
               [] OTHER -> Returns(ParseError(mods, "unexpected_token"), methods)))

(* The superclass behind "inherits".                                        *)
Parent(p) ==
  Then(Advance(Check(p, Ahead(p) = "identifier", "expected_identifier")), LAMBDA parent :
    Returns(Advance(parent), <<RawLiteral(parent)>>))

ClassDeclaration(p, modifiers) ==
  Then(Advance(p), LAMBDA named :
  Then(Modifiers(Check(named, Cur(named) = "identifier", "expected_identifier"),
                 BindingModifiers, {}), LAMBDA mods :
  Then(Advance(Validate(mods, mods.node, {"mut"})), LAMBDA name :
  Then(IF Cur(name) = "inherits" THEN Parent(name) ELSE Returns(name, << >>), LAMBDA head :
  Then(Members(Advance(ExpectCurrent(head, "{")), << >>), LAMBDA members :
    Returns(ExpectCurrent(members, "}"),
            <<"class", modifiers, mods.node, RawLiteral(mods), head.node,
              members.node>>))))))

ParseDeclaration(p) ==
  LET Declaration(mods, Valid(_)) ==
        CASE Cur(mods) = "let" -> LetDeclaration(Valid({"glob"}), mods.node)
          [] Cur(mods) = "fu" ->
               FunctionDeclaration(Advance(Valid({"glob", "export", "async"})),
                                   mods.node, {"mut"}, FALSE)
          [] Cur(mods) = "class" -> ClassDeclaration(Valid({"glob", "export"}), mods.node)
          [] OTHER -> ParseStatement(Valid({}))
  IN  Then(Modifiers(p, DeclarationModifiers, {}), LAMBDA mods :
      Then(Declaration(mods, LAMBDA allowed : Validate(mods, mods.node, allowed)), LAMBDA q :
        IF q.paranoia /\ q.fault = "none" THEN SyncState(q) ELSE q))
=============================================================================
