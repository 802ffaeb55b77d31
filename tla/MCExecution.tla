---------------------------- MODULE MCExecution ----------------------------
(***************************************************************************)
(* Instances of Execution for TLC: the programs.                            *)
(***************************************************************************)
EXTENDS Execution

Input == IdentifierExpression("input")
X == IdentifierExpression("x")
Y == IdentifierExpression("y")
I == IdentifierExpression("i")

PrintX == PrintStatement(X)
Block(statements) == BlockStatement(statements)
Expression(e) == ExpressionStatement(e)
OnInput(statement) == IfStatement(Input, statement, << >>)

(* What the body of a loop is made of: it changes x, and has locals of its  *)
(* own, one of which hides x.                                               *)
Ways == {BreakStatement, ContinueStatement, ReturnStatement(<<X>>)}

LetY == LetDeclaration("y", FALSE, NumberExpression(7))
LetX == LetDeclaration("x", TRUE, NumberExpression(5))

Nested(way) ==
  Block(<<LetY, LetX, Expression(AssignExpression("x", Y)), way>>)

Parts ==
  Ways \cup
  {PrintX, LetX, LetY,
   Expression(PrefixUnaryExpression("x")),
   Expression(AssignExpression("x", InfixBinaryExpression("-", X, NumberExpression(1))))}
  \cup {OnInput(way) : way \in Ways}
  \cup {Block(<<LetY, OnInput(Nested(way)), PrintX>>) : way \in Ways}
  \cup {IfStatement(Input, PrintX, <<way>>) : way \in Ways}

Bodies == {Block(<<p, q>>) : p, q \in Parts}

Counter == LetDeclaration("i", TRUE, NumberExpression(0))
Below2 == InfixBinaryExpression("<", I, NumberExpression(2))
Increment == PrefixUnaryExpression("i")

Loops(body) ==
  {WhileStatement(Input, body),
   ForStatement(<<Counter>>, <<Below2>>, <<Increment>>, body),
   ForStatement(<< >>, <<Input>>, << >>, body),
   ForStatement(<< >>, << >>, <<PrefixUnaryExpression("x")>>, body)}

(* A script with one loop, or a loop in a loop.                             *)
Script(loop) == <<LetX, loop, PrintX>>

OneLoop == {Script(loop) : loop \in UNION {Loops(body) : body \in Bodies}}

Inner == {Block(<<p, OnInput(way)>>) : p \in {LetX, PrintX}, way \in Ways}

LoopInLoop ==
  {Script(WhileStatement(Input, Block(<<LetY, loop, OnInput(way)>>))) :
     loop \in UNION {Loops(body) : body \in Inner}, way \in Ways}

(* Functions with a loop in them, called in a loop or not.                  *)
Function(body) == FunctionDeclaration("f", <<"x">>, Block(<<LetY, body, PrintX>>))
CallF(arguments) == CallExpression(IdentifierExpression("f"), arguments)

Functions ==
  {<<LetX, Function(loop), PrintStatement(CallF(arguments)), PrintX>> :
     loop \in UNION {Loops(body) : body \in Inner},
     arguments \in {<<NumberExpression(1)>>, << >>, <<CallF(<<X>>)>>}}
  \cup
  {<<Function(statement),
     WhileStatement(Input, Block(<<LetX, OnInput(BreakStatement),
       Expression(AssignExpression("x", CallF(<<X>>))), PrintX>>))>> :
     statement \in {ReturnStatement(<<Y>>), ReturnStatement(<< >>), EmptyStatement,
                    OnInput(ReturnStatement(<<X>>))}}

(* Expressions, and conditions that are none.                               *)
Atoms == {NumberExpression(1), BooleanExpression(TRUE), BooleanExpression(FALSE),
          NullExpression, Input, X, PrefixUnaryExpression("x")}
Pairs ==
  {InfixBinaryExpression(op, left, right) : op \in {"-", "<"}, left, right \in Atoms}
  \cup {CompoundAssignment("x", right) : right \in Atoms}
  \cup {AssignExpression("x", right) : right \in Atoms}

Expressions ==
  {<<LetX, PrintStatement(e), PrintX>> : e \in Pairs}
  \cup {<<LetX, PrintStatement(InfixBinaryExpression("-", X, e)), PrintX>> : e \in Pairs}
  \cup {<<LetX, IfStatement(e, PrintX, <<EmptyStatement>>)>> : e \in Pairs \cup Atoms}
  \cup {<<LetDeclaration("x", TRUE, e), Expression(PostfixUnaryExpression("x"))>> :
          e \in {BooleanExpression(TRUE), NullExpression}}
  \cup {<<LetX, PrintStatement(LogicalExpression(op, NumberExpression(1), X))>> :
          op \in {"and", "or"}}
  \cup {<<Function(ReturnStatement(<<X>>)), LetX,
          PrintStatement(InfixBinaryExpression("-", X, CallF(<<e>>)))>> : e \in Atoms}

(* Programs that break a rule, or nearly do.                                *)
Doubtful ==
  {<<LetX>> \o s : s \in
     {<<BreakStatement>>, <<OnInput(ContinueStatement)>>, <<LetX>>, <<Block(<<LetX>>)>>,
      <<LetY, Expression(PrefixUnaryExpression("y"))>>,
      <<LetY, Block(<<LetX, PrintStatement(AssignExpression("y", X))>>)>>,
      <<LetY, Block(<<LetDeclaration("y", TRUE, X),
                      Expression(CompoundAssignment("y", X))>>)>>,
      <<Block(<<LetDeclaration("x", TRUE, X)>>)>>,
      <<LetDeclaration("y", FALSE, Y)>>,
      <<FunctionDeclaration("x", << >>, Block(<< >>))>>,
      <<FunctionDeclaration("f", <<"x", "x">>, Block(<< >>))>>,
      <<FunctionDeclaration("f", <<"x">>, Block(<<LetX>>))>>,
      <<Function(EmptyStatement), Expression(AssignExpression("f", X))>>,
      <<Function(BreakStatement)>>,
      <<WhileStatement(Input, Block(<<LetX, LetX>>))>>,
      <<WhileStatement(Input, EmptyStatement), BreakStatement>>,
      <<ForStatement(<<LetX>>, <<Input>>, << >>, Block(<<LetX, BreakStatement>>))>>,
      <<ForStatement(<<LetY>>, <<Input>>, <<PrefixUnaryExpression("y")>>, PrintX)>>}}

(* Programs that count for ever have infinitely many states.  One that does *)
(* so before its reads are used up does so with more of them.               *)
Settles(p) ==
  \A inputs \in [1 .. MaxReads -> Inputs] : RunProgram(p, inputs).status # "spinning"

Control ==
  {p \in OneLoop \cup LoopInLoop \cup Functions \cup Expressions \cup Doubtful :
     IsWellFormed(p) => Settles(p)}

(* What Control leaves out: "and" and "or" of booleans, "++" after a number, *)
(* and a function in a loop with a break of its own.                        *)
Logical ==
  {<<LetX, PrintStatement(LogicalExpression(op, Input, Input)), PrintX>> :
     op \in {"and", "or"}}

Booleans == {Bool(TRUE), Bool(FALSE)}
=============================================================================
