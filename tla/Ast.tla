-------------------------------- MODULE Ast --------------------------------
(***************************************************************************)
(* The syntax trees the parser builds (ast.hpp), one constructor per class *)
(* of node the compiler's control flow and locals are about.  An optional   *)
(* part of a node is a sequence of at most one tree.                        *)
(***************************************************************************)

NumberExpression(n) == [type |-> "number", number |-> n]

BooleanExpression(b) == [type |-> "boolean", boolean |-> b]

NullExpression == [type |-> "null"]

IdentifierExpression(name) == [type |-> "identifier", name |-> name]

AssignExpression(name, right) ==
  [type |-> "assign", name |-> name, right |-> right]

(* "++name". *)
PrefixUnaryExpression(name) == [type |-> "prefix_unary", name |-> name]

(* "name++". *)
PostfixUnaryExpression(name) == [type |-> "postfix_unary", name |-> name]

(* "-" and "<", which stand for the operators of two values.                *)
InfixBinaryExpression(op, left, right) ==
  [type |-> "infix_binary", op |-> op, left |-> left, right |-> right]

(* "name -= right", for every such operator.                                *)
CompoundAssignment(name, right) ==
  [type |-> "compound_assign", name |-> name, right |-> right]

(* "and" and "or".                                                          *)
LogicalExpression(op, left, right) ==
  [type |-> "logical", op |-> op, left |-> left, right |-> right]

CallExpression(callable, arguments) ==
  [type |-> "call", callable |-> callable, arguments |-> arguments]

ExpressionStatement(expression) ==
  [type |-> "expression_statement", expression |-> expression]

PrintStatement(expression) == [type |-> "print", expression |-> expression]

BlockStatement(statements) == [type |-> "block", statements |-> statements]

IfStatement(expression, consequence, alternative) ==
  [type |-> "if", expression |-> expression, consequence |-> consequence,
   alternative |-> alternative]

WhileStatement(expression, body) ==
  [type |-> "while", expression |-> expression, body |-> body]

ForStatement(initializer, condition, increment, body) ==
  [type |-> "for", initializer |-> initializer, condition |-> condition,
   increment |-> increment, body |-> body]

BreakStatement == [type |-> "break"]

ContinueStatement == [type |-> "continue"]

ReturnStatement(result) == [type |-> "return", result |-> result]

EmptyStatement == [type |-> "empty"]

LetDeclaration(name, mutable, value) ==
  [type |-> "let", name |-> name, mutable |-> mutable, value |-> value]

FunctionDeclaration(name, parameters, body) ==
  [type |-> "function", name |-> name, parameters |-> parameters, body |-> body]
=============================================================================
