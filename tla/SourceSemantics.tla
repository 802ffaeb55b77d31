-------------------------- MODULE SourceSemantics --------------------------
(***************************************************************************)
(* What a program means, told from its text alone: no code, no stack, no    *)
(* addresses.  A program's behaviour is the sequence of what it reads from  *)
(* globals and prints.                                                      *)
(*                                                                         *)
(* A run is a record:                                                       *)
(*   env     the variables in scope, innermost last                         *)
(*   inputs  the values the next reads of globals find                      *)
(*   out     what was read and printed so far                               *)
(*   value   of the last expression                                         *)
(*   status  "normal"; "break", "continue" or "return" on the way to what   *)
(*           they leave; "error"; "blocked", the inputs are used up;        *)
(*           "spinning", a loop took more rounds than are counted           *)
(***************************************************************************)
EXTENDS CodeGen, TLC

CONSTANT MaxRounds  \* bound: rounds of all loops before a run is "spinning"

ASSUME MaxRoundsAssumption == MaxRounds \in Nat

Read(value) == [event |-> "read", value |-> value]
Printed(value) == [event |-> "print", value |-> value]

Binding(name, value, declaration) ==
  [name |-> name, value |-> value, declaration |-> declaration]

NoDeclaration == << >>

-----------------------------------------------------------------------------
Normal(r) == r.status = "normal"

Fails(r) == [r EXCEPT !.status = "error"]

Valued(r, value) == [r EXCEPT !.value = value]

(* The innermost variable of a name; 0 if it is a global's.                 *)
InScope(r, name) ==
  LET found == {i \in DOMAIN r.env : r.env[i].name = name} IN
  IF found = {} THEN 0 ELSE CHOOSE i \in found : \A j \in found : i >= j

ReadGlobal(r) ==
  IF r.inputs = << >> THEN [r EXCEPT !.status = "blocked"]
  ELSE [r EXCEPT !.value = Head(r.inputs), !.inputs = Tail(r.inputs),
                 !.out = Append(@, Read(Head(r.inputs)))]

Lookup(r, name) ==
  LET i == InScope(r, name) IN
  IF i = 0 THEN ReadGlobal(r) ELSE Valued(r, r.env[i].value)

Store(r, name) == [r EXCEPT !.env[InScope(r, name)].value = r.value]

Declare(r, name, declaration) ==
  [r EXCEPT !.env = Append(@, Binding(name, r.value, declaration))]

(* The scopes a statement opened are closed behind it.                      *)
Leave(r, outer) == [r EXCEPT !.env = SubSeq(@, 1, Len(outer.env))]

IsNumber(value) == value.type = "number"
IsBool(value) == value.type = "bool"

Infix(r, op, left, right) ==
  IF IsNumber(left) /\ IsNumber(right)
  THEN Valued(r, IF op = "-" THEN Number(left.data - right.data)
                             ELSE Bool(left.data < right.data))
  ELSE Fails(r)

Plus1(r) ==
  IF IsNumber(r.value) THEN Valued(r, Number(r.value.data + 1)) ELSE Fails(r)

-----------------------------------------------------------------------------
(* The run r after the expression or statement has been carried out.        *)
RECURSIVE Carry(_, _)

(* The rest of what is done, unless the program is on its way elsewhere.    *)
Then(r, next) == IF Normal(r) THEN next ELSE r

CarryAll(r, nodes) == FoldLeft(LAMBDA q, node : Then(q, Carry(q, node)), r, nodes)

(* The values of a list of expressions, left to right.                      *)
Evaluate(r, expressions) ==
  FoldLeft(LAMBDA a, e :
             IF ~Normal(a.run) THEN a
             ELSE LET next == Carry(a.run, e)
                  IN [run |-> next, values |-> Append(a.values, next.value)],
           [run |-> r, values |-> << >>], expressions)

(* A body sees its parameters and the globals: the programs considered      *)
(* capture nothing.                                                         *)
Apply(r, declaration, arguments) ==
  IF declaration = NoDeclaration \/ Len(arguments) # Len(declaration[1].parameters)
  THEN Fails(r)
  ELSE LET f == declaration[1]
           entered == [r EXCEPT !.env = [i \in DOMAIN arguments |->
                         Binding(f.parameters[i], arguments[i], NoDeclaration)]]
           done == Carry(entered, f.body)
           back == [done EXCEPT !.env = r.env]
       IN CASE done.status = "return" -> [back EXCEPT !.status = "normal"]
            [] Normal(done)           -> Valued(back, Null)
            [] OTHER                  -> back

(* Calls name their function.                                               *)
CarryCall(r, e) ==
  LET evaluated == Evaluate(r, e.arguments)
      i == InScope(r, e.callable.name)
  IN Then(evaluated.run,
          Apply(evaluated.run, r.env[i].declaration, evaluated.values))

CarryInfix(r, e) ==
  LET left == Carry(r, e.left)
      right == Then(left, Carry(left, e.right))
  IN Then(right, Infix(right, e.op, left.value, right.value))

CarryCompound(r, e) ==
  LET left == Lookup(r, e.name)
      right == Then(left, Carry(left, e.right))
      new == Then(right, Infix(right, "-", left.value, right.value))
  IN Then(new, Store(new, e.name))

CarryPrefix(r, e) ==
  LET new == Plus1(Lookup(r, e.name))
  IN Then(new, Store(new, e.name))

CarryPostfix(r, e) ==
  LET old == Lookup(r, e.name)
      new == Plus1(old)
  IN Then(new, Valued(Store(new, e.name), old.value))

(* A condition decides, if it is one.                                       *)
Choose(r, yes, no) ==
  Then(r, IF ~IsBool(r.value) THEN Fails(r)
          ELSE IF r.value = Bool(TRUE) THEN yes ELSE no)

CarryLogical(r, e) ==
  LET left == Carry(r, e.left)
      right == Carry(left, e.right)
  IN IF e.op = "and" THEN Choose(left, right, left) ELSE Choose(left, left, right)

(* A loop is a round of it, and then the loop again.                        *)
Round(tested, loop, increment) ==
  LET body == Leave(Carry(tested, loop.body), tested)
      stepped == CarryAll([body EXCEPT !.status = "normal"], increment)
  IN IF tested.rounds = MaxRounds THEN [tested EXCEPT !.status = "spinning"]
     ELSE CASE body.status = "break" -> [body EXCEPT !.status = "normal"]
            [] body.status \in {"normal", "continue"} ->
                 Then(stepped, Carry([stepped EXCEPT !.rounds = @ + 1], loop))
            [] OTHER -> body

CarryWhile(r, s) ==
  LET tested == Carry(r, s.expression)
  IN Choose(tested, Round(tested, s, << >>), tested)

(* The initializer is a statement before the loop, in a scope around it.    *)
CarryFor(r, s) ==
  LET tested == CarryAll(Valued(r, Bool(TRUE)), s.condition)
      initialized == CarryAll(r, s.initializer)
  IN IF s.initializer = << >>
     THEN Choose(tested, Round(tested, s, s.increment), tested)
     ELSE Leave(Then(initialized,
                     Carry(initialized, [s EXCEPT !.initializer = << >>])), r)

CarryIf(r, s) ==
  LET tested == Carry(r, s.expression)
  IN Choose(tested, Carry(tested, s.consequence), CarryAll(tested, s.alternative))

Carry(r, node) ==
  CASE node.type = "number"        -> Valued(r, Number(node.number))
    [] node.type = "boolean"       -> Valued(r, Bool(node.boolean))
    [] node.type = "null"          -> Valued(r, Null)
    [] node.type = "identifier"    -> Lookup(r, node.name)
    [] node.type = "assign"        -> LET right == Carry(r, node.right)
                                      IN Then(right, Store(right, node.name))
    [] node.type = "prefix_unary"  -> CarryPrefix(r, node)
    [] node.type = "postfix_unary" -> CarryPostfix(r, node)
    [] node.type = "infix_binary"  -> CarryInfix(r, node)
    [] node.type = "compound_assign" -> CarryCompound(r, node)
    [] node.type = "logical"       -> CarryLogical(r, node)
    [] node.type = "call"          -> CarryCall(r, node)
    [] node.type = "expression_statement" -> Carry(r, node.expression)
    [] node.type = "print"   -> LET e == Carry(r, node.expression)
                                IN Then(e, [e EXCEPT !.out = Append(@, Printed(e.value))])
    [] node.type = "let"     -> LET e == Carry(r, node.value)
                                IN Then(e, Declare(e, node.name, NoDeclaration))
    [] node.type = "block"   -> Leave(CarryAll(r, node.statements), r)
    [] node.type = "if"      -> CarryIf(r, node)
    [] node.type = "while"   -> CarryWhile(r, node)
    [] node.type = "for"     -> CarryFor(r, node)
    [] node.type \in {"break", "continue"} -> [r EXCEPT !.status = node.type]
    [] node.type = "function" -> Declare(Valued(r, Null), node.name, <<node>>)
    [] node.type = "return"  -> LET e == CarryAll(Valued(r, Null), node.result)
                                IN Then(e, [e EXCEPT !.status = "return"])
    [] node.type = "empty"   -> r

(* The run of a program that finds these values when it reads globals.      *)
RunProgram(statements, inputs) ==
  CarryAll([env |-> << >>, inputs |-> inputs, out |-> << >>, value |-> Null,
            status |-> "normal", rounds |-> 0], statements)

-----------------------------------------------------------------------------
(* The rules of the language a program has to keep.  "scope" is a sequence  *)
(* of the scopes open, innermost last, each a function from the names       *)
(* declared in it to whether they are mutable.                              *)
RECURSIVE WellFormed(_, _, _)
RECURSIVE AllWellFormed(_, _, _)

Opened(scope) == Append(scope, [n \in {} |-> FALSE])

Declared(scope, name, mutable) ==
  Append(Front(scope), (name :> mutable) @@ Last(scope))

Mutable(scope, name) ==
  LET found == {i \in DOMAIN scope : name \in DOMAIN scope[i]}
  IN found # {} /\ scope[CHOOSE i \in found : \A j \in found : i >= j][name]

(* Names an expression assigns to.                                          *)
RECURSIVE Assigned(_)
Assigned(e) ==
  CASE e.type \in {"assign", "compound_assign"} -> {e.name} \cup Assigned(e.right)
    [] e.type \in {"prefix_unary", "postfix_unary"} -> {e.name}
    [] e.type \in {"infix_binary", "logical"} -> Assigned(e.left) \cup Assigned(e.right)
    [] e.type = "call" -> UNION {Assigned(e.arguments[i]) : i \in DOMAIN e.arguments}
    [] OTHER -> {}

AssignsMutables(scope, expressions) ==
  \A i \in DOMAIN expressions : \A name \in Assigned(expressions[i]) :
    Mutable(scope, name)

After(scope, s) ==
  CASE s.type = "let"      -> Declared(scope, s.name, s.mutable)
    [] s.type = "function" -> Declared(scope, s.name, FALSE)
    [] OTHER               -> scope

AllWellFormed(statements, scope, inLoop) ==
  statements = << >> \/
    /\ WellFormed(Head(statements), scope, inLoop)
    /\ AllWellFormed(Tail(statements), After(scope, Head(statements)), inLoop)

Parameters(f) ==
  [name \in {f.parameters[i] : i \in DOMAIN f.parameters} |-> TRUE]

WellFormed(s, scope, inLoop) ==
  CASE s.type \in {"expression_statement", "print"} ->
         AssignsMutables(scope, <<s.expression>>)
    [] s.type = "return" -> AssignsMutables(scope, s.result)
    [] s.type = "let" ->
         /\ s.name \notin DOMAIN Last(scope)
         /\ s.value # IdentifierExpression(s.name)
         /\ AssignsMutables(scope, <<s.value>>)
    [] s.type = "block" -> AllWellFormed(s.statements, Opened(scope), inLoop)
    [] s.type = "if" ->
         /\ AssignsMutables(scope, <<s.expression>>)
         /\ WellFormed(s.consequence, scope, inLoop)
         /\ AllWellFormed(s.alternative, scope, inLoop)
    [] s.type = "while" ->
         /\ AssignsMutables(scope, <<s.expression>>)
         /\ WellFormed(s.body, scope, TRUE)
    [] s.type = "for" ->
         LET inner == IF s.initializer = << >> THEN Opened(scope)
                      ELSE After(Opened(scope), s.initializer[1])
         IN /\ AllWellFormed(s.initializer, Opened(scope), inLoop)
            /\ AssignsMutables(inner, s.condition \o s.increment)
            /\ WellFormed(s.body, inner, TRUE)
    [] s.type \in {"break", "continue"} -> inLoop
    [] s.type = "function" ->
         /\ s.name \notin DOMAIN Last(scope)
         /\ Cardinality(DOMAIN Parameters(s)) = Len(s.parameters)
         /\ WellFormed(s.body, <<Parameters(s)>>, FALSE)
    [] s.type = "empty" -> TRUE

IsWellFormed(statements) == AllWellFormed(statements, Opened(<< >>), FALSE)
=============================================================================
