----------------------------- MODULE MCFrontEnd -----------------------------
(***************************************************************************)
(* Instances of FrontEnd for TLC: programs, and texts of a few tokens that   *)
(* may be none.                                                             *)
(***************************************************************************)
EXTENDS FrontEnd

Empty == <<"empty">>
Null == <<"null", "null">>
X == Identifier("x")
One == <<"number", "1">>

(* One operator of every level.                                             *)
Infixes == {"+=", "or", "and", "|", "^", "&", "==", "<", "as", "+", "-", "*"}

Over(A, B) ==
  {<<"infix", op, a, b>> : op \in Infixes, a \in A, b \in B}
  \cup {<<"assign", X, b>> : b \in B}
  \cup {<<"assign", <<"access", a, "y", << >>>>, b>> : a \in A, b \in B}
  \cup {<<"conditional", a, b, a>> : a \in A, b \in B}
  \cup {<<"conditional", a, a, b>> : a \in A, b \in B}
  \cup {<<kind, op, a>> : kind \in {"prefix"}, op \in {"-", "!", "++"}, a \in A}
  \cup {<<"postfix", "++", a>> : a \in A}
  \cup {<<"call", a, <<b>>>> : a \in A, b \in B}
  \cup {<<"access", a, "y", <<<<b, a>>>>>> : a \in A, b \in B}
  \cup {<<"subscript", a, b>> : a \in A, b \in B}

Unary(A) ==
  {<<"access", a, "y", << >>>> : a \in A}
  \cup {<<"access", a, "y", <<<< >>>>>> : a \in A}
  \cup {<<"call", a, << >>>> : a \in A}

Shallow == Over({X}, {One}) \cup Unary({X})

Atoms ==
  {X, One, Null, <<"true", "true">>, <<"this", "this">>, <<"string", "s">>,
   <<"super", "y", << >>>>, <<"super", "y", <<<<X, One>>>>>>,
   <<"array", << >>>>, <<"array", <<X, One>>>>,
   <<"map", << >>>>, <<"map", <<<<"entry", X, One>>, <<"entry", One, X>>>>>>}

Expressions ==
  Shallow \cup Over(Shallow, {X}) \cup Over({X}, Shallow) \cup Over(Atoms, {X})
    \cup Over({X}, Atoms) \cup Unary(Shallow \cup Atoms)

Deep ==
  {<<"infix", op, a, b>> : op \in {"-", "and", "+="}, a, b \in Shallow}

Prints(e) == <<"print", e>>
Block(statements) == <<"block", statements>>
Let(modifiers, mutable, value) == <<"let", modifiers, mutable, "x", value>>
Fu(modifiers, name, parameters, body) ==
  <<"function", modifiers, {}, name, "method", parameters, body>>
Overload(name, kind, body) == <<"function", {}, {}, name, kind, <<<<"x", {}>>>>, body>>

Assignment == <<"expression", <<"assign", X, One>>>>

Simple ==
  {Prints(X), Assignment, Empty, <<"return", X>>, <<"return", Nothing>>, <<"break">>,
   Block(<< >>), Block(<<Let({}, {"mut"}, One), Assignment>>)}

Compounds(S) ==
  {<<"if", X, a, b>> : a \in S, b \in S \cup {Nothing}}
  \cup {<<"while", X, a>> : a \in S}
  \cup {<<"for", i, c, n, a>> : i \in {Nothing, Assignment, Let({}, {}, One)},
          c, n \in {Nothing, X}, a \in S}

Functions(S) ==
  {Fu({}, "f", ps, a) : ps \in {<< >>, <<<<"x", {}>>, <<"y", {"mut"}>>>>}, a \in S}

Methods ==
  {Fu({}, "ctor", << >>, Block(<<Assignment>>)), Fu({}, "m", <<<<"x", {}>>>>, Prints(X)),
   Overload("+", "+", <<"return", X>>), Overload("x", "convert", Block(<< >>))}

Classes ==
  {<<"class", {}, {}, "A", parent, methods>> :
     parent \in {<< >>, <<"B">>},
     methods \in {<< >>} \cup {<<m>> : m \in Methods} \cup {<<m, n>> : m, n \in Methods}}

Declarations ==
  {Let(modifiers, mutable, value) : modifiers \in {{}, {"glob"}}, mutable \in {{}, {"mut"}},
                                    value \in {X, Null}}
  \cup {Fu({"glob", "async"}, "f", << >>, Block(<< >>))}

Statements1 == (Simple \ {Empty}) \cup Compounds(Simple) \cup Functions(Simple) \cup Classes \cup Declarations
Nested == {Block(<<s, Prints(X)>>) : s \in Statements1}

Written ==
  {<<Prints(e)>> : e \in Expressions \cup Deep}
  \cup {<<s, Prints(One)>> : s \in Statements1 \cup Nested}
  \cup {<<<<"while", X, s>>>> : s \in Compounds({Assignment})}
  \cup {<<s>> : s \in Functions(Compounds({Assignment}))}

(* All texts of up to n tokens of a set, with a space after every token.    *)
TextsOf(tokens, n) ==
  {G!Words(s) : s \in UNION {[1 .. k -> tokens] : k \in 0 .. n}}

(* All texts of up to n characters of a set.                                *)
Strings(characters, n) == UNION {[1 .. k -> characters] : k \in 1 .. n}

AnyTexts ==
  TextsOf({"x", "1", "=", ".", "(", ")", ";"}, 5)
  \cup TextsOf({"x", "-", "?", ":", ";"}, 5)
  \cup TextsOf({"x", "[", "]", "1", ";"}, 5)
  \cup {G!Words(<<"print", "{", "x", ":", "1", ",">>) \o t :
          t \in TextsOf({"x", "1", ":", ",", "}", ";"}, 5)}
  \cup TextsOf({"{", "}", "x", ";", "if", "->", "else"}, 4)
  \cup {G!Words(<<"fu", "f", "(">>) \o t :
          t \in TextsOf({"x", ",", "mut", ")", "->", "{", "}", ";"}, 4)}
  \cup {G!Words(<<"class", "A", "{">>) \o t :
          t \in TextsOf({"let", "fu", "operator", "f", "(", ")", "}"}, 4)}
  \cup Strings({"/", "*", "'", "\n", "x", "?", "@", " "}, 4)
  \cup {<<"x", ";", Invalid>>, <<Invalid>>}
=============================================================================
