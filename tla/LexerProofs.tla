----------------------------- MODULE LexerProofs -----------------------------
(***************************************************************************)
(* Proofs about the lexer: on every text its position stays in the text or *)
(* is null where it is known to be, it counts the lines, and every turn of *)
(* its loop gets on.                                                        *)
(***************************************************************************)
EXTENDS Lexing, SequenceLemmas, FiniteSetTheorems, WellFoundedInduction

-----------------------------------------------------------------------------
(* The least of a set of numbers.                                          *)
LEMMA MinIsLeast ==
  ASSUME NEW S \in SUBSET Nat, S # {}
  PROVE  Min(S) \in S /\ \A x \in S : Min(S) <= x
<1> DEFINE below == {0 .. x : x \in S}
           smaller == StrictSubsetOrdering(Nat)
<1>1. below \subseteq FiniteSubsetsOf(Nat) /\ below # {}
  <2>1. ASSUME NEW x \in S PROVE 0 .. x \in FiniteSubsetsOf(Nat)
    <3>1. IsFiniteSet(0 .. x)
      BY FS_Interval
    <3>2. 0 .. x \in SUBSET Nat
      OBVIOUS
    <3>3. QED
      BY <3>1, <3>2 DEF FiniteSubsetsOf
  <2>2. QED
    BY <2>1
<1>2. IsWellFoundedOn(smaller, FiniteSubsetsOf(Nat))
  BY FS_StrictSubsetOrderingWellFounded
<1> HIDE DEF smaller
<1>3. PICK b \in below : \A c \in below : ~ (<<c, b>> \in smaller)
  BY <1>1, <1>2, WFMin
<1>4. PICK m \in S : b = 0 .. m
  BY <1>3
<1>5. ASSUME NEW x \in S, x < m PROVE FALSE
  <2>1. 0 .. x \in SUBSET Nat /\ 0 .. m \in SUBSET Nat /\ 0 .. x \in below
    OBVIOUS
  <2>2. 0 .. x \subseteq 0 .. m /\ 0 .. x # 0 .. m
    BY <1>5
  <2>3. <<0 .. x, 0 .. m>> \in smaller
    BY <2>1, <2>2 DEF smaller, StrictSubsetOrdering
  <2>4. QED
    BY <1>3, <1>4, <2>1, <2>3
<1>6. \A x \in S : m <= x
  BY <1>5
<1>7. QED
  BY <1>6 DEF Min

LEMMA TextFacts ==
  ASSUME NEW text_, IsText(text_)
  PROVE  /\ Len(text_) \in Nat /\ DOMAIN text_ = 1 .. Len(text_)
         /\ \A i \in 1 .. Len(text_) : CharAt(text_, i) = text_[i] /\ text_[i] # End
         /\ \A i : i \notin 1 .. Len(text_) => CharAt(text_, i) = End
<1>1. Len(text_) \in Nat /\ DOMAIN text_ = 1 .. Len(text_)
  BY LenProperties DEF IsText
<1>2. QED
  BY <1>1 DEF IsText, CharAt

(* Past and Until stop at the first character they should stop at.         *)
LEMMA PastStops ==
  ASSUME NEW t, IsText(t), NEW i \in 1 .. Len(t) + 1, NEW S, End \notin S
  PROVE  /\ Past(t, i, S) \in i .. Len(t) + 1
         /\ CharAt(t, Past(t, i, S)) \notin S
         /\ \A k \in i .. Past(t, i, S) - 1 : CharAt(t, k) \in S
<1> DEFINE stops == {j \in i .. Len(t) + 1 : CharAt(t, j) \notin S}
<1>1. Len(t) \in Nat /\ CharAt(t, Len(t) + 1) = End
  BY TextFacts
<1>2. stops \in SUBSET Nat /\ Len(t) + 1 \in stops
  BY <1>1
<1>3. Min(stops) \in stops /\ \A x \in stops : Min(stops) <= x
  BY <1>2, MinIsLeast
<1>4. Past(t, i, S) = Min(stops)
  BY DEF Past
<1>5. ASSUME NEW k \in i .. Min(stops) - 1 PROVE CharAt(t, k) \in S
  BY <1>1, <1>3
<1>6. QED
  BY <1>3, <1>4, <1>5

LEMMA UntilStops ==
  ASSUME NEW t, IsText(t), NEW i \in 1 .. Len(t) + 1, NEW S
  PROVE  /\ Until(t, i, S) \in i .. Len(t) + 1
         /\ CharAt(t, Until(t, i, S)) \in S \cup {End}
         /\ \A k \in i .. Until(t, i, S) - 1 : CharAt(t, k) \notin S
<1> DEFINE stops == {j \in i .. Len(t) + 1 : CharAt(t, j) \in S \cup {End}}
<1>1. Len(t) \in Nat /\ CharAt(t, Len(t) + 1) = End
  BY TextFacts
<1>2. stops \in SUBSET Nat /\ Len(t) + 1 \in stops
  BY <1>1
<1>3. Min(stops) \in stops /\ \A x \in stops : Min(stops) <= x
  BY <1>2, MinIsLeast
<1>4. Until(t, i, S) = Min(stops)
  BY DEF Until
<1>5. ASSUME NEW k \in i .. Min(stops) - 1 PROVE CharAt(t, k) \notin S
  BY <1>1, <1>3
<1>6. QED
  BY <1>3, <1>4, <1>5

-----------------------------------------------------------------------------
(* Newlines of neighbouring parts add up.                                  *)
LEMMA NewlinesType ==
  ASSUME NEW t, NEW i \in Nat, NEW j \in Nat
  PROVE  Newlines(t, i, j) \in Nat
         /\ IsFiniteSet({k \in i .. j - 1 : CharAt(t, k) = "\n"})
<1>1. IsFiniteSet(i .. j - 1)
  BY FS_Interval
<1>2. IsFiniteSet({k \in i .. j - 1 : CharAt(t, k) = "\n"})
  BY <1>1, FS_Subset
<1>3. QED
  BY <1>2, FS_CardinalityType DEF Newlines

LEMMA NewlinesAddUp ==
  ASSUME NEW t, NEW i \in Nat, NEW j \in Nat, NEW k \in Nat, i <= j, j <= k
  PROVE  Newlines(t, i, k) = Newlines(t, i, j) + Newlines(t, j, k)
<1> DEFINE At(a, b) == {n \in a .. b - 1 : CharAt(t, n) = "\n"}
<1>1. At(i, k) = At(i, j) \cup At(j, k) /\ At(i, j) \cap At(j, k) = {}
  OBVIOUS
<1>2. IsFiniteSet(At(i, j)) /\ IsFiniteSet(At(j, k))
  BY NewlinesType
<1>3. /\ Newlines(t, i, j) = Cardinality(At(i, j)) /\ Newlines(t, j, k) = Cardinality(At(j, k))
      /\ Newlines(t, i, k) = Cardinality(At(i, k))
  BY DEF Newlines
<1>4. Newlines(t, i, j) \in Nat /\ Newlines(t, j, k) \in Nat
  BY NewlinesType
<1> HIDE DEF At
<1>5. Cardinality({}) = 0
  BY FS_EmptySet
<1>6. Cardinality(At(i, k)) = Cardinality(At(i, j)) + Cardinality(At(j, k)) - 0
  BY <1>1, <1>2, <1>5, FS_Union
<1>7. QED
  BY <1>3, <1>4, <1>6

LEMMA NoNewlines ==
  ASSUME NEW t, NEW i \in Nat, NEW j \in Nat,
         \A k \in i .. j - 1 : CharAt(t, k) # "\n"
  PROVE  Newlines(t, i, j) = 0
<1>1. {k \in i .. j - 1 : CharAt(t, k) = "\n"} = {}
  OBVIOUS
<1>2. QED
  BY <1>1, FS_EmptySet DEF Newlines

(* The classes of characters are apart, and a newline is white.            *)
LEMMA Classes ==
  /\ End \notin Punctuation \cup White \cup Quotes \cup Digits
  /\ End \in NotAllowed /\ Quotes \subseteq NotAllowed
  /\ Punctuation \cap Quotes = {} /\ Punctuation \cap Digits = {} /\ Quotes \cap Digits = {}
  /\ "\n" \notin Punctuation \cup Quotes \cup Digits /\ "\n" \in NotAllowed /\ "\n" \in White
  BY DEF End, Punctuation, White, Quotes, Digits, NotAllowed

LEMMA ContinuationsArePunctuation ==
  /\ \A c \in Punctuation : Continuations[c] \subseteq Punctuation
  /\ "/" \in Punctuation /\ "." \in Punctuation
  BY DEF Continuations, Punctuation

-----------------------------------------------------------------------------
(* Lexers.                                                                 *)
IsSequence(s) == \E S : s \in Seq(S)

IsLexer(lx) ==
  /\ lx = [at |-> lx.at, line |-> lx.line, tokens |-> lx.tokens]
  /\ lx.at \in Nat /\ lx.line \in Nat /\ IsSequence(lx.tokens)

NoErrors(lx) == \A i \in DOMAIN lx.tokens : lx.tokens[i].type # "error"

(* The lexer out is lx, which was at i, one turn later: it has got on, and *)
(* has counted the newlines it has passed, all of them unless it has met   *)
(* an error.                                                               *)
ReachedIn(t, out) == IF out.at = 0 THEN Len(t) + 1 ELSE out.at

Counts(t, lx, i, out) ==
  /\ IsLexer(out)
  /\ out.at \in {0} \cup (i + 1 .. Len(t) + 1)
  /\ out.line \in lx.line .. lx.line + Newlines(t, i, ReachedIn(t, out))
  /\ NoErrors(out) =>
       /\ NoErrors(lx) /\ out.at # 0
       /\ out.line = lx.line + Newlines(t, i, out.at)
  /\ out.at = 0 =>
       i = Len(t) /\ t[i] \notin Punctuation \cup White \cup Quotes \cup Digits

LEMMA AppendIsSequence ==
  ASSUME NEW s, IsSequence(s), NEW e
  PROVE  /\ IsSequence(Append(s, e)) /\ Len(s) \in Nat
         /\ DOMAIN s = 1 .. Len(s) /\ DOMAIN Append(s, e) = 1 .. Len(s) + 1
         /\ \A i \in 1 .. Len(s) : Append(s, e)[i] = s[i]
         /\ Append(s, e)[Len(s) + 1] = e
<1>1. PICK S : s \in Seq(S)
  BY DEF IsSequence
<1> DEFINE T == S \cup {e}
<1>2. Len(s) \in Nat /\ DOMAIN s = 1 .. Len(s)
  BY <1>1, LenProperties
<1>3. s \in Seq(T) /\ e \in T
  <2>1. s = [i \in 1 .. Len(s) |-> s[i]] /\ \A i \in 1 .. Len(s) : s[i] \in T
    BY <1>1, <1>2, ElementOfSeq
  <2>2. s \in [1 .. Len(s) -> T]
    BY <2>1
  <2>3. QED
    BY <1>2, <2>2, FunctionIsSeq
<1> HIDE DEF T
<1>4. /\ Append(s, e) \in Seq(T) /\ Len(Append(s, e)) = Len(s) + 1
      /\ \A i \in 1 .. Len(s) : Append(s, e)[i] = s[i]
      /\ Append(s, e)[Len(s) + 1] = e
  BY <1>3, AppendProperties
<1>5. DOMAIN Append(s, e) = 1 .. Len(s) + 1
  BY <1>4, LenProperties
<1>6. QED
  BY <1>2, <1>4, <1>5 DEF IsSequence

LEMMA EmitEffect ==
  ASSUME NEW lx, IsLexer(lx), NEW type, NEW raw, NEW at \in Nat
  PROVE  LET out == Emit(lx, type, raw, at) IN
         /\ IsLexer(out) /\ out.at = at /\ out.line = lx.line
         /\ NoErrors(out) => NoErrors(lx) /\ type # "error"
         /\ out.tokens # << >> /\ Last(out.tokens).type = type
<1> DEFINE out == Emit(lx, type, raw, at)
           token == Token(type, raw, lx.line)
<1>1. out = [at |-> at, line |-> lx.line, tokens |-> Append(lx.tokens, token)]
  <2>1. PICK a, l, s : lx = [at |-> a, line |-> l, tokens |-> s]
    BY DEF IsLexer
  <2>2. lx.line = l /\ lx.tokens = s
    BY <2>1
  <2> DEFINE more == Append(lx.tokens, token)
  <2>3. out = [lx EXCEPT !.tokens = more, !.at = at]
    BY DEF Emit
  <2> HIDE DEF out, more
  <2>4. out = [at |-> at, line |-> l, tokens |-> more]
    BY <2>1, <2>3
  <2>5. QED
    BY <2>2, <2>4 DEF more
<1>2. token.type = type
  BY DEF Token
<1> HIDE DEF out, token
<1>3. IsSequence(lx.tokens)
  BY DEF IsLexer
<1>4. /\ IsSequence(Append(lx.tokens, token)) /\ Len(lx.tokens) \in Nat
      /\ DOMAIN lx.tokens = 1 .. Len(lx.tokens)
      /\ DOMAIN Append(lx.tokens, token) = 1 .. Len(lx.tokens) + 1
      /\ \A i \in 1 .. Len(lx.tokens) : Append(lx.tokens, token)[i] = lx.tokens[i]
      /\ Append(lx.tokens, token)[Len(lx.tokens) + 1] = token
  BY <1>3, AppendIsSequence
<1>5. IsLexer(out) /\ out.at = at /\ out.line = lx.line
  BY <1>1, <1>4 DEF IsLexer
<1>6. ASSUME NoErrors(out) PROVE NoErrors(lx) /\ type # "error"
  <2>1. \A i \in 1 .. Len(lx.tokens) + 1 : Append(lx.tokens, token)[i].type # "error"
    BY <1>1, <1>4, <1>6 DEF NoErrors
  <2>2. type # "error"
    BY <1>2, <1>4, <2>1
  <2>3. \A i \in 1 .. Len(lx.tokens) : lx.tokens[i].type # "error"
    BY <1>4, <2>1
  <2>4. QED
    BY <1>4, <2>2, <2>3 DEF NoErrors
<1>7. out.tokens # << >> /\ Last(out.tokens).type = type
  <2> DEFINE tokens == Append(lx.tokens, token)
  <2>1. PICK S : tokens \in Seq(S)
    BY <1>4 DEF IsSequence
  <2>2. Len(lx.tokens) + 1 \in DOMAIN tokens /\ Len(tokens) \in Nat /\ DOMAIN tokens = 1 .. Len(tokens)
    BY <1>4, <2>1, LenProperties
  <2>3. Len(tokens) = Len(lx.tokens) + 1 /\ tokens[Len(lx.tokens) + 1] = token
    BY <1>4, <2>2
  <2> HIDE DEF tokens
  <2>4. tokens # << >>
    BY <1>4, <2>1, <2>2, EmptySeq
  <2>5. Last(tokens) = token
    BY <2>3 DEF Last
  <2>6. out.tokens = tokens
    BY <1>1 DEF tokens
  <2>7. QED
    BY <1>2, <2>4, <2>5, <2>6
<1>8. QED
  BY <1>5, <1>6, <1>7 DEF out

LEMMA ErrorEffect ==
  ASSUME NEW lx, IsLexer(lx), NEW raw, NEW at \in Nat
  PROVE  LET out == Emit(lx, "error", raw, at) IN
         IsLexer(out) /\ out.at = at /\ out.line = lx.line /\ ~ NoErrors(out)
<1> DEFINE out == Emit(lx, "error", raw, at)
<1>1. /\ IsLexer(out) /\ out.at = at /\ out.line = lx.line
      /\ NoErrors(out) => NoErrors(lx) /\ "error" # "error"
  BY EmitEffect
<1> HIDE DEF out
<1>2. IsLexer(out) /\ out.at = at /\ out.line = lx.line /\ ~ NoErrors(out)
  BY <1>1
<1>3. QED
  BY <1>2 DEF out

(* A token with no newline in it is counted right.                         *)
LEMMA EmitCounts ==
  ASSUME NEW t, IsText(t), NEW i \in 1 .. Len(t), NEW lx, IsLexer(lx),
         NEW type, NEW raw, NEW at \in i + 1 .. Len(t) + 1,
         \A k \in i .. at - 1 : CharAt(t, k) # "\n"
  PROVE  Counts(t, lx, i, Emit(lx, type, raw, at))
<1> DEFINE out == Emit(lx, type, raw, at)
<1>1. Len(t) \in Nat
  BY TextFacts
<1>2. at \in Nat /\ at # 0 /\ i \in Nat /\ lx.line \in Nat
  BY <1>1 DEF IsLexer
<1>3. /\ IsLexer(out) /\ out.at = at /\ out.line = lx.line
      /\ NoErrors(out) => NoErrors(lx)
  BY <1>2, EmitEffect
<1> HIDE DEF out
<1>4. Newlines(t, i, at) = 0
  BY <1>2, NoNewlines
<1>5. ReachedIn(t, out) = at
  BY <1>2, <1>3 DEF ReachedIn
<1>6. Counts(t, lx, i, out)
  BY <1>2, <1>3, <1>4, <1>5 DEF Counts
<1>7. QED
  BY <1>6 DEF out

LEMMA PunctuationCounts ==
  ASSUME NEW t, IsText(t), NEW i \in 1 .. Len(t), NEW lx, IsLexer(lx),
         t[i] \in Punctuation
  PROVE  Counts(t, lx, i, EmplacePunctuation(t, lx, i))
<1> DEFINE c == t[i]
           next == CharAt(t, i + 1)
           comment == Until(t, i + 1, {"\n"})
<1>1. /\ Len(t) \in Nat /\ CharAt(t, i) = c /\ c # "\n"
      /\ i \in Nat /\ i + 1 \in 1 .. Len(t) + 1 /\ lx.line \in Nat
  BY TextFacts, Classes DEF IsLexer
<1>2. next # End => i + 1 \in 1 .. Len(t)
  BY <1>1, TextFacts
<1>3. CASE c = "/" /\ next = "/"
  <2>1. /\ comment \in i + 1 .. Len(t) + 1
        /\ \A k \in i + 1 .. comment - 1 : CharAt(t, k) # "\n"
    BY <1>1, UntilStops
  <2> DEFINE out == [lx EXCEPT !.at = comment]
  <2>2. EmplacePunctuation(t, lx, i) = out
    BY <1>3 DEF EmplacePunctuation
  <2>3. out = [at |-> comment, line |-> lx.line, tokens |-> lx.tokens]
    BY DEF IsLexer
  <2> HIDE DEF comment, out
  <2>4. \A k \in i .. comment - 1 : CharAt(t, k) # "\n"
    BY <1>1, <2>1
  <2>5. Newlines(t, i, comment) = 0
    BY <1>1, <2>1, <2>4, NoNewlines
  <2>6. IsLexer(out) /\ (NoErrors(out) => NoErrors(lx))
    BY <1>1, <2>1, <2>3 DEF IsLexer, NoErrors
  <2>7. out.at = comment /\ comment # 0 /\ ReachedIn(t, out) = comment /\ out.line = lx.line
    BY <1>1, <2>1, <2>3 DEF ReachedIn
  <2>8. QED
    BY <1>1, <2>1, <2>2, <2>5, <2>6, <2>7 DEF Counts
<1>4. CASE c = "/" /\ next = "*"
  <2> DEFINE out == [lx EXCEPT !.at = i + 1]
  <2>1. EmplacePunctuation(t, lx, i) = out
    BY <1>4 DEF EmplacePunctuation
  <2>2. out = [at |-> i + 1, line |-> lx.line, tokens |-> lx.tokens]
    BY DEF IsLexer
  <2> HIDE DEF out
  <2>3. \A k \in i .. (i + 1) - 1 : CharAt(t, k) # "\n"
    BY <1>1
  <2>4. Newlines(t, i, i + 1) = 0
    BY <1>1, <2>3, NoNewlines
  <2>5. IsLexer(out) /\ (NoErrors(out) => NoErrors(lx))
    BY <1>1, <2>2 DEF IsLexer, NoErrors
  <2>6. out.at = i + 1 /\ i + 1 # 0 /\ ReachedIn(t, out) = i + 1 /\ out.line = lx.line
    BY <1>1, <2>2 DEF ReachedIn
  <2>7. QED
    BY <1>1, <2>1, <2>4, <2>5, <2>6 DEF Counts
<1>5. CASE ~ (c = "/" /\ next \in {"/", "*"}) /\ next \in Continuations[c]
  <2>1. EmplacePunctuation(t, lx, i) = Emit(lx, c \o next, c \o next, i + 2)
    BY <1>5 DEF EmplacePunctuation
  <2>2. next # End /\ next # "\n"
    BY <1>5, ContinuationsArePunctuation, Classes
  <2>3. i + 2 \in i + 1 .. Len(t) + 1
    BY <1>1, <1>2, <2>2
  <2>4. \A k \in i .. (i + 2) - 1 : k = i \/ k = i + 1
    BY <1>1
  <2>5. \A k \in i .. (i + 2) - 1 : CharAt(t, k) # "\n"
    BY <1>1, <2>2, <2>4
  <2>6. QED
    BY <2>1, <2>3, <2>5, EmitCounts
<1>6. CASE ~ (c = "/" /\ next \in {"/", "*"}) /\ next \notin Continuations[c]
  <2>1. EmplacePunctuation(t, lx, i) = Emit(lx, c, c, i + 1)
    BY <1>6 DEF EmplacePunctuation
  <2>2. i + 1 \in i + 1 .. Len(t) + 1 /\ \A k \in i .. (i + 1) - 1 : CharAt(t, k) # "\n"
    BY <1>1
  <2>3. QED
    BY <2>1, <2>2, EmitCounts
<1>7. QED
  BY <1>3, <1>4, <1>5, <1>6

LEMMA IdentifierCounts ==
  ASSUME NEW t, IsText(t), NEW i \in 1 .. Len(t), NEW lx, IsLexer(lx),
         t[i] \notin NotAllowed
  PROVE  Counts(t, lx, i, EmplaceIdentifier(t, lx, i))
<1> DEFINE end == Until(t, i + 1, NotAllowed)
           raw == Raw(t, i, end)
<1>1. /\ Len(t) \in Nat /\ CharAt(t, i) = t[i] /\ t[i] # "\n"
      /\ i \in Nat /\ i + 1 \in 1 .. Len(t) + 1
  BY TextFacts, Classes
<1>2. /\ end \in i + 1 .. Len(t) + 1
      /\ \A k \in i + 1 .. end - 1 : CharAt(t, k) # "\n"
  BY <1>1, UntilStops, Classes
<1>3. EmplaceIdentifier(t, lx, i)
        = Emit(lx, IF raw \in Keywords THEN raw ELSE "identifier", raw, end)
  BY DEF EmplaceIdentifier
<1> HIDE DEF end, raw
<1>4. \A k \in i .. end - 1 : CharAt(t, k) # "\n"
  BY <1>1, <1>2
<1>5. QED
  BY <1>2, <1>3, <1>4, EmitCounts

LEMMA NumberEnds ==
  ASSUME NEW t, IsText(t), NEW i \in 1 .. Len(t), t[i] \in Digits
  PROVE  /\ NumberEnd(t, i) \in i + 1 .. Len(t) + 1
         /\ \A k \in i .. NumberEnd(t, i) - 1 : CharAt(t, k) \in Digits \cup {"."}
<1> DEFINE whole == Past(t, i, Digits)
           fraction == Past(t, whole + 1, Digits)
<1>1. Len(t) \in Nat /\ CharAt(t, i) \in Digits /\ i \in 1 .. Len(t) + 1 /\ End \notin Digits
  BY TextFacts, Classes
<1>2. /\ whole \in i .. Len(t) + 1 /\ CharAt(t, whole) \notin Digits
      /\ \A k \in i .. whole - 1 : CharAt(t, k) \in Digits
  BY <1>1, PastStops
<1>3. NumberEnd(t, i) = IF CharAt(t, whole) = "." /\ CharAt(t, whole + 1) \in Digits
                        THEN fraction ELSE whole
  BY DEF NumberEnd
<1> HIDE DEF whole
<1>4. whole # i
  BY <1>1, <1>2
<1>5. CASE CharAt(t, whole) = "." /\ CharAt(t, whole + 1) \in Digits
  <2>1. whole + 1 \in 1 .. Len(t)
    BY <1>1, <1>2, <1>5, TextFacts
  <2>2. /\ fraction \in whole + 1 .. Len(t) + 1
        /\ \A k \in whole + 1 .. fraction - 1 : CharAt(t, k) \in Digits
    BY <1>1, <2>1, PastStops
  <2> HIDE DEF fraction
  <2>3. fraction \in i + 1 .. Len(t) + 1
    BY <1>1, <1>2, <1>4, <2>2
  <2>4. ASSUME NEW k \in i .. fraction - 1 PROVE CharAt(t, k) \in Digits \cup {"."}
    <3>1. k \in i .. whole - 1 \/ k = whole \/ k \in whole + 1 .. fraction - 1
      BY <1>1, <1>2, <2>2
    <3>2. QED
      BY <1>2, <1>5, <2>2, <3>1
  <2>5. QED
    BY <1>3, <1>5, <2>3, <2>4
<1>6. CASE ~ (CharAt(t, whole) = "." /\ CharAt(t, whole + 1) \in Digits)
  <2>1. whole \in i + 1 .. Len(t) + 1
    BY <1>1, <1>2, <1>4
  <2>2. QED
    BY <1>2, <1>3, <1>6, <2>1
<1>7. QED
  BY <1>5, <1>6

LEMMA StringCounts ==
  ASSUME NEW t, IsText(t), NEW i \in 1 .. Len(t), NEW lx, IsLexer(lx),
         t[i] \in Quotes
  PROVE  Counts(t, lx, i, EmplaceString(t, lx, i))
<1> DEFINE close == Until(t, i + 1, {t[i]})
           lines == Newlines(t, i, close)
           read == [lx EXCEPT !.line = @ + lines]
           out == EmplaceString(t, lx, i)
<1>1. /\ Len(t) \in Nat /\ i \in Nat /\ i + 1 \in 1 .. Len(t) + 1
      /\ lx.line \in Nat /\ t[i] # "\n"
  BY TextFacts, Classes DEF IsLexer
<1>2. close \in i + 1 .. Len(t) + 1 /\ CharAt(t, close) \in {t[i], End}
  BY <1>1, UntilStops
<1>3. out = IF CharAt(t, close) = End THEN Emit(read, "error", "unterminated string", close)
            ELSE Emit(read, "string", Raw(t, i + 1, close), close + 1)
  BY DEF EmplaceString
<1> HIDE DEF close, out
<1>4. lines \in Nat
  <2>1. close \in Nat
    BY <1>1, <1>2
  <2>2. QED
    BY <1>1, <2>1, NewlinesType
<1> HIDE DEF lines
<1>5. read = [at |-> lx.at, line |-> lx.line + lines, tokens |-> lx.tokens]
  BY DEF IsLexer
<1>6. IsLexer(read) /\ read.line = lx.line + lines /\ (NoErrors(read) => NoErrors(lx))
  BY <1>1, <1>4, <1>5 DEF IsLexer, NoErrors
<1> HIDE DEF read
<1>7. CASE CharAt(t, close) = End
  <2>1. out = Emit(read, "error", "unterminated string", close)
    BY <1>3, <1>7
  <2>2. close \in Nat /\ close # 0
    BY <1>1, <1>2
  <2>3. /\ IsLexer(out) /\ out.at = close /\ out.line = lx.line + lines
        /\ ~ NoErrors(out)
    BY <1>6, <2>1, <2>2, ErrorEffect
  <2>4. ReachedIn(t, out) = close
    BY <2>2, <2>3 DEF ReachedIn
  <2>5. Newlines(t, i, ReachedIn(t, out)) = lines
    BY <2>4 DEF lines
  <2>6. QED
    BY <1>1, <1>2, <1>4, <2>2, <2>3, <2>5 DEF Counts, out
<1>8. CASE CharAt(t, close) # End
  <2>1. out = Emit(read, "string", Raw(t, i + 1, close), close + 1)
    BY <1>3, <1>8
  <2>2. close \in 1 .. Len(t)
    BY <1>1, <1>2, <1>8, TextFacts
  <2>3. close + 1 \in Nat /\ close + 1 # 0 /\ close + 1 \in i + 1 .. Len(t) + 1
    BY <1>1, <1>2, <2>2
  <2>4. /\ IsLexer(out) /\ out.at = close + 1 /\ out.line = lx.line + lines
        /\ NoErrors(out) => NoErrors(lx)
    BY <1>6, <2>1, <2>3, EmitEffect
  <2>5. \A k \in close .. (close + 1) - 1 : CharAt(t, k) # "\n"
    BY <1>1, <1>2, <1>8, <2>2
  <2>6. Newlines(t, close, close + 1) = 0
    BY <2>2, <2>3, <2>5, NoNewlines
  <2>7. Newlines(t, i, close + 1) = Newlines(t, i, close) + Newlines(t, close, close + 1)
    BY <1>1, <1>2, <2>2, <2>3, NewlinesAddUp
  <2>8. Newlines(t, i, close + 1) = lines
    BY <1>4, <2>6, <2>7 DEF lines
  <2>9. ReachedIn(t, out) = close + 1
    BY <2>3, <2>4 DEF ReachedIn
  <2>10. QED
    BY <1>1, <1>4, <2>3, <2>4, <2>8, <2>9 DEF Counts, out
<1>9. QED
  BY <1>7, <1>8

(* What no token begins with is skipped with the character behind it, which *)
(* may be the end.                                                         *)
LEMMA UnexpectedCounts ==
  ASSUME NEW t, IsText(t), NEW i \in 1 .. Len(t), NEW lx, IsLexer(lx),
         t[i] \notin Punctuation \cup White \cup Quotes \cup Digits
  PROVE  Counts(t, lx, i, Emit(lx, "error", "unexpected character", After(t, i + 1)))
<1> DEFINE out == Emit(lx, "error", "unexpected character", After(t, i + 1))
<1>1. /\ Len(t) \in Nat /\ i \in Nat /\ lx.line \in Nat
  BY TextFacts DEF IsLexer
<1>2. /\ After(t, i + 1) \in {0} \cup (i + 1 .. Len(t) + 1)
      /\ After(t, i + 1) = 0 => i = Len(t)
  <2>1. CharAt(t, i + 1) = End <=> i + 1 \notin 1 .. Len(t)
    BY <1>1, TextFacts
  <2>2. QED
    BY <1>1, <2>1 DEF After
<1>3. After(t, i + 1) \in Nat
  BY <1>1, <1>2
<1>4. /\ IsLexer(out) /\ out.at = After(t, i + 1) /\ out.line = lx.line
      /\ ~ NoErrors(out)
  BY <1>3, ErrorEffect
<1> HIDE DEF out
<1>5. ReachedIn(t, out) \in Nat
  BY <1>1, <1>3, <1>4 DEF ReachedIn
<1>6. Newlines(t, i, ReachedIn(t, out)) \in Nat
  BY <1>1, <1>5, NewlinesType
<1>7. Counts(t, lx, i, out)
  BY <1>1, <1>2, <1>4, <1>6 DEF Counts
<1>8. QED
  BY <1>7 DEF out

-----------------------------------------------------------------------------
(* A turn of the loop: white space, and then what begins with the          *)
(* character behind it.                                                    *)
Begins(t, here, i, out) ==
  LET c == CharAt(t, i) IN
  \/ c = End /\ out = Emit(here, "eof", "", i)
  \/ c \in Punctuation /\ out = EmplacePunctuation(t, here, i)
  \/ c \in Quotes /\ out = EmplaceString(t, here, i)
  \/ /\ c \in Digits
     /\ out = Emit(here, "number", Raw(t, i, NumberEnd(t, i)), NumberEnd(t, i))
  \/ c \notin NotAllowed /\ out = EmplaceIdentifier(t, here, i)
  \/ /\ c \notin Punctuation \cup Quotes \cup Digits \cup {End}
     /\ out = Emit(here, "error", "unexpected character", After(t, i + 1))

LEMMA LexTokenCases ==
  ASSUME NEW t, NEW lx, NEW i, i = Past(t, lx.at, White),
         NEW here, here = [lx EXCEPT !.line = @ + Newlines(t, lx.at, i)]
  PROVE  Begins(t, here, i, LexToken(t, lx))
<1> DEFINE c == CharAt(t, i)
<1>1. CASE c = End
  BY <1>1, Classes DEF LexToken, Begins
<1>2. CASE c \in Punctuation
  BY <1>2, Classes DEF LexToken, Begins
<1>3. CASE c \in Quotes
  BY <1>3, Classes DEF LexToken, Begins
<1>4. CASE c \in Digits
  BY <1>4, Classes DEF LexToken, Begins
<1>5. CASE c \notin NotAllowed \cup Punctuation \cup Digits
  BY <1>5, Classes DEF LexToken, Begins
<1>6. CASE c \in NotAllowed \ (Punctuation \cup Quotes \cup Digits \cup {End})
  BY <1>6, Classes DEF LexToken, Begins
<1>7. QED
  BY <1>1, <1>2, <1>3, <1>4, <1>5, <1>6

LEMMA TokenCounts ==
  ASSUME NEW t, IsText(t), NEW i \in 1 .. Len(t), CharAt(t, i) \notin White,
         NEW here, IsLexer(here), NEW out, Begins(t, here, i, out)
  PROVE  Counts(t, here, i, out)
<1> DEFINE c == t[i]
           raw == Raw(t, i, NumberEnd(t, i))
<1>1. CharAt(t, i) = c /\ c # End /\ Len(t) \in Nat
  BY TextFacts
<1>2. \/ c \in Punctuation /\ out = EmplacePunctuation(t, here, i)
      \/ c \in Quotes /\ out = EmplaceString(t, here, i)
      \/ c \in Digits /\ out = Emit(here, "number", raw, NumberEnd(t, i))
      \/ c \notin NotAllowed /\ out = EmplaceIdentifier(t, here, i)
      \/ /\ c \notin Punctuation \cup White \cup Quotes \cup Digits
         /\ out = Emit(here, "error", "unexpected character", After(t, i + 1))
  BY <1>1 DEF Begins
<1> HIDE DEF raw
<1>3. CASE c \in Digits /\ out = Emit(here, "number", raw, NumberEnd(t, i))
  <2>1. /\ NumberEnd(t, i) \in i + 1 .. Len(t) + 1
        /\ \A k \in i .. NumberEnd(t, i) - 1 : CharAt(t, k) \in Digits \cup {"."}
    BY <1>3, NumberEnds
  <2>2. "\n" \notin Digits \cup {"."}
    BY Classes
  <2>3. \A k \in i .. NumberEnd(t, i) - 1 : CharAt(t, k) # "\n"
    BY <2>1, <2>2
  <2>4. QED
    BY <1>3, <2>1, <2>3, EmitCounts
<1>4. CASE /\ c \notin Punctuation \cup White \cup Quotes \cup Digits
           /\ out = Emit(here, "error", "unexpected character", After(t, i + 1))
  BY <1>4, UnexpectedCounts
<1>5. CASE c \in Punctuation /\ out = EmplacePunctuation(t, here, i)
  BY <1>5, PunctuationCounts
<1>6. CASE c \in Quotes /\ out = EmplaceString(t, here, i)
  BY <1>6, StringCounts
<1>7. CASE c \notin NotAllowed /\ out = EmplaceIdentifier(t, here, i)
  BY <1>7, IdentifierCounts
<1>8. QED
  BY <1>2, <1>3, <1>4, <1>5, <1>6, <1>7

(* What a turn of the loop makes of a lexer that has a position.           *)
Turned(t, lx, out) ==
  /\ IsLexer(out) /\ out.at \in {0} \cup (lx.at .. Len(t) + 1)
  /\ out.line \in lx.line .. lx.line + Newlines(t, lx.at, ReachedIn(t, out))
  /\ NoErrors(out) =>
       /\ NoErrors(lx) /\ out.at # 0
       /\ out.line = lx.line + Newlines(t, lx.at, out.at)
  /\ out.at = 0 => Last(t) \notin Punctuation \cup White \cup Quotes \cup Digits
  /\ out.at = lx.at => out.tokens # << >> /\ Last(out.tokens).type = "eof"

LEMMA WhiteSpace ==
  ASSUME NEW lx, IsLexer(lx), NEW lines \in Nat
  PROVE  LET here == [lx EXCEPT !.line = @ + lines] IN
         /\ IsLexer(here) /\ here.line = lx.line + lines
         /\ NoErrors(here) => NoErrors(lx)
<1>1. PICK a, l, s : lx = [at |-> a, line |-> l, tokens |-> s]
  BY DEF IsLexer
<1>2. a \in Nat /\ l \in Nat /\ IsSequence(s) /\ lx.line = l
  BY <1>1 DEF IsLexer
<1> DEFINE here == [lx EXCEPT !.line = @ + lines]
<1>3. here = [at |-> a, line |-> l + lines, tokens |-> s]
  BY <1>1
<1> HIDE DEF here
<1>4. IsLexer(here) /\ here.line = l + lines /\ (NoErrors(here) => NoErrors(lx))
  BY <1>1, <1>2, <1>3 DEF IsLexer, NoErrors
<1>5. QED
  BY <1>2, <1>4 DEF here

LEMMA EndCounts ==
  ASSUME NEW t, IsText(t), NEW lx, IsLexer(lx), lx.at \in 1 .. Len(t) + 1,
         NEW n, n = Len(t) + 1, NEW lines, lines = Newlines(t, lx.at, n),
         NEW here, IsLexer(here), here.line = lx.line + lines,
         NoErrors(here) => NoErrors(lx),
         NEW raw, NEW out, out = Emit(here, "eof", raw, n)
  PROVE  Turned(t, lx, out)
<1>1. Len(t) \in Nat /\ lx.line \in Nat
  BY TextFacts DEF IsLexer
<1>2. n \in Nat /\ n # 0 /\ lx.at \in Nat /\ lx.at <= n /\ lx.at # 0
  BY <1>1
<1>3. lines \in Nat
  BY <1>2, NewlinesType
<1>4. /\ IsLexer(out) /\ out.at = n /\ out.line = here.line
      /\ NoErrors(out) => NoErrors(here)
      /\ out.tokens # << >> /\ Last(out.tokens).type = "eof"
  BY <1>2, EmitEffect
<1>5. ReachedIn(t, out) = n
  BY <1>2, <1>4 DEF ReachedIn
<1>6. out.at \in {0} \cup (lx.at .. Len(t) + 1)
  BY <1>1, <1>2, <1>4
<1>7. out.line \in lx.line .. lx.line + Newlines(t, lx.at, ReachedIn(t, out))
  BY <1>1, <1>3, <1>4, <1>5
<1>8. QED
  BY <1>2, <1>4, <1>6, <1>7 DEF Turned

LEMMA CountsOn ==
  ASSUME NEW t, IsText(t), NEW lx, IsLexer(lx), lx.at \in 1 .. Len(t) + 1,
         NEW i \in 1 .. Len(t), lx.at <= i,
         NEW here, IsLexer(here), NEW lines, lines = Newlines(t, lx.at, i),
         here.line = lx.line + lines, NoErrors(here) => NoErrors(lx),
         NEW out, Counts(t, here, i, out)
  PROVE  Turned(t, lx, out)
<1> DEFINE reached == ReachedIn(t, out)
           rest == Newlines(t, i, reached)
<1>1. Len(t) \in Nat /\ lx.at \in Nat /\ lx.at # 0 /\ i \in Nat /\ lx.line \in Nat
  BY TextFacts DEF IsLexer
<1>2. /\ IsLexer(out) /\ out.at \in {0} \cup (i + 1 .. Len(t) + 1)
      /\ out.line \in here.line .. here.line + rest
      /\ NoErrors(out) => /\ NoErrors(here) /\ out.at # 0
                          /\ out.line = here.line + Newlines(t, i, out.at)
      /\ out.at = 0 =>
           i = Len(t) /\ t[i] \notin Punctuation \cup White \cup Quotes \cup Digits
  BY DEF Counts
<1>3. reached \in Nat /\ i <= reached /\ (out.at # 0 => reached = out.at)
  BY <1>1, <1>2 DEF ReachedIn
<1>4. rest \in Nat /\ lines \in Nat
  BY <1>1, <1>3, NewlinesType
<1>5. Newlines(t, lx.at, reached) = lines + rest
  BY <1>1, <1>3, NewlinesAddUp
<1> HIDE DEF reached
<1>6. out.line \in lx.line .. lx.line + Newlines(t, lx.at, reached)
  <2>1. out.line \in Nat
    BY <1>2 DEF IsLexer
  <2>2. QED
    BY <1>1, <1>2, <1>4, <1>5, <2>1
<1>7. ASSUME NoErrors(out)
      PROVE  /\ NoErrors(lx) /\ out.at # 0
             /\ out.line = lx.line + Newlines(t, lx.at, out.at)
  <2>1. out.at # 0 /\ NoErrors(lx) /\ out.line = here.line + Newlines(t, i, out.at)
    BY <1>2, <1>7
  <2>2. rest = Newlines(t, i, out.at) /\ Newlines(t, lx.at, out.at) = lines + rest
    BY <1>3, <1>5, <2>1
  <2>3. QED
    BY <1>1, <1>4, <2>1, <2>2
<1>8. out.at = 0 => Last(t) \notin Punctuation \cup White \cup Quotes \cup Digits
  BY <1>2 DEF Last
<1>9. out.at \in {0} \cup (lx.at .. Len(t) + 1) /\ out.at # lx.at
  BY <1>1, <1>2
<1>10. QED
  BY <1>2, <1>6, <1>7, <1>8, <1>9 DEF Turned, reached

LEMMA TurnCounts ==
  ASSUME NEW t, IsText(t), NEW lx, IsLexer(lx), lx.at \in 1 .. Len(t) + 1
  PROVE  Turned(t, lx, LexToken(t, lx))
<1>1. PICK i : i = Past(t, lx.at, White)
  OBVIOUS
<1>2. PICK lines : lines = Newlines(t, lx.at, i)
  OBVIOUS
<1>3. PICK here : here = [lx EXCEPT !.line = @ + lines]
  OBVIOUS
<1>4. PICK out : out = LexToken(t, lx)
  OBVIOUS
<1>5. Len(t) \in Nat /\ lx.at \in Nat /\ End \notin White
  BY TextFacts, Classes
<1>6. i \in lx.at .. Len(t) + 1 /\ CharAt(t, i) \notin White
  BY <1>1, <1>5, PastStops
<1>7. i \in Nat /\ lx.at <= i
  BY <1>5, <1>6
<1>8. lines \in Nat
  BY <1>2, <1>5, <1>7, NewlinesType
<1>9. IsLexer(here) /\ here.line = lx.line + lines /\ (NoErrors(here) => NoErrors(lx))
  BY <1>3, <1>8, WhiteSpace
<1>10. Begins(t, here, i, out)
  BY <1>1, <1>2, <1>3, <1>4, LexTokenCases
<1>11. CASE i = Len(t) + 1
  <2>1. CharAt(t, i) = End
    BY <1>5, <1>11, TextFacts
  <2>2. out = Emit(here, "eof", "", i)
    BY <1>10, <2>1, Classes DEF Begins
  <2>3. Turned(t, lx, out)
    BY <1>2, <1>9, <1>11, <2>2, EndCounts
  <2>4. QED
    BY <1>4, <2>3
<1>12. CASE i # Len(t) + 1
  <2>1. i \in 1 .. Len(t)
    BY <1>5, <1>6, <1>12
  <2>2. Counts(t, here, i, out)
    BY <1>6, <1>9, <1>10, <2>1, TokenCounts
  <2>3. Turned(t, lx, out)
    BY <1>2, <1>7, <1>9, <2>1, <2>2, CountsOn
  <2>4. QED
    BY <1>4, <2>3
<1>13. QED
  BY <1>11, <1>12

-----------------------------------------------------------------------------
(* The inductive invariant: a line is counted for every newline at most    *)
(* that lies before the position.                                          *)
IInv ==
  /\ IsText(text) /\ IsLexer(lexer)
  /\ lexer.at \in 0 .. Len(text) + 1
  /\ stage = "lexing" => lexer.at # 0
  /\ lexer.line <= Newlines(text, 1, ReachedIn(text, lexer))
  /\ LinesAreCounted
  /\ NullOnlyBehindUnexpected

LEMMA InitIInv == LexingInit => IInv
<1> SUFFICES ASSUME LexingInit PROVE IInv
  OBVIOUS
<1>1. IsText(text) /\ Len(text) \in Nat /\ stage = "lexing"
  BY TextFacts DEF LexingInit
<1>2. lexer = [at |-> 1, line |-> 0, tokens |-> << >>]
  BY DEF LexingInit, StartLexing
<1>3. IsSequence(<< >>)
  BY DEF IsSequence
<1>4. IsLexer(lexer) /\ lexer.at = 1 /\ lexer.line = 0 /\ ReachedIn(text, lexer) = 1
  BY <1>2, <1>3 DEF IsLexer, ReachedIn
<1>5. Newlines(text, 1, 1) = 0
  BY NoNewlines
<1>6. QED
  BY <1>1, <1>4, <1>5 DEF IInv, LinesAreCounted, NullOnlyBehindUnexpected

LEMMA RejectInputKeeps == ASSUME IInv, RejectInput PROVE IInv'
<1> DEFINE token == Token("error", "invalid utf-8 input", 0)
<1>1. /\ text' = text /\ stage' = "parsing" /\ lexer.at # 0
      /\ lexer' = [lexer EXCEPT !.tokens = <<token>>]
  BY DEF RejectInput, IInv
<1>2. PICK a, l, s : lexer = [at |-> a, line |-> l, tokens |-> s]
  BY DEF IInv, IsLexer
<1>3. lexer' = [at |-> lexer.at, line |-> lexer.line, tokens |-> <<token>>]
  <2> HIDE DEF token
  <2>1. QED
    BY <1>1, <1>2
<1>4. token.type = "error"
  BY DEF Token
<1> HIDE DEF token
<1>5. IsSequence(<<token>>) /\ 1 \in DOMAIN <<token>> /\ <<token>>[1] = token
  <2>1. <<token>> \in Seq({token})
    OBVIOUS
  <2>2. IsSequence(<<token>>)
    BY <2>1, Zenon DEF IsSequence
  <2>3. 1 \in DOMAIN <<token>> /\ <<token>>[1] = token
    OBVIOUS
  <2>4. QED
    BY <2>2, <2>3
<1>6. lexer'.at = lexer.at /\ lexer'.line = lexer.line /\ lexer'.tokens = <<token>>
  BY <1>3
<1>7. IsLexer(lexer')
  BY <1>3, <1>5, <1>6 DEF IInv, IsLexer
<1>8. ~ NoErrors(lexer')
  BY <1>4, <1>5, <1>6 DEF NoErrors
<1>9. LinesAreCounted'
  BY <1>8 DEF LinesAreCounted, NoErrors
<1>10. ReachedIn(text', lexer') = ReachedIn(text, lexer)
  BY <1>1, <1>6 DEF ReachedIn
<1>11. QED
  BY <1>1, <1>6, <1>7, <1>9, <1>10 DEF IInv, NullOnlyBehindUnexpected

LEMMA RefuseEmptyKeeps == ASSUME IInv, RefuseEmpty PROVE IInv'
  BY DEF IInv, RefuseEmpty, LinesAreCounted, NullOnlyBehindUnexpected

(* What a token does, and that it moves on.                                *)
LEMMA LexOneKeeps == ASSUME IInv, LexOne PROVE IInv' /\ MovesOn
<1>1. /\ text' = text /\ IsText(text) /\ IsLexer(lexer)
      /\ lexer' = LexToken(text, lexer) /\ lexer.at # 0
  BY DEF IInv, LexOne
<1>2. Len(text) \in Nat /\ lexer.at \in 1 .. Len(text) + 1
  BY <1>1, TextFacts DEF IInv
<1>3. Turned(text, lexer, lexer')
  BY <1>1, <1>2, TurnCounts
<1> DEFINE reached == ReachedIn(text, lexer')
<1>4. /\ IsLexer(lexer') /\ lexer'.at \in {0} \cup (lexer.at .. Len(text) + 1)
      /\ lexer'.line \in lexer.line .. lexer.line + Newlines(text, lexer.at, reached)
      /\ NoErrors(lexer') =>
           /\ NoErrors(lexer) /\ lexer'.at # 0
           /\ lexer'.line = lexer.line + Newlines(text, lexer.at, lexer'.at)
      /\ lexer'.at = 0 => Last(text) \notin Punctuation \cup White \cup Quotes \cup Digits
      /\ lexer'.at = lexer.at => lexer'.tokens # << >> /\ Last(lexer'.tokens).type = "eof"
  BY <1>3 DEF Turned
<1>5. reached \in Nat /\ lexer.at <= reached /\ (lexer'.at # 0 => reached = lexer'.at)
  BY <1>2, <1>4 DEF ReachedIn
<1> HIDE DEF reached
<1>6. /\ lexer.at \in Nat /\ 1 <= lexer.at /\ lexer.line \in Nat
      /\ lexer'.line \in Nat /\ lexer'.at \in 0 .. Len(text) + 1
  BY <1>1, <1>2, <1>4 DEF IsLexer
<1>7. /\ Newlines(text, 1, reached)
           = Newlines(text, 1, lexer.at) + Newlines(text, lexer.at, reached)
      /\ Newlines(text, 1, lexer.at) \in Nat /\ Newlines(text, lexer.at, reached) \in Nat
  <2>1. 1 \in Nat
    OBVIOUS
  <2>2. QED
    BY <1>5, <1>6, <2>1, NewlinesAddUp, NewlinesType
<1>8. lexer'.line <= Newlines(text, 1, reached)
  <2>1. lexer.line <= Newlines(text, 1, lexer.at)
    BY <1>1 DEF IInv, ReachedIn
  <2>2. QED
    BY <1>4, <1>6, <1>7, <2>1
<1>9. LinesAreCounted'
  <2>1. SUFFICES ASSUME NoErrors(lexer')
                 PROVE  lexer'.line = Newlines(text, 1, lexer'.at)
    BY <1>1 DEF LinesAreCounted, NoErrors
  <2>2. /\ NoErrors(lexer) /\ reached = lexer'.at
        /\ lexer'.line = lexer.line + Newlines(text, lexer.at, lexer'.at)
    BY <1>4, <1>5, <2>1
  <2>3. lexer.line = Newlines(text, 1, lexer.at)
    BY <1>1, <2>2 DEF IInv, LinesAreCounted, NoErrors
  <2>4. QED
    BY <1>7, <2>2, <2>3
<1>10. NullOnlyBehindUnexpected'
  BY <1>1, <1>4 DEF NullOnlyBehindUnexpected
<1>11. /\ stage' = "lexing" => lexer'.at # 0
       /\ stage' = "lexing" => ~ (lexer'.tokens # << >> /\ Last(lexer'.tokens).type = "eof")
  BY DEF LexOne
<1>12. MovesOn
  BY <1>2, <1>4, <1>6, <1>11 DEF MovesOn
<1>13. IInv'
  BY <1>1, <1>4, <1>6, <1>8, <1>9, <1>10, <1>11 DEF IInv, reached
<1>14. QED
  BY <1>12, <1>13

LEMMA AfterLexingKeeps == ASSUME IInv, AfterLexing PROVE IInv'
  BY DEF IInv, AfterLexing, LinesAreCounted, NullOnlyBehindUnexpected


LEMMA NextKeeps == IInv /\ [LexingNext]_lexingVars => IInv'
<1>1. ASSUME IInv, UNCHANGED lexingVars PROVE IInv'
  BY <1>1 DEF IInv, lexingVars, LinesAreCounted, NullOnlyBehindUnexpected
<1>2. QED
  BY <1>1, RejectInputKeeps, RefuseEmptyKeeps, LexOneKeeps, AfterLexingKeeps
     DEF LexingNext

(* On every text the position, the lines and their count go together.      *)
THEOREM Inductive == LexingSpec => []IInv
<1>1. LexingInit => IInv
  BY InitIInv
<1>2. IInv /\ [LexingNext]_lexingVars => IInv'
  BY NextKeeps
<1>3. QED
  BY <1>1, <1>2, PTL DEF LexingSpec

(* The lexer stays inside the text, and counts no line that is not there.  *)
THEOREM LexerTypeCorrect == LexingSpec => []LexerTypeOK
<1>1. ASSUME IInv PROVE LexerTypeOK
  <2>1. IsText(text) /\ Len(text) \in Nat /\ lexer.line \in Nat
    BY <1>1, TextFacts DEF IInv, IsLexer
  <2>2. ReachedIn(text, lexer) \in 1 .. Len(text) + 1
    BY <1>1, <2>1 DEF IInv, ReachedIn
  <2> DEFINE reached == ReachedIn(text, lexer)
  <2> HIDE DEF reached
  <2>3. reached \in Nat /\ 1 <= reached /\ reached <= Len(text) + 1 /\ Len(text) + 1 \in Nat
    BY <2>1, <2>2 DEF reached
  <2>4. /\ Newlines(text, 1, Len(text) + 1)
             = Newlines(text, 1, reached) + Newlines(text, reached, Len(text) + 1)
        /\ Newlines(text, 1, reached) \in Nat
        /\ Newlines(text, reached, Len(text) + 1) \in Nat
    BY <2>3, NewlinesAddUp, NewlinesType
  <2>5. lexer.line <= Newlines(text, 1, reached)
    BY <1>1 DEF IInv, reached
  <2>6. lexer.line \in 0 .. Newlines(text, 1, Len(text) + 1)
    BY <2>1, <2>4, <2>5
  <2>7. QED
    BY <1>1, <2>1, <2>6 DEF IInv, LexerTypeOK
<1>2. QED
  BY <1>1, Inductive, PTL

(* As long as there is no error, every newline is counted once: in white   *)
(* space, in strings, and none in anything else.                           *)
THEOREM EveryLineIsCounted == LexingSpec => []LinesAreCounted
<1>1. IInv => LinesAreCounted
  BY DEF IInv
<1>2. QED
  BY <1>1, Inductive, PTL

(* lexer::lex's last line: only an unexpected character that is the last   *)
(* one takes the position behind the end.                                  *)
THEOREM NullIsBehindUnexpected == LexingSpec => []NullOnlyBehindUnexpected
<1>1. IInv => NullOnlyBehindUnexpected
  BY DEF IInv
<1>2. QED
  BY <1>1, Inductive, PTL

(* Every turn of lexer::lex's loop but the last gets further in the text,  *)
(* whatever is there: it turns no more often than there are characters.    *)
THEOREM LexerMovesOn == LexingSpec => [][MovesOn]_lexingVars
<1>1. IInv /\ [LexingNext]_lexingVars => [MovesOn]_lexingVars
  <2>1. ASSUME IInv, LexingNext PROVE MovesOn
    <3>1. RejectInput \/ RefuseEmpty \/ AfterLexing => stage' # "lexing"
      BY DEF RejectInput, RefuseEmpty, AfterLexing
    <3>2. QED
      BY <2>1, <3>1, LexOneKeeps DEF LexingNext, MovesOn
  <2>2. QED
    BY <2>1
<1>2. QED
  BY <1>1, Inductive, PTL DEF LexingSpec
=============================================================================
