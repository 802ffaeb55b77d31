------------------------------- MODULE Lexer -------------------------------
(***************************************************************************)
(* The lexer (lexer.hpp, lexer.cpp).  A text is a sequence of characters;   *)
(* a character is a string, and the letters of a word that are always       *)
(* written together may be one character.  lx.at is m_current_position, the *)
(* index of a character, Len(text) + 1 at the terminating null character    *)
(* and 0 when the pointer is null.                                          *)
(***************************************************************************)
EXTENDS Naturals, Sequences, FiniteSetsExt, SequencesExt

End == "end"
Invalid == "invalid byte"

Digits == {"0", "1", "2", "3", "4", "5", "6", "7", "8", "9"}
White == {" ", "\t", "\r", "\n"}
Quotes == {"'", "\""}

Punctuation ==
  {"(", ")", "{", "}", "[", "]", ";", ":", ",", ".", "?",
   "+", "-", "*", "/", "%", "&", "^", "|", "!", "=", "<", ">"}

(* What may follow each character of punctuation within one token.          *)
Continuations ==
  [c \in Punctuation |->
     CASE c = "+" -> {"+", "="}
       [] c = "-" -> {"-", "=", ">"}
       [] c \in {"*", "/", "%", "&", "^", "|", "!", "=", "<", ">"} -> {"="}
       [] OTHER -> {}]

(* The characters that end a word: "|", "?" and "~" are not among them.     *)
NotAllowed ==
  (Punctuation \ {"|", "?"}) \cup White \cup Quotes
    \cup {"#", "@", "$", "backslash", "backquote", End}

Keywords ==
  {"import", "as", "fu", "print", "let", "while", "for", "break", "continue",
   "if", "else", "and", "or", "class", "super", "inherits", "this", "null",
   "true", "false", "return", "not", "operator", "glob", "export", "mut",
   "static", "async", "try", "catch"}

Token(type, raw, line) == [type |-> type, raw |-> raw, line |-> line]

CharAt(text, i) == IF i \in 1 .. Len(text) THEN text[i] ELSE End

(* The first character from i on that is not in S, or the end.              *)
Past(text, i, S) == Min({j \in i .. Len(text) + 1 : CharAt(text, j) \notin S})

(* The first character from i on that is in S, or the end.                  *)
Until(text, i, S) ==
  Min({j \in i .. Len(text) + 1 : CharAt(text, j) \in S \cup {End}})

Raw(text, i, j) == FoldLeft(LAMBDA s, c : s \o c, "", SubSeq(text, i, j - 1))

Newlines(text, i, j) == Cardinality({k \in i .. j - 1 : CharAt(text, k) = "\n"})

(* lexer::lex before its loop.                                              *)
StartLexing(text) == [at |-> 1, line |-> 0, tokens |-> << >>]

Emit(lx, type, raw, at) ==
  [lx EXCEPT !.tokens = Append(@, Token(type, raw, lx.line)), !.at = at]

(* utf8::advance, which returns null at the terminating null character.     *)
After(text, i) == IF CharAt(text, i) = End THEN 0 ELSE i + 1

(* Mutant: a string's newlines are not counted.                             *)
EmplaceStringOnOneLine(text, lx, i) ==
  LET close == Until(text, i + 1, {text[i]})
  IN  IF CharAt(text, close) = End THEN Emit(lx, "error", "unterminated string", close)
      ELSE Emit(lx, "string", Raw(text, i + 1, close), close + 1)

(* lexer::emplace_string, after the opening quote at i.                     *)
EmplaceString(text, lx, i) ==
  LET close == Until(text, i + 1, {text[i]})
      read == [lx EXCEPT !.line = @ + Newlines(text, i, close)]
  IN  IF CharAt(text, close) = End THEN Emit(read, "error", "unterminated string", close)
      ELSE Emit(read, "string", Raw(text, i + 1, close), close + 1)

(* lexer::emplace_number.                                                   *)
NumberEnd(text, i) ==
  LET whole == Past(text, i, Digits)
  IN  IF CharAt(text, whole) = "." /\ CharAt(text, whole + 1) \in Digits
      THEN Past(text, whole + 1, Digits)
      ELSE whole

(* lexer::emplace_identifier and lookup_identifier.                         *)
EmplaceIdentifier(text, lx, i) ==
  LET end == Until(text, i + 1, NotAllowed)
      raw == Raw(text, i, end)
  IN  Emit(lx, IF raw \in Keywords THEN raw ELSE "identifier", raw, end)

(* A character of punctuation and the one that continues it.  A comment     *)
(* that begins with a slash and an asterisk ends where it begins: the loop  *)
(* that would read it stops at an asterisk, and it is at one.               *)
EmplacePunctuation(text, lx, i) ==
  LET c == text[i]
      next == CharAt(text, i + 1)
  IN  IF c = "/" /\ next = "/" THEN [lx EXCEPT !.at = Until(text, i + 1, {"\n"})]
      ELSE IF c = "/" /\ next = "*" THEN [lx EXCEPT !.at = i + 1]
      ELSE IF next \in Continuations[c] THEN Emit(lx, c \o next, c \o next, i + 2)
      ELSE Emit(lx, c, c, i + 1)

(* One turn of the loop of lexer::lex.                                      *)
LexToken(text, lx) ==
  LET i == Past(text, lx.at, White)
      here == [lx EXCEPT !.line = @ + Newlines(text, lx.at, i)]
      c == CharAt(text, i)
  IN  CASE c = End -> Emit(here, "eof", "", i)
        [] c \in Punctuation -> EmplacePunctuation(text, here, i)
        [] c \in Quotes -> EmplaceString(text, here, i)
        [] c \in Digits -> Emit(here, "number", Raw(text, i, NumberEnd(text, i)), NumberEnd(text, i))
        [] c \notin NotAllowed \cup Punctuation \cup Digits -> EmplaceIdentifier(text, here, i)
        [] OTHER -> Emit(here, "error", "unexpected character", After(text, i + 1))
=============================================================================
