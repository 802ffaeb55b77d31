------------------------------- MODULE Lexing -------------------------------
(***************************************************************************)
(* lexer::lex on one text, a turn of its loop at a time, as compile calls   *)
(* it.  FrontEnd goes on from here.                                         *)
(***************************************************************************)
EXTENDS Lexer

VARIABLES
  text,      \* p_src
  lexer,     \* The lexer: its position, its line and its tokens
  stage      \* Where compile is, or how it ended

lexingVars == <<text, lexer, stage>>

IsText(t) == t \in Seq(STRING) /\ \A i \in DOMAIN t : t[i] # End
-----------------------------------------------------------------------------
LexingInit ==
  /\ IsText(text)
  /\ lexer = StartLexing(text)
  /\ stage = "lexing"

(* A text that is not UTF-8 has one token, which is an error.               *)
RejectInput ==
  /\ stage = "lexing"
  /\ Contains(text, Invalid)
  /\ lexer' = [lexer EXCEPT !.tokens = <<Token("error", "invalid utf-8 input", 0)>>]
  /\ stage' = "parsing"
  /\ UNCHANGED text

(* An empty text has no tokens, and no program.                             *)
RefuseEmpty ==
  /\ stage = "lexing"
  /\ text = << >>
  /\ stage' = "refused"
  /\ UNCHANGED <<text, lexer>>

(* A token; a lexer whose position is null crashes when it skips white      *)
(* space.                                                                   *)
LexOne ==
  /\ stage = "lexing"
  /\ text # << >>
  /\ ~ Contains(text, Invalid)
  /\ lexer' = LexToken(text, lexer)
  /\ stage' = IF lexer'.at = 0 THEN "crashed"
              ELSE IF lexer'.tokens # << >> /\ Last(lexer'.tokens).type = "eof"
              THEN "parsing" ELSE "lexing"
  /\ UNCHANGED text

(* What compile does afterwards leaves the text and its tokens alone.       *)
AfterLexing ==
  /\ stage # "lexing" /\ stage' # "lexing"
  /\ UNCHANGED <<text, lexer>>

LexingNext == RejectInput \/ RefuseEmpty \/ LexOne \/ AfterLexing

LexingSpec == LexingInit /\ [][LexingNext]_lexingVars
-----------------------------------------------------------------------------
(* The position is in the text, at its end or null, and there are no more   *)
(* lines than newlines.                                                     *)
LexerTypeOK ==
  /\ IsText(text)
  /\ lexer.at \in 0 .. Len(text) + 1
  /\ lexer.line \in 0 .. Newlines(text, 1, Len(text) + 1)

(* Up to the first error, the line of a token is the number of newlines     *)
(* before its end, comments and strings of several lines included.          *)
LinesAreCounted ==
  lexer.at # 0 /\ (\A i \in DOMAIN lexer.tokens : lexer.tokens[i].type # "error") =>
    lexer.line = Newlines(text, 1, lexer.at)

(* The position is null only behind an unexpected character at the end of   *)
(* the text.                                                                *)
NullOnlyBehindUnexpected ==
  lexer.at = 0 => Last(text) \notin Punctuation \cup White \cup Quotes \cup Digits

(* A turn of the loop gets on, or the position is null.                     *)
MovesOn ==
  stage = "lexing" /\ stage' = "lexing" => lexer'.at > lexer.at
=============================================================================
