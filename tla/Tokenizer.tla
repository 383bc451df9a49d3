------------------------------ MODULE Tokenizer ------------------------------
(***************************************************************************)
(* next_token (config/tokenizer.rs), called until the configuration ends.  *)
(* The file is read through a BufRead, which hands it out in buffers whose *)
(* ends fall anywhere: inside a token, between a backslash and its letter, *)
(* behind the line break that ends a comment.                              *)
(*                                                                         *)
(* A character is one symbol; "x" stands for every character without a     *)
(* meaning of its own, and "n" for the letters that may be escaped.        *)
(***************************************************************************)
EXTENDS Integers, Sequences

CONSTANTS
  Chars,  \* the characters
  Texts   \* the configurations

\* "n" may stand for a line break, whether the texts have one or not.
ASSUME TextsAssumption == "NL" \in Chars /\ Texts \subseteq Seq(Chars)

VARIABLES
  text,      \* the configuration
  filled,    \* how much of it the reader has handed out in buffers
  consumed,  \* how much of that was consumed
  at,        \* the loops over a buffer are behind this character
  mode,      \* "skip" in skip_whitespace, else the local mode of next_token
  token,     \* local token of next_token
  tokens     \* the tokens returned

tkvars == <<text, filled, consumed, at, mode, token, tokens>>

Modes == {"SKIP", "NORMAL", "QUOTED", "COMMENT", "ESCAPE", "END", "FAILED"}
Scanning == mode \notin {"END", "FAILED"}

TokInit ==
  /\ text \in Texts
  /\ filled = 0 /\ consumed = 0 /\ at = 0
  /\ mode = "SKIP" /\ token = <<>> /\ tokens = <<>>

Eof == consumed = Len(text)
Char == text[at + 1]

-----------------------------------------------------------------------------
(* Buffers *)

\* fill_buf, with nothing left of the buffer before.
Fill ==
  /\ Scanning /\ consumed = filled /\ ~Eof
  /\ filled' \in filled + 1 .. Len(text)
  /\ UNCHANGED <<text, consumed, at, mode, token, tokens>>

\* Mutant: a buffer of white space is not consumed.
BufferReadUnlessBlank ==
  /\ Scanning /\ at = filled /\ consumed # filled
  /\ consumed' = IF mode = "SKIP" THEN consumed ELSE filled
  /\ at' = consumed'
  /\ UNCHANGED <<text, filled, mode, token, tokens>>

\* The loop is behind the last character of the buffer.
BufferRead ==
  /\ Scanning /\ at = filled /\ consumed # filled
  /\ consumed' = filled
  /\ UNCHANGED <<text, filled, at, mode, token, tokens>>

Look == Scanning /\ at < filled

\* The loop goes on behind a character.
Step(m, t) ==
  /\ at' = at + 1 /\ mode' = m /\ token' = t
  /\ UNCHANGED <<text, filled, consumed, tokens>>

\* next_token returns, all up to p being consumed; the next call skips white space.
Return(p, t) ==
  /\ consumed' = p /\ at' = p
  /\ mode' = "SKIP" /\ token' = <<>> /\ tokens' = Append(tokens, t)
  /\ UNCHANGED <<text, filled>>

-----------------------------------------------------------------------------
(* skip_whitespace *)

IsBlank(c) == c \in {"SP", "NL"}

Skip == Look /\ mode = "SKIP" /\ Char = "SP" /\ Step("SKIP", token)

\* Mutant: the character that ends the white space is consumed with it.
SkipEndsBehind ==
  /\ Look /\ mode = "SKIP" /\ Char # "SP"
  /\ consumed' = at + 1
  /\ mode' = "NORMAL"
  /\ UNCHANGED <<text, filled, at, token, tokens>>

SkipEnds ==
  /\ Look /\ mode = "SKIP" /\ Char # "SP"
  /\ consumed' = at
  /\ mode' = "NORMAL"
  /\ UNCHANGED <<text, filled, at, token, tokens>>

-----------------------------------------------------------------------------
(* The modes of next_token *)

\* Mutant: the brace that ends a word is consumed with it.
NormalBraceSwallowed ==
  /\ Look /\ mode = "NORMAL"
  /\ \/ Char = "#" /\ Step("COMMENT", token)
     \/ Char = "QUOTE" /\ token = <<>> /\ Step("QUOTED", token)
     \/ Char = "NL" /\ token = <<>> /\ Return(at + 1, <<"NL">>)
     \/ Char = "QUOTE" /\ token # <<>> /\ Return(at, token)
     \/ IsBlank(Char) /\ token # <<>> /\ Return(at, token)
     \/ Char = "}" /\ token # <<>> /\ Return(at + 1, token)
     \/ Char \notin {"#", "QUOTE", "NL", "SP"} /\ (Char = "}" => token = <<>>)
        /\ Step("NORMAL", Append(token, Char))

\* A brace ends the word before it, but is the first character of the word behind.
Normal ==
  /\ Look /\ mode = "NORMAL"
  /\ \/ Char = "#" /\ Step("COMMENT", token)
     \/ Char = "QUOTE" /\ token = <<>> /\ Step("QUOTED", token)
     \/ Char = "NL" /\ token = <<>> /\ Return(at + 1, <<"NL">>)
     \/ Char = "QUOTE" /\ token # <<>> /\ Return(at, token)
     \/ IsBlank(Char) /\ token # <<>> /\ Return(at, token)
     \/ Char = "}" /\ token # <<>> /\ Return(at, token)
     \/ Char \notin {"#", "QUOTE", "NL", "SP"} /\ (Char = "}" => token = <<>>)
        /\ Step("NORMAL", Append(token, Char))

Quoted ==
  /\ Look /\ mode = "QUOTED"
  /\ \/ Char = "QUOTE" /\ Return(at + 1, token)
     \/ Char = "BACKSLASH" /\ Step("ESCAPE", token)
     \/ Char \notin {"QUOTE", "BACKSLASH"} /\ Step("QUOTED", Append(token, Char))

Escapes == {"n", "BACKSLASH", "QUOTE"}
Unescaped(c) == IF c = "n" THEN "NL" ELSE c

Escape ==
  /\ Look /\ mode = "ESCAPE"
  /\ \/ Char \in Escapes /\ Step("QUOTED", Append(token, Unescaped(Char)))
     \/ Char \notin Escapes /\ mode' = "FAILED" /\ UNCHANGED <<text, filled, consumed, at, token, tokens>>

\* The line break ends the comment, and is the token unless one was begun before it.
Comment ==
  /\ Look /\ mode = "COMMENT"
  /\ \/ Char # "NL" /\ Step("COMMENT", token)
     \/ Char = "NL" /\ token = <<>> /\ Return(at + 1, <<"NL">>)
     \/ Char = "NL" /\ token # <<>> /\ Return(at, token)

\* The end of file ends any token, an open quote and a comment too; without one it
\* is the empty token that ends the configuration.
EndOfFile ==
  /\ Scanning /\ Eof
  /\ \/ mode = "SKIP" /\ mode' = "NORMAL"
        /\ UNCHANGED <<text, filled, consumed, at, token, tokens>>
     \/ mode # "SKIP" /\ token # <<>> /\ Return(consumed, token)
     \/ mode # "SKIP" /\ token = <<>> /\ mode' = "END"
        /\ UNCHANGED <<text, filled, consumed, at, token, tokens>>

TokStep ==
  \/ Fill \/ BufferRead \/ Skip \/ SkipEnds
  \/ Normal \/ Quoted \/ Escape \/ Comment \/ EndOfFile

TokDone == ~Scanning /\ UNCHANGED tkvars

TokNext == TokStep \/ TokDone

TokSpec == TokInit /\ [][TokNext]_tkvars /\ WF_tkvars(TokStep)

-----------------------------------------------------------------------------
(* What a text means, said without buffers and loops *)

Least(S) == CHOOSE p \in S : \A q \in S : p <= q

\* The first position from p on with one of these characters, or the one behind the text.
FirstOf(t, p, chars) == Least({q \in p .. Len(t) : t[q] \in chars} \cup {Len(t) + 1})

\* What is at q, behind p, has an odd number of backslashes before it, the first at b.
Escaped(t, p, q) ==
  \E b \in p + 1 .. q :
    /\ (q - b) % 2 = 1
    /\ \A j \in b .. q - 1 : t[j] = "BACKSLASH"
    /\ b = p + 1 \/ t[b - 1] # "BACKSLASH"

\* The quote that ends a quotation begun at p, or the position behind the text.
Closing(t, p) ==
  Least({q \in p + 1 .. Len(t) : t[q] = "QUOTE" /\ ~Escaped(t, p, q)} \cup {Len(t) + 1})

\* What is between position q and the quote at e, given that from later positions on;
\* BACKSLASH is dropped, and keeps the character behind it from having its usual meaning.
UnquotedAt(t, e, from, q) ==
  IF q = e THEN <<>>
  ELSE IF t[q] # "BACKSLASH" THEN <<t[q]>> \o from[q + 1]
  ELSE IF q + 1 = e THEN <<>>
  ELSE <<Unescaped(t[q + 1])>> \o from[q + 2]

UnquotedFrom(t, e) == LET from[q \in 1 .. e] == UnquotedAt(t, e, from, q) IN from

Unquoted(t, p, e) == UnquotedFrom(t, e)[p + 1]

\* The end of a word that begins at p.
EndsWord == {"SP", "NL", "QUOTE", "#", "}"}
WordEnd(t, p) == FirstOf(t, p + 1, EndsWord)

\* The position behind a word that ends at e and behind a comment right after it.
BehindWord(t, e) == IF e <= Len(t) /\ t[e] = "#" THEN FirstOf(t, e, {"NL"}) ELSE e

\* The tokens of t from position p on, given those from later positions on.
TokensAt(t, from, p) ==
  IF p = Len(t) + 1 THEN <<>>
  ELSE CASE t[p] = "SP" -> from[p + 1]
         [] t[p] = "NL" -> <<<<"NL">>>> \o from[p + 1]
         [] t[p] = "#" ->
              LET e == FirstOf(t, p, {"NL"})
              IN  IF e > Len(t) THEN <<>> ELSE <<<<"NL">>>> \o from[e + 1]
         [] t[p] = "QUOTE" ->
              LET e == Closing(t, p)
                  word == Unquoted(t, p, e)
              IN  IF e <= Len(t) THEN <<word>> \o from[e + 1]
                  ELSE IF word = <<>> THEN <<>> ELSE <<word>>
         [] OTHER ->
              LET e == WordEnd(t, p)
              IN  <<SubSeq(t, p, e - 1)>> \o from[BehindWord(t, e)]

TokensFrom(t) == LET from[p \in 1 .. Len(t) + 1] == TokensAt(t, from, p) IN from

Tokens(t) == TokensFrom(t)[1]

-----------------------------------------------------------------------------
\* Every variable has its type, and the reader does not go back.
TokTypeOK ==
  /\ text \in Texts
  /\ consumed \in Nat /\ at \in Nat /\ filled \in Nat
  /\ consumed <= at /\ at <= filled /\ filled <= Len(text)
  /\ mode \in Modes
  /\ token \in Seq(Chars)
  /\ tokens \in Seq(Seq(Chars))

\* Wherever the buffers end, the tokens returned are those of the text, and all of
\* them when the file ends.
TokensAreThoseOfText ==
  mode # "FAILED" =>
    /\ Len(tokens) <= Len(Tokens(text))
    /\ tokens = SubSeq(Tokens(text), 1, Len(tokens))
    /\ mode = "END" => tokens = Tokens(text)

\* The file is read to its end, or to a bad escape.
TokenizerEnds == <>(mode \in {"END", "FAILED"})
=============================================================================
