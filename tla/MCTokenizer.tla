----------------------------- MODULE MCTokenizer -----------------------------
(***************************************************************************)
(* Every text of up to four characters, and longer ones of those that      *)
(* change the mode.                                                        *)
(***************************************************************************)
EXTENDS Tokenizer

MCChars == {"x", "n", "SP", "NL", "QUOTE", "BACKSLASH", "#", "}"}

TextsOf(chars, n) == UNION {[1 .. k -> chars] : k \in 0 .. n}

MCTexts ==
  TextsOf(MCChars, 4) \cup TextsOf({"x", "NL", "QUOTE", "BACKSLASH", "#"}, 4)
  \cup TextsOf({"QUOTE", "BACKSLASH", "n"}, 6)
=============================================================================
