-------------------------------- MODULE MCLexer --------------------------------
(***************************************************************************)
(* Texts for Lexer: every short text over the characters of numbers, of    *)
(* operators and of words, and every keyword with another character near.  *)
(***************************************************************************)
EXTENDS LexicalGrammar

Punctuation == UNION {ToSet(tokenTypeToSymbol[t]) : t \in ToSet(singleCharTokenTypes)}
MCNfa == createFinalNFA

MCChar ==
  FoldSet(LAMBDA char, chars : Append(chars, char), <<>>,
          Lower \cup Upper \cup Digit \cup Punctuation \cup {"_", "."})
MCSpace == {" "}

Texts(chars, n) == UNION {[1 .. k -> chars] : k \in 0 .. n}

MCSource ==
  Texts({"1", ".", "e", "+", "u", "L"}, 5) \cup
  Texts({"<", "=", "&", "-", "!", " "}, 5) \cup
  Texts({"i", "f", "d", "o", "1", "_", " "}, 4) \cup
  Texts({"x", "@", "(", ">", "*"}, 3) \cup
  UNION {{k, Append(k, "a"), Append(k, "0"), Append(k, ";"), <<"_">> \o k, Front(k)} : k \in Keywords}
==============================================================================
