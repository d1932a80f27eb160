----------------------------- MODULE LexicalGrammar -----------------------------
(***************************************************************************)
(* The tokens of C without automata, and the lexer compared with them.     *)
(***************************************************************************)
EXTENDS Lexer, Automata, FiniteSetsExt

All(text, chars) == \A i \in DOMAIN text : text[i] \in chars
Digits(text) == text # <<>> /\ All(text, Digit)

Splits(text) == {<<SubSeq(text, 1, i), SubSeq(text, i + 1, Len(text))>> : i \in 0 .. Len(text)}

IsFraction(text) ==
  \E s \in Splits(text) :
    \/ All(s[1], Digit) /\ s[2] # <<>> /\ s[2][1] = "." /\ Digits(Tail(s[2]))
    \/ Digits(s[1]) /\ s[2] = <<".">>

IsExponent(text) ==
  /\ text # <<>> /\ text[1] \in {"e", "E"}
  /\ \/ Digits(Tail(text))
     \/ Len(text) > 1 /\ text[2] \in {"+", "-"} /\ Digits(SubSeq(text, 3, Len(text)))

\* Known: the third path of nfaForFloat, [0-9]+\. in its comment, loops on the
\* digits and takes a dot alone.
LoneDot(text) == text = <<".">>

IsFloat(text) ==
  \/ IsFraction(text) \/ LoneDot(text)
  \/ \E s \in Splits(text) : (IsFraction(s[1]) \/ Digits(s[1])) /\ IsExponent(s[2])

Constants ==
  LET l == {"l", "L"}
      u == {"u", "U"}
  IN "CONSTANT" :> {<<>>} @@ "LONG_CONSTANT" :> {<<c>> : c \in l} @@
     "UNSIGNED_CONSTANT" :> {<<c>> : c \in u} @@
     "UNSIGNED_LONG_CONSTANT" :> {<<c, d>> : c \in u, d \in l} \cup {<<c, d>> : c \in l, d \in u}

Keywords == {tokenTypeToSymbol[k] : k \in ToSet(keywordTokenTypes)}

Operators ==
  tokenTypeToSymbol @@
  [type \in Range(binaryOpToOpWithEqual) |->
     Append(tokenTypeToSymbol[CHOOSE op \in DOMAIN binaryOpToOpWithEqual :
                                binaryOpToOpWithEqual[op] = type], "=")] @@
  "++" :> <<"+", "+">> @@ "--" :> <<"-", "-">>

IsIdentifier(text) ==
  /\ text # <<>> /\ All(text, Lower \cup Upper \cup {"_"} \cup Digit)
  /\ text[1] \notin Digit /\ text \notin Keywords

\* What a whole text is as one token: no type, or one.
TokenTypes(text) ==
  {type \in DOMAIN Operators : Operators[type] = text} \cup
  {type \in DOMAIN Constants :
     \E s \in Splits(text) : Digits(s[1]) /\ s[2] \in Constants[type]} \cup
  (IF IsFloat(text) THEN {"FLOATING_POINT_CONSTANT"} ELSE {}) \cup
  (IF IsIdentifier(text) THEN {"IDENTIFIER"} ELSE {})

Ends(text, start) == {i \in start + 1 .. Len(text) : TokenTypes(SubSeq(text, start + 1, i)) # {}}

Skipped(text, start) ==
  LET ends == {i \in start .. Len(text) : \A j \in start + 1 .. i : text[j] \in Space} IN
  CHOOSE i \in ends : \A other \in ends : other <= i

RECURSIVE Lexed(_, _, _)
Lexed(text, i, tokens) ==
  LET start == Skipped(text, i)
      end == Max(Ends(text, start))
      value == SubSeq(text, start + 1, end)
  IN IF start = Len(text) THEN [tokens |-> tokens, status |-> "done"]
     ELSE IF Ends(text, start) = {} THEN [tokens |-> tokens, status |-> "error"]
     ELSE Lexed(text, end,
                Append(tokens, [type |-> CHOOSE t \in TokenTypes(value) : TRUE, value |-> value]))

(***************************************************************************)
(* Properties.                                                             *)
(***************************************************************************)
\* The table of states has room for the automaton of C. Every text is cut into
\* the longest tokens, each of its one type - a keyword is no identifier, an
\* exponent that breaks off is given back -, and refused where no token starts.
\* (createFinalNFA, createDFAFromNFA, DFARun)
LongestTokens ==
  /\ ~dropped
  /\ path = <<>> \/ status = "error" =>
       LET lexed == Lexed(source, 0, <<>>) IN
       /\ IsPrefix(tokenList, lexed.tokens)
       /\ status \in {"done", "error"} => tokenList = lexed.tokens /\ status = lexed.status
=================================================================================
