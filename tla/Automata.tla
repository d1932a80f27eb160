-------------------------------- MODULE Automata --------------------------------
(***************************************************************************)
(* The automata of the tokens, and the one they are merged into, whose     *)
(* states are numbered from 1 in the order they are made.  The type of a   *)
(* token that is always written the same way is that text.                 *)
(***************************************************************************)
EXTENDS Naturals, SequencesExt, TLC

(***************************************************************************)
(* Characters and the texts of tokens.                                     *)
(***************************************************************************)
Lower == {"a", "b", "c", "d", "e", "f", "g", "h", "i", "k", "l", "n", "o", "r", "s", "t",
          "u", "v", "w", "x"}
Upper == {"E", "L", "U", "A"}
Digit == {"0", "1"}

mapToCharClass ==
  "CC_ALPHA_UNDER" :> Lower \cup Upper \cup {"_"} @@
  "CC_ALPHA_DIGIT" :> Lower \cup Upper \cup {"_"} \cup Digit @@
  "CC_DIGIT" :> Digit @@ "CC_FLOAT_EXP" :> {"e", "E"} @@ "CC_FLOAT_SIGN" :> {"+", "-"} @@
  "CC_LONG_SUFFIX" :> {"l", "L"} @@ "CC_UNSIGNED_SUFFIX" :> {"u", "U"}

keywordTokenTypes ==
  <<"int", "long", "void", "static", "default", "case", "extern", "return", "switch", "if",
    "else", "double", "signed", "unsigned", "while", "for", "do", "break", "continue">>

singleCharTokenTypes ==
  <<"(", ")", "{", "}", ";", "~", "-", "[", "]", "+", "*", "/", "%", "!", "=", "<", ">", "&",
    "|", "^", "?", ",", ":">>

twoCharTokenTypes == <<"&&", "||", "<<", ">>">>

tokenTypeToSymbol ==
  [type \in ToSet(singleCharTokenTypes) |-> <<type>>] @@
  "&&" :> <<"&", "&">> @@ "||" :> <<"|", "|">> @@ "<<" :> <<"<", "<">> @@ ">>" :> <<">", ">">> @@
  "int" :> <<"i", "n", "t">> @@ "long" :> <<"l", "o", "n", "g">> @@
  "void" :> <<"v", "o", "i", "d">> @@ "static" :> <<"s", "t", "a", "t", "i", "c">> @@
  "default" :> <<"d", "e", "f", "a", "u", "l", "t">> @@ "case" :> <<"c", "a", "s", "e">> @@
  "extern" :> <<"e", "x", "t", "e", "r", "n">> @@ "return" :> <<"r", "e", "t", "u", "r", "n">> @@
  "switch" :> <<"s", "w", "i", "t", "c", "h">> @@ "if" :> <<"i", "f">> @@
  "else" :> <<"e", "l", "s", "e">> @@ "double" :> <<"d", "o", "u", "b", "l", "e">> @@
  "signed" :> <<"s", "i", "g", "n", "e", "d">> @@
  "unsigned" :> <<"u", "n", "s", "i", "g", "n", "e", "d">> @@
  "while" :> <<"w", "h", "i", "l", "e">> @@ "for" :> <<"f", "o", "r">> @@ "do" :> <<"d", "o">> @@
  "break" :> <<"b", "r", "e", "a", "k">> @@
  "continue" :> <<"c", "o", "n", "t", "i", "n", "u", "e">>

binaryOpToOpWithEqual ==
  "+" :> "+=" @@ "-" :> "-=" @@ "*" :> "*=" @@ "/" :> "/=" @@ "%" :> "%=" @@ "&" :> "&=" @@
  "|" :> "|=" @@ "^" :> "^=" @@ "<<" :> "<<=" @@ ">>" :> ">>=" @@
  "=" :> "==" @@ "<" :> "<=" @@ ">" :> ">=" @@ "!" :> "!="

subAddtoDoubleSubAdd == "+" :> "++" @@ "-" :> "--"

(***************************************************************************)
(* Automata.                                                               *)
(***************************************************************************)
LOCAL NOT_ACCEPTING == "NOT_ACCEPTING"

NFAState(accept) == [accepting |-> accept, transitions |-> <<>>, epsilon |-> <<>>]
addStatesToNFA(states, accepts) == states \o [i \in DOMAIN accepts |-> NFAState(accepts[i])]
addTransitionToNFA(states, from, to, chars) ==
  [states EXCEPT ![from].transitions = Append(@, [to |-> to, chars |-> chars])]
addEpsiltonTransitionToState(states, from, to) == [states EXCEPT ![from].epsilon = Append(@, to)]

\* An automaton from its states' tokens, its transitions <<from, to, chars>>
\* and its epsilon transitions <<from, to>>.
Automaton(accepts, transitions, epsilons) ==
  FoldLeft(LAMBDA states, e : addEpsiltonTransitionToState(states, e[1], e[2]),
    FoldLeft(LAMBDA states, t : addTransitionToNFA(states, t[1], t[2], t[3]),
             addStatesToNFA(<<>>, accepts), transitions),
    epsilons)

nfaForIdentifiers ==
  Automaton(<<NOT_ACCEPTING, "IDENTIFIER">>,
    <<<<1, 2, mapToCharClass["CC_ALPHA_UNDER"]>>, <<2, 2, mapToCharClass["CC_ALPHA_DIGIT"]>>>>, <<>>)

\* 1; with an exponent: 2 digits, 3 dot, 4 digits after it, or 5 start, 6
\* digits, 7 dot; then 8 to 11 the exponent; without one: 12 to 14 digits
\* behind the dot, 15 and 16 digits before it.
nfaForFloat ==
  LET digit == mapToCharClass["CC_DIGIT"]
      float == "FLOATING_POINT_CONSTANT"
  IN Automaton(
       [i \in 1 .. 16 |-> IF i \in {11, 14, 16} THEN float ELSE NOT_ACCEPTING],
       <<<<2, 2, digit>>, <<2, 3, {"."}>>, <<3, 4, digit>>, <<4, 4, digit>>,
         <<5, 6, digit>>, <<6, 6, digit>>, <<6, 7, {"."}>>,
         <<8, 9, mapToCharClass["CC_FLOAT_EXP"]>>, <<9, 10, mapToCharClass["CC_FLOAT_SIGN"]>>,
         <<9, 11, digit>>, <<10, 11, digit>>, <<11, 11, digit>>,
         <<12, 12, digit>>, <<12, 13, {"."}>>, <<13, 14, digit>>, <<14, 14, digit>>,
         <<15, 15, digit>>, <<15, 16, {"."}>>>>,
       <<<<1, 2>>, <<1, 5>>, <<4, 8>>, <<6, 8>>, <<7, 8>>, <<1, 12>>, <<1, 15>>>>)

nfaForConstants ==
  LET long == mapToCharClass["CC_LONG_SUFFIX"]
      unsigned == mapToCharClass["CC_UNSIGNED_SUFFIX"]
      digit == mapToCharClass["CC_DIGIT"]
  IN Automaton(<<NOT_ACCEPTING, "CONSTANT", "LONG_CONSTANT", "UNSIGNED_CONSTANT",
                 "UNSIGNED_LONG_CONSTANT">>,
       <<<<1, 2, digit>>, <<2, 2, digit>>, <<2, 3, long>>, <<2, 4, unsigned>>,
         <<3, 5, unsigned>>, <<4, 5, long>>>>, <<>>)

nfaForKeywords(type) ==
  LET keyword == tokenTypeToSymbol[type]
      n == Len(keyword)
  IN Automaton([i \in 1 .. n + 1 |-> IF i = n + 1 THEN type ELSE NOT_ACCEPTING],
               [i \in 1 .. n |-> <<i, i + 1, {keyword[i]}>>], <<>>)

nfaForSingleCharTokens(type) ==
  LET char == {tokenTypeToSymbol[type][1]}
      compound == type \in DOMAIN binaryOpToOpWithEqual
      double == type \in DOMAIN subAddtoDoubleSubAdd
  IN Automaton(
       <<NOT_ACCEPTING, type>> \o
         (IF compound THEN <<binaryOpToOpWithEqual[type]>> ELSE <<>>) \o
         (IF double THEN <<subAddtoDoubleSubAdd[type]>> ELSE <<>>),
       <<<<1, 2, char>>>> \o (IF compound THEN <<<<2, 3, {"="}>>>> ELSE <<>>) \o
         (IF double THEN <<<<2, 4, char>>>> ELSE <<>>), <<>>)

nfaForMultipleCharOperators(type) ==
  LET char == {tokenTypeToSymbol[type][1]}
      compound == type \in DOMAIN binaryOpToOpWithEqual
  IN Automaton(
       <<NOT_ACCEPTING, NOT_ACCEPTING, type>> \o
         (IF compound THEN <<binaryOpToOpWithEqual[type]>> ELSE <<>>),
       <<<<1, 2, char>>, <<2, 3, char>>>> \o (IF compound THEN <<<<3, 4, {"="}>>>> ELSE <<>>), <<>>)

mergeNFAIntoMaster(master, sub) ==
  LET offset == Len(master) IN
  master \o [i \in DOMAIN sub |->
    [sub[i] EXCEPT
       !.transitions = [j \in DOMAIN @ |-> [@[j] EXCEPT !.to = @ + offset]],
       !.epsilon = [j \in DOMAIN @ |-> @[j] + offset]]]

mergeAndConnect(master, sub) ==
  addEpsiltonTransitionToState(mergeNFAIntoMaster(master, sub), 1, Len(master) + 1)

\* Mutant: the identifiers before the keywords.
IdentifiersFirst ==
  FoldLeft(mergeAndConnect, <<NFAState(NOT_ACCEPTING)>>,
    <<nfaForIdentifiers>> \o
    [i \in DOMAIN keywordTokenTypes |-> nfaForKeywords(keywordTokenTypes[i])] \o
    [i \in DOMAIN singleCharTokenTypes |-> nfaForSingleCharTokens(singleCharTokenTypes[i])] \o
    [i \in DOMAIN twoCharTokenTypes |-> nfaForMultipleCharOperators(twoCharTokenTypes[i])] \o
    <<nfaForConstants, nfaForFloat>>)

createFinalNFA ==
  FoldLeft(mergeAndConnect, <<NFAState(NOT_ACCEPTING)>>,
    [i \in DOMAIN keywordTokenTypes |-> nfaForKeywords(keywordTokenTypes[i])] \o
    [i \in DOMAIN singleCharTokenTypes |-> nfaForSingleCharTokens(singleCharTokenTypes[i])] \o
    [i \in DOMAIN twoCharTokenTypes |-> nfaForMultipleCharOperators(twoCharTokenTypes[i])] \o
    <<nfaForIdentifiers, nfaForConstants, nfaForFloat>>)
=================================================================================
