------------------------------- MODULE MCParser -------------------------------
(***************************************************************************)
(* Token lists for Parser: every short list over a few tokens, or over a   *)
(* few pieces that several tokens make up.                                 *)
(***************************************************************************)
EXTENDS Parser

MCNumber == "1" :> 1 @@ "2" :> 2

Lists(set, n) == UNION {[1 .. k -> set] : k \in 0 .. n}
Around(first, lists, last) == {first \o s \o last : s \in lists}
Pieces(set, n) == {FlattenSeq(s) : s \in Lists(set, n)}

Operators == Lists({"x", "*", "+", "=", "?", ":", "(", ")"}, 5)
Steps == Lists({"x", "-", "++", "&", "[", "]", "("}, 5)
Calls == Lists({"f", "(", ")", ",", "x", "+"}, 6)
\* Four operators in a row, of every precedence.
Chains ==
  {<<"x", a, "x", b, "x", c, "x", d, "x">> :
     a, b, c, d \in {"=", "?", ":", "||", "&", "<", "<<", "-", "*", "+="}}
Casts ==
  UNION {Around(<<"(", "int">>, Lists({"*", "[", "1", "]", "(", ")"}, 4), last) :
           last \in {<<")", "x">>, <<")", "x", "++">>, <<")", "x", "[", "1", "]", "++">>}}

IfX == <<"if", "(", "x", ")">>
WhileX == <<"while", "(", "x", ")">>
Statements ==
  Pieces({IfX, WhileX, <<"else">>, <<"do">>, <<";">>, <<"x", ";">>, <<"{">>, <<"}">>}, 4) \cup
  Around(IfX, Pieces({IfX, WhileX, <<"else">>, <<";">>}, 5), <<";">>) \cup
  Around(<<"for", "(">>, Lists({"x", ";", "=", "int", ")"}, 5), <<")", "x", ";">>) \cup
  Around(<<"switch", "(", "x", ")", "{">>,
    Pieces({<<"case", "1", ":">>, <<"default", ":">>, <<";">>, <<"break", ";">>, <<"}">>}, 5),
    <<"}">>) \cup
  Around(<<"{">>, Pieces({<<"int", "x">>, <<"=", "{", "1">>, <<"return">>, <<"x">>, <<";">>,
                           <<"}">>}, 4), <<";", "}">>)
Programs ==
  Around(<<"int">>,
    Pieces({<<"x">>, <<"(">>, <<")">>, <<"*">>, <<"[", "1", "]">>, <<"(", "int", "f", ")">>}, 4),
    <<";">>) \cup
  Around(<<"int", "f", "(">>, Lists({"int", "x", "*", ",", "void", "["}, 5), <<")", ";">>) \cup
  Around(<<>>, Lists(isSpecifierType, 4), <<"x", ";">>) \cup
  Around(<<"int", "x", "=">>, Lists({"{", "}", "1", ",", "-"}, 5), <<";">>) \cup
  Pieces({<<"int", "x", ";">>, <<"long", "f", "(", "int", "x", ")">>, <<"{">>, <<"}">>, <<";">>}, 3)

MCSource ==
  {"expression"} \X (Operators \cup Steps \cup Calls \cup Chains \cup Casts)
  \cup {"statement"} \X Statements
  \cup {"program"} \X Programs

\* Up to three parameters, each behind a comma but the first.
VoidSource ==
  LET Params == Lists({<<"int", "x">>, <<"int", "*", "x">>, <<"void">>}, 3)
      Separated(s) == FlattenSeq([n \in DOMAIN s |-> IF n = 1 THEN s[n] ELSE <<",">> \o s[n]])
  IN {"program"} \X Around(<<"int", "f", "(">>, {Separated(s) : s \in Params}, <<")", ";">>)
==============================================================================
