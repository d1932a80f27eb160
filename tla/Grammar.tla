-------------------------------- MODULE Grammar --------------------------------
(***************************************************************************)
(* C's grammar for the constructs the parser knows: which trees a list of  *)
(* tokens derives.  Every split of the list is tried, so that a list with  *)
(* two derivations has two trees here.                                     *)
(***************************************************************************)
EXTENDS Tokens, FiniteSets, SequencesExt

Before(s, i) == SubSeq(s, 1, i - 1)
After(s, i) == SubSeq(s, i + 1, Len(s))
Between(s, i, j) == SubSeq(s, i + 1, j - 1)
Places(s, ops) == {i \in DOMAIN s : s[i] \in ops}

\* A list whose ends are these tokens, with something between or not.
Enclosed(s, open, close) == Len(s) >= 2 /\ s[1] = open /\ s[Len(s)] = close
Inner(s) == Between(s, 1, Len(s))

(***************************************************************************)
(* Declarations.  A declarator shows how its name is used: what stands     *)
(* around the name, from the outside in, derives the name's type from that *)
(* of the specifiers.  A reading is a name (none when abstract), its type, *)
(* and the names of the parameters if the type is that of a function.      *)
(* In this dialect parameters have names, and there are no pointers to     *)
(* functions.                                                              *)
(***************************************************************************)
TypeSpecifiers ==
  {"int"} :> "int" @@ {"signed"} :> "int" @@ {"signed", "int"} :> "int" @@
  {"unsigned"} :> "uint" @@ {"unsigned", "int"} :> "uint" @@
  {"long"} :> "long" @@ {"long", "int"} :> "long" @@ {"signed", "long"} :> "long" @@
  {"signed", "long", "int"} :> "long" @@
  {"unsigned", "long"} :> "ulong" @@ {"unsigned", "long", "int"} :> "ulong" @@
  {"double"} :> "double" @@ {"void"} :> "void"

StorageClasses == {} :> "none" @@ {"static"} :> "static" @@ {"extern"} :> "extern"

\* Each specifier once, in any order.
SpecifierReads(s) ==
  LET all == {s[i] : i \in DOMAIN s}
      classes == all \cap {"static", "extern"}
  IN IF /\ Cardinality(all) = Len(s)
        /\ classes \in DOMAIN StorageClasses
        /\ (all \ classes) \in DOMAIN TypeSpecifiers
     THEN {[type |-> Scalar(TypeSpecifiers[all \ classes]),
            storageClass |-> StorageClasses[classes]]}
     ELSE {}

RECURSIVE DeclaratorReads(_, _, _), DirectReads(_, _, _), ParameterReads(_)

\* `derived' is the type derived so far, with the names of its parameters.
Derived(type) == [type |-> type, parameters |-> <<>>]

DeclaratorReads(s, derived, abstract) ==
  DirectReads(s, derived, abstract) \cup
  (IF s # <<>> /\ s[1] = "*" /\ derived.type[1] # "fun"
   THEN DeclaratorReads(Tail(s), Derived(PointerType(derived.type)), abstract) ELSE {})

DirectReads(s, derived, abstract) ==
  LET n == Len(s)
      kind == derived.type[1]
  IN
  (IF IF abstract THEN s = <<>> ELSE n = 1 /\ s[1] \in Identifier
   THEN {[identifier |-> s, type |-> derived.type, parameters |-> derived.parameters]}
   ELSE {}) \cup
  (IF Enclosed(s, "(", ")") /\ Inner(s) # <<>>
   THEN DeclaratorReads(Inner(s), derived, abstract) ELSE {}) \cup
  (IF n >= 3 /\ s[n] = "]" /\ s[n - 1] \in isConstantType /\ s[n - 2] = "[" /\ kind # "fun"
   THEN DirectReads(SubSeq(s, 1, n - 3),
                    Derived(ArrayType(derived.type, Number[s[n - 1]])), abstract)
   ELSE {}) \cup
  (IF s # <<>> /\ s[n] = ")" /\ kind \notin {"fun", "array"}
   THEN UNION {DirectReads(Before(s, i),
                 [type |-> FunType([k \in DOMAIN params |-> params[k].type], derived.type),
                  parameters |-> [k \in DOMAIN params |-> params[k].identifier]], abstract) :
               <<i, params>> \in
                 UNION {{i} \X ParameterReads(Between(s, i, n)) : i \in Places(s, {"("})}}
   ELSE {})

\* Specifiers, then a declarator.
DeclaredReads(s, abstract) ==
  UNION {UNION {{[declared |-> d, storageClass |-> spec.storageClass] :
                   d \in DeclaratorReads(SubSeq(s, i + 1, Len(s)), Derived(spec.type), abstract)} :
                  spec \in SpecifierReads(SubSeq(s, 1, i))} : i \in 1 .. Len(s)}

Unclassified(reads) == {r.declared : r \in {r \in reads : r.storageClass = "none"}}

ParameterRead(s) ==
  {d \in Unclassified(DeclaredReads(s, FALSE)) :
     d.type[1] # "fun" /\ d.type # Scalar("void")}

ParameterReads(s) ==
  (IF s \in {<<>>, <<"void">>} THEN {<<>>} ELSE {}) \cup
  {<<p>> : p \in ParameterRead(s)} \cup
  UNION {{<<p>> \o rest : p \in ParameterRead(Before(s, i)),
                          rest \in {r \in ParameterReads(After(s, i)) : r # <<>>}} :
           i \in Places(s, {","})}

\* A type name, as in a cast, where there are no types of functions.
TypeNameReads(s) ==
  {t \in {d.type : d \in Unclassified(DeclaredReads(s, TRUE))} : t[1] # "fun"}

(***************************************************************************)
(* Expressions.  Level 1 is an assignment, 2 a conditional, above that the *)
(* tiers of binary operators, the loosest first.                           *)
(***************************************************************************)
Tiers == <<{"||"}, {"&&"}, {"|"}, {"^"}, {"&"}, {"==", "!="}, {"<", ">", "<=", ">="},
           {"<<", ">>"}, {"+", "-"}, {"*", "/", "%"}>>

RECURSIVE Reads(_, _), UnaryReads(_), PostfixReads(_), ArgumentReads(_)

Reads(s, level) ==
  UnaryReads(s) \cup
  UNION {{Binary(tokenTypeToBinType[s[i]], l, r) :
            l \in Reads(Before(s, i), tier + 2), r \in Reads(After(s, i), tier + 3)} :
           <<tier, i>> \in {p \in (DOMAIN Tiers) \X (DOMAIN s) :
                              p[1] + 2 >= level /\ s[p[2]] \in Tiers[p[1]]}} \cup
  (IF level > 2 THEN {} ELSE
     UNION {{Conditional(c, t, e) : c \in Reads(Before(s, p[1]), 3),
               t \in Reads(Between(s, p[1], p[2]), 1), e \in Reads(After(s, p[2]), 2)} :
              p \in {p \in Places(s, {"?"}) \X Places(s, {":"}) : p[1] < p[2]}}) \cup
  (IF level > 1 THEN {} ELSE
     UNION {{Assignment(l, IF s[i] = "=" THEN r
                           ELSE Binary(compoundAssignmentToBinType[s[i]], l, r)) :
               l \in UnaryReads(Before(s, i)), r \in Reads(After(s, i), 1)} :
              i \in Places(s, {"="} \cup isCompoundAssignment)})

UnaryReads(s) ==
  PostfixReads(s) \cup
  (IF s # <<>> /\ s[1] \in isUnaryOp
   THEN {Unary(tokenTypeToUnaryType[s[1]], e) : e \in UnaryReads(Tail(s))} ELSE {}) \cup
  (IF Len(s) > 3 /\ s[1] = "(" /\ s[2] \in isSpecifierType
   THEN UNION {{Cast(t, e) : t \in TypeNameReads(Between(s, 1, i)), e \in UnaryReads(After(s, i))} :
                 i \in Places(s, {")"})}
   ELSE {})

PostfixReads(s) ==
  CASE s = <<>> -> {}
    [] Len(s) = 1 -> IF s[1] \in Identifier THEN {Var(s[1])}
                     ELSE IF s[1] \in isConstantType THEN {Constant(Number[s[1]])} ELSE {}
    [] OTHER ->
       (IF Enclosed(s, "(", ")") THEN Reads(Inner(s), 1) ELSE {}) \cup
       (IF s[Len(s)] \in {"++", "--"}
        THEN {Unary(prefixToPostfix[tokenTypeToUnaryType[s[Len(s)]]], e) :
                e \in PostfixReads(Front(s))}
        ELSE {}) \cup
       (IF s[Len(s)] = "]"
        THEN UNION {{Subscript(p, i) : p \in PostfixReads(Before(s, k)),
                                       i \in Reads(Between(s, k, Len(s)), 1)} :
                      k \in Places(s, {"["})}
        ELSE {}) \cup
       (IF Len(s) > 2 /\ s[1] \in Identifier /\ Enclosed(Tail(s), "(", ")")
        THEN {FunctionCall(s[1], args) : args \in ArgumentReads(Inner(Tail(s)))}
        ELSE {})

ArgumentReads(s) ==
  (IF s = <<>> THEN {<<>>} ELSE {<<e>> : e \in Reads(s, 1)}) \cup
  UNION {{<<e>> \o rest : e \in Reads(Before(s, i), 1),
                          rest \in {r \in ArgumentReads(After(s, i)) : r # <<>>}} :
           i \in Places(s, {","})}

RECURSIVE InitializerReads(_), InitializerLists(_)

InitializerReads(s) ==
  {SingleInit(e) : e \in Reads(s, 1)} \cup
  (IF Enclosed(s, "{", "}") /\ Inner(s) # <<>>
   THEN {CompoundInit(list) : list \in InitializerLists(Inner(s))} ELSE {})

\* Separated by commas; one more may follow the last.
InitializerLists(s) ==
  {<<i>> : i \in InitializerReads(s)} \cup
  UNION {{<<i>> \o rest : i \in InitializerReads(Before(s, k)),
                          rest \in IF k = Len(s) THEN {<<>>} ELSE InitializerLists(After(s, k))} :
           k \in Places(s, {","})}
(***************************************************************************)
(* Statements.                                                             *)
(***************************************************************************)
RECURSIVE StatementReads(_), ItemReads(_), ClauseReads(_), DeclarationReads(_)

\* An else belongs to the nearest if: what stands before it must not end in
\* an if that has none.
RECURSIVE EndsOpen(_)
EndsOpen(tree) ==
  CASE tree[1] = "if" -> tree[4] = None \/ EndsOpen(tree[4])
    [] tree[1] = "while" -> EndsOpen(tree[3])
    [] tree[1] = "for" -> EndsOpen(tree[5])
    [] OTHER -> FALSE

\* keyword ( ... ) rest: the readings of the parenthesis, and the rest.
Headed(s, keyword) ==
  IF Len(s) > 2 /\ s[1] = keyword /\ s[2] = "("
  THEN UNION {Reads(Between(s, 2, i), 1) \X {After(s, i)} : i \in Places(s, {")"})} ELSE {}

Terminated(s) == s # <<>> /\ s[Len(s)] = ";"
Optional(s) == IF s = <<>> THEN {None} ELSE Reads(s, 1)

ForInitReads(s) ==
  DeclarationReads(s) \cup
  (IF Terminated(s) THEN {IF e = None THEN None ELSE Expression(e) : e \in Optional(Front(s))}
   ELSE {})

StatementReads(s) ==
  (IF s = <<";">> THEN {Null} ELSE {}) \cup
  (IF s \in {<<"break", ";">>, <<"continue", ";">>} THEN {Jump(s[1])} ELSE {}) \cup
  (IF Terminated(s) THEN {Expression(e) : e \in Reads(Front(s), 1)} ELSE {}) \cup
  (IF Terminated(s) /\ s[1] = "return"
   THEN {Return(e) : e \in Reads(Tail(Front(s)), 1)} ELSE {}) \cup
  (IF Enclosed(s, "{", "}") THEN {Compound(items) : items \in ItemReads(Inner(s))} ELSE {}) \cup
  UNION {{If(h[1], t, None) : t \in StatementReads(h[2])} \cup
         UNION {{If(h[1], t, e) : t \in {t \in StatementReads(Before(h[2], i)) : ~EndsOpen(t)},
                                  e \in StatementReads(After(h[2], i))} :
                  i \in Places(h[2], {"else"})} : h \in Headed(s, "if")} \cup
  UNION {{While(h[1], body) : body \in StatementReads(h[2])} : h \in Headed(s, "while")} \cup
  (IF Len(s) > 3 /\ s[1] = "do"
   THEN UNION {{DoWhile(h[1], body) : body \in StatementReads(Between(s, 1, i)),
                  h \in {h \in Headed(SubSeq(s, i, Len(s)), "while") : h[2] = <<";">>}} :
                 i \in Places(s, {"while"})} ELSE {}) \cup
  (IF Len(s) > 2 /\ s[1] = "for" /\ s[2] = "("
   THEN UNION {{For(init, condition, post, body) :
                  init \in ForInitReads(SubSeq(s, 3, p[1])),
                  condition \in Optional(Between(s, p[1], p[2])),
                  post \in Optional(Between(s, p[2], p[3])),
                  body \in StatementReads(After(s, p[3]))} :
                 p \in {p \in Places(s, {";"}) \X Places(s, {";"}) \X Places(s, {")"}) :
                          p[1] < p[2] /\ p[2] < p[3]}} ELSE {}) \cup
  UNION {IF Enclosed(h[2], "{", "}")
         THEN {Switch(h[1], c.cases, c.default) : c \in ClauseReads(Inner(h[2]))} ELSE {} :
           h \in Headed(s, "switch")}

\* One statement per clause, maybe with a break behind it.  The tree has no
\* place for where the default stands, so it has to be last.
ClauseBody(s) ==
  {<<b, FALSE>> : b \in StatementReads(s)} \cup
  (IF Len(s) > 2 /\ SubSeq(s, Len(s) - 1, Len(s)) = <<"break", ";">>
   THEN {<<b, TRUE>> : b \in StatementReads(SubSeq(s, 1, Len(s) - 2))} ELSE {})

ClauseReads(s) ==
  (IF s = <<>> THEN {[cases |-> <<>>, default |-> None]} ELSE {}) \cup
  (IF Len(s) > 2 /\ SubSeq(s, 1, 2) = <<"default", ":">>
   THEN {[cases |-> <<>>, default |-> b[1]] : b \in ClauseBody(SubSeq(s, 3, Len(s)))} ELSE {}) \cup
  (IF Len(s) > 3 /\ s[1] = "case" /\ s[2] \in isConstantType /\ s[3] = ":"
   THEN UNION {{[rest EXCEPT !.cases = <<Case(Number[s[2]], b[1], b[2])>> \o @] :
                  b \in ClauseBody(SubSeq(s, 4, i)), rest \in ClauseReads(After(s, i))} :
                 i \in 4 .. Len(s)} ELSE {})

ItemReads(s) ==
  IF s = <<>> THEN {<<>>}
  ELSE UNION {{<<item>> \o rest :
                 item \in StatementReads(SubSeq(s, 1, i)) \cup DeclarationReads(SubSeq(s, 1, i)),
                 rest \in ItemReads(After(s, i))} : i \in DOMAIN s}

VariableReads(s, init) ==
  {Variable(r.declared.identifier[1], r.declared.type, r.storageClass, init) :
     r \in {r \in DeclaredReads(s, FALSE) : r.declared.type[1] # "fun"}}

FunctionReads(s, body) ==
  {Function(r.declared.identifier[1], r.declared.type,
            [k \in DOMAIN r.declared.parameters |-> r.declared.parameters[k][1]],
            r.storageClass, body) :
     r \in {r \in DeclaredReads(s, FALSE) : r.declared.type[1] = "fun"}}

DeclarationReads(s) ==
  (IF Terminated(s)
   THEN VariableReads(Front(s), None) \cup FunctionReads(Front(s), None) \cup
        UNION {UNION {VariableReads(Before(s, i), init) :
                        init \in InitializerReads(Between(s, i, Len(s)))} :
                 i \in Places(s, {"="})}
   ELSE {}) \cup
  (IF s # <<>> /\ s[Len(s)] = "}"
   THEN UNION {UNION {FunctionReads(Before(s, i), Compound(body)) : body \in ItemReads(Between(s, i, Len(s)))} :
                 i \in Places(s, {"{"})}
   ELSE {})
RECURSIVE ProgramReads(_)
ProgramReads(s) ==
  IF s = <<>> THEN {<<>>}
  ELSE UNION {{<<d>> \o rest : d \in DeclarationReads(SubSeq(s, 1, i)),
                               rest \in ProgramReads(After(s, i))} : i \in DOMAIN s}
==============================================================================
