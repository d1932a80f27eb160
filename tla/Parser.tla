-------------------------------- MODULE Parser --------------------------------
(***************************************************************************)
(* The recursive descent from the token list to the tree.  A function of   *)
(* the parser is an operator from the cursor to what it builds and the     *)
(* cursor after that.  An error message is followed by exit(1): the cursor *)
(* is then 0, where no check succeeds.  Grammar says which trees the       *)
(* tokens stand for.                                                       *)
(***************************************************************************)
EXTENDS Grammar

CONSTANT
  Source      \* pairs of what is parsed and its tokens

VARIABLES
  goal,       \* "expression", "statement" or "declaration"
  tokens,     \* the list; behind it, "end of file"
  parsed      \* what the parser made of it: a tree and a cursor

vars == <<goal, tokens, parsed>>

Got(tree, at) == [tree |-> tree, at |-> at]
Failed == Got(None, 0)
Token(at) == IF at \in DOMAIN tokens THEN tokens[at] ELSE "end of file"
check(at, token) == Token(at) = token
expect(r, token) == IF check(r.at, token) THEN Got(r.tree, r.at + 1) ELSE Failed

\* What is read next, and the tree that is made of what was read.
Then(r, Rest(_)) == IF r.at = 0 THEN Failed ELSE Rest(r)
Made(r, Tree(_)) == IF r.at = 0 THEN Failed ELSE Got(Tree(r.tree), r.at)

lookAheadOneType(at) == Token(at + 1) \in isCastType

expectConstant(at) ==
  IF Token(at) \in isConstantType THEN Got(Number[Token(at)], at + 1) ELSE Failed
expectIdentifier(at) ==
  IF Token(at) \in Identifier THEN Got(Token(at), at + 1) ELSE Failed

(***************************************************************************)
(* Specifiers and declarators.                                             *)
(***************************************************************************)
RECURSIVE Specifiers(_, _)
Specifiers(at, found) ==
  IF Token(at) \notin isSpecifierType THEN Got(found, at)
  ELSE IF Token(at) \in found THEN Failed
  ELSE Specifiers(at + 1, found \cup {Token(at)})

C_parseType(found) ==
  Scalar(CASE "double" \in found -> "double"
           [] "void" \in found -> "void"
           [] "long" \in found -> IF "unsigned" \in found THEN "ulong" ELSE "long"
           [] OTHER -> IF "unsigned" \in found THEN "uint" ELSE "int")

C_parseTypeAndStorageClass(at) ==
  LET found == Specifiers(at, {})
      types == found.tree \ {"static", "extern"}
  IN IF \/ found.at = 0
        \/ {"static", "extern"} \subseteq found.tree
        \/ {"signed", "unsigned"} \subseteq types
        \/ types \cap {"double", "void"} # {} /\ Cardinality(types) > 1
        \/ types = {}
     THEN Failed
     ELSE Got([type |-> C_parseType(types),
               storageClass |-> IF "static" \in found.tree THEN "static"
                                ELSE IF "extern" \in found.tree THEN "extern" ELSE "none"],
              found.at)

IdentDeclarator(identifier) == <<"ident", identifier>>
PointerDeclarator(pointed) == <<"pointer", pointed>>
ArrayDeclarator(arrayDecl, size) == <<"array", arrayDecl, size>>
FunctionDeclarator(funcDecl, params) == <<"func", funcDecl, params>>

RECURSIVE C_parseDeclarator(_), C_parseDeclaratorSuffix(_), Parameters(_, _)

C_parseSimpleDeclarator(at) ==
  IF check(at, "(") THEN expect(C_parseDeclarator(at + 1), ")")
  ELSE Made(expectIdentifier(at), IdentDeclarator)

C_parseDeclarator(at) ==
  IF check(at, "*")
  THEN Made(C_parseDeclarator(at + 1), PointerDeclarator)
  ELSE C_parseDeclaratorSuffix(C_parseSimpleDeclarator(at))

\* The loop of C_parseParamList.
Parameters(at, params) ==
  IF check(at, ")") THEN Got(params, at + 1)
  ELSE Then(C_parseTypeAndStorageClass(at), LAMBDA spec :
         IF spec.tree.storageClass # "none" THEN Failed
         ELSE IF spec.tree.type = Scalar("void")
         THEN IF check(spec.at, ")") THEN Got(params, spec.at + 1) ELSE Failed
         ELSE Then(C_parseDeclarator(spec.at), LAMBDA decl :
                LET next == Append(params, [type |-> spec.tree.type, decl |-> decl.tree]) IN
                CASE check(decl.at, ",") /\ check(decl.at + 1, ")") -> Failed
                  [] check(decl.at, ",") /\ ~check(decl.at + 1, ")") -> Parameters(decl.at + 1, next)
                  [] OTHER -> Parameters(decl.at, next)))

C_parseParamList(at) == Parameters(at + 1, <<>>)

\* An empty pair of brackets has the size 0.
C_parseDeclaratorSuffix(base) ==
  CASE check(base.at, "(") ->
         C_parseDeclaratorSuffix(Made(C_parseParamList(base.at), LAMBDA params :
           FunctionDeclarator(base.tree, params)))
    [] check(base.at, "[") ->
         C_parseDeclaratorSuffix(Made(
           expect(IF check(base.at + 1, "]") THEN Got(0, base.at + 1)
                  ELSE expectConstant(base.at + 1), "]"),
           LAMBDA size : ArrayDeclarator(base.tree, size)))
    [] OTHER -> base

RECURSIVE C_getDeclaratorIdentifier(_)
C_getDeclaratorIdentifier(decl) ==
  CASE decl[1] = "ident" -> decl[2]
    [] decl[1] \in {"pointer", "func"} -> C_getDeclaratorIdentifier(decl[2])
    [] OTHER -> ""

\* The type is None if the declarator is refused.
RECURSIVE processDeclarator(_, _)
processDeclarator(decl, baseType) ==
  CASE decl = None -> [identifier |-> "", type |-> baseType, parameters |-> <<>>]
    [] decl[1] = "ident" -> [identifier |-> decl[2], type |-> baseType, parameters |-> <<>>]
    [] decl[1] = "pointer" -> processDeclarator(decl[2], PointerType(baseType))
    [] decl[1] = "array" -> processDeclarator(decl[2], ArrayType(baseType, decl[3]))
    [] decl[1] = "func" ->
         LET types == [i \in DOMAIN decl[3] |->
                         processDeclarator(decl[3][i].decl, decl[3][i].type).type]
         IN [identifier |-> C_getDeclaratorIdentifier(decl[2]),
             type |-> IF \/ decl[2][1] # "ident"
                         \/ \E i \in DOMAIN types : types[i][1] \in {"fun", "none"}
                      THEN None ELSE FunType(types, baseType),
             parameters |-> [i \in DOMAIN decl[3] |-> C_getDeclaratorIdentifier(decl[3][i].decl)]]

RECURSIVE Dimensions(_), parseAbstractDeclarator(_)

\* PARSE_ARRAY_DIMENSIONS
Dimensions(r) ==
  IF ~check(r.at, "[") THEN r
  ELSE Dimensions(Made(expect(expectConstant(r.at + 1), "]"), LAMBDA size :
         ArrayDeclarator(r.tree, size)))

parseDirectAbstractDeclarator(at) ==
  IF check(at, "(") THEN Dimensions(expect(parseAbstractDeclarator(at + 1), ")"))
  ELSE Dimensions(Got(None, at))

parseAbstractDeclarator(at) ==
  IF check(at, "*")
  THEN Made(parseAbstractDeclarator(at + 1), PointerDeclarator)
  ELSE parseDirectAbstractDeclarator(at)
(***************************************************************************)
(* Expressions.                                                            *)
(***************************************************************************)
RECURSIVE parsePostfixOperators(_), C_parseExpression(_, _), Climb(_, _),
          C_parseUnaryExpression(_), Subscripts(_), Arguments(_)

parsePostfixOperators(r) ==
  IF Token(r.at) \notin {"++", "--"} THEN r
  ELSE parsePostfixOperators(
         Got(Unary(prefixToPostfix[tokenTypeToUnaryType[Token(r.at)]], r.tree), r.at + 1))

handle_assignment(left, prec) ==
  Made(C_parseExpression(left.at + 1, prec), LAMBDA right : Assignment(left.tree, right))

handle_compound_assignment(left, prec) ==
  Made(C_parseExpression(left.at + 1, prec), LAMBDA right :
    Assignment(left.tree,
      Binary(compoundAssignmentToBinType[Token(left.at)], left.tree, right)))

\* Mutant: what follows the colon is read as tightly as a binary operand.
TightElse(left, prec) ==
  Then(expect(C_parseExpression(left.at + 1, 0), ":"), LAMBDA middle :
    Made(C_parseExpression(middle.at, prec + 1), LAMBDA right :
      Conditional(left.tree, middle.tree, right)))

handle_ternary(left, prec) ==
  Then(expect(C_parseExpression(left.at + 1, 0), ":"), LAMBDA middle :
    Made(C_parseExpression(middle.at, prec), LAMBDA right :
      Conditional(left.tree, middle.tree, right)))

handle_binary(left, prec) ==
  Made(C_parseExpression(left.at + 1, prec + 1), LAMBDA right :
    Binary(tokenTypeToBinType[Token(left.at)], left.tree, right))

\* The loop of C_parseExpression.
Climb(left, min_prec) ==
  LET op == Token(left.at) IN
  IF op \notin isBinaryOp \/ precedence(op) < min_prec THEN left
  ELSE Climb(CASE op = "=" -> handle_assignment(left, precedence(op))
               [] op \in isCompoundAssignment -> handle_compound_assignment(left, precedence(op))
               [] op = "?" -> handle_ternary(left, precedence(op))
               [] OTHER -> handle_binary(left, precedence(op)), min_prec)

C_parseExpression(at, min_prec) == Climb(C_parseUnaryExpression(at), min_prec)

C_parseCast(at) ==
  Then(C_parseTypeAndStorageClass(at + 1), LAMBDA spec :
    Then(expect(parseAbstractDeclarator(spec.at), ")"), LAMBDA decl :
      Made(C_parseUnaryExpression(decl.at), LAMBDA exp :
        Cast(processDeclarator(decl.tree, spec.tree.type).type, exp))))

Arguments(at) ==
  Then(C_parseExpression(at, 0), LAMBDA arg :
    IF ~check(arg.at, ",") THEN Got(<<arg.tree>>, arg.at)
    ELSE Made(Arguments(arg.at + 1), LAMBDA rest : <<arg.tree>> \o rest))

parseArgumentList(at) == IF check(at, ")") THEN Got(<<>>, at) ELSE Arguments(at)

C_parseFactor(at) ==
  CASE Token(at) \in Identifier /\ check(at + 1, "(") ->
         expect(parsePostfixOperators(Made(parseArgumentList(at + 2), LAMBDA args :
           FunctionCall(Token(at), args))), ")")
    [] check(at, "(") /\ lookAheadOneType(at) -> parsePostfixOperators(C_parseCast(at))
    [] Token(at) \in isConstantType ->
         parsePostfixOperators(Got(Constant(Number[Token(at)]), at + 1))
    [] Token(at) \in Identifier /\ ~check(at + 1, "(") ->
         parsePostfixOperators(Got(Var(Token(at)), at + 1))
    [] check(at, "(") /\ ~lookAheadOneType(at) ->
         parsePostfixOperators(expect(C_parseExpression(at + 1, 0), ")"))
    [] OTHER -> Failed

\* The loop of C_parsePostfixExpression.
Subscripts(r) ==
  IF ~check(r.at, "[") THEN r
  ELSE Subscripts(Made(expect(C_parseExpression(r.at + 1, 0), "]"), LAMBDA index :
         Subscript(r.tree, index)))

C_parsePostfixExpression(at) == Subscripts(C_parseFactor(at))

C_parseUnaryExpression(at) ==
  CASE Token(at) \in isUnaryOp ->
         Made(C_parseUnaryExpression(at + 1), LAMBDA exp :
           Unary(tokenTypeToUnaryType[Token(at)], exp))
    [] check(at, "(") /\ lookAheadOneType(at) -> parsePostfixOperators(C_parseCast(at))
    [] OTHER -> C_parsePostfixExpression(at)

RECURSIVE C_parseInitializer(_), Initializers(_, _)
Initializers(at, list) ==
  IF check(at, "}") THEN Got(CompoundInit(list), at + 1)
  ELSE Then(C_parseInitializer(at), LAMBDA init :
         Initializers(IF check(init.at, ",") THEN init.at + 1 ELSE init.at,
                      Append(list, init.tree)))

C_parseInitializer(at) ==
  IF check(at, "{") THEN Initializers(at + 1, <<>>)
  ELSE Made(C_parseExpression(at, 0), SingleInit)

(***************************************************************************)
(* Statements and declarations.                                            *)
(***************************************************************************)
RECURSIVE C_parseStatement(_), BlockItems(_, _), Clauses(_, _)

\* keyword ( expression )
Condition(at) ==
  IF check(at + 1, "(") THEN expect(C_parseExpression(at + 2, 0), ")") ELSE Failed

C_parseReturn(at) == expect(Made(C_parseExpression(at + 1, 0), Return), ";")

\* Mutant: an else only if the statement before it is not an if itself.
FarElse(at) ==
  Then(Condition(at), LAMBDA condition :
    Then(C_parseStatement(condition.at), LAMBDA then :
      IF check(then.at, "else") /\ then.tree[1] # "if"
      THEN Made(C_parseStatement(then.at + 1), LAMBDA else :
             If(condition.tree, then.tree, else))
      ELSE Got(If(condition.tree, then.tree, None), then.at)))

C_parseIf(at) ==
  Then(Condition(at), LAMBDA condition :
    Then(C_parseStatement(condition.at), LAMBDA then :
      IF check(then.at, "else")
      THEN Made(C_parseStatement(then.at + 1), LAMBDA else :
             If(condition.tree, then.tree, else))
      ELSE Got(If(condition.tree, then.tree, None), then.at)))

\* A break behind the statement of a clause: whether it is there, and the
\* cursor behind it.
CaseBreak(r) == IF check(r.at, "break") THEN expect(Got(TRUE, r.at + 1), ";") ELSE Got(FALSE, r.at)

\* The loop of C_parseSwitch.
Clauses(at, switch) ==
  LET isDefault == check(at, "default")
      label == IF isDefault THEN Got(None, at + 1)
               ELSE IF check(at, "case") THEN expectConstant(at + 1) ELSE Failed
  IN IF check(at, "}") THEN Got(switch, at + 1)
     ELSE Then(expect(label, ":"), LAMBDA clause :
            Then(C_parseStatement(clause.at), LAMBDA body :
              Then(CaseBreak(body), LAMBDA break :
                IF isDefault
                THEN IF switch[4] # None THEN Failed
                     ELSE Clauses(break.at, Switch(switch[2], switch[3], body.tree))
                ELSE Clauses(break.at,
                       Switch(switch[2],
                              Append(switch[3], Case(clause.tree, body.tree, break.tree)),
                              switch[4])))))

C_parseSwitch(at) ==
  Then(expect(Condition(at), "{"), LAMBDA exp : Clauses(exp.at, Switch(exp.tree, <<>>, None)))

C_parseWhile(at) ==
  Then(Condition(at), LAMBDA condition :
    Made(C_parseStatement(condition.at), LAMBDA body : While(condition.tree, body)))

C_parseDoWhile(at) ==
  Then(C_parseStatement(at + 1), LAMBDA body :
    IF ~check(body.at, "while") THEN Failed
    ELSE expect(Made(Condition(body.at), LAMBDA condition : DoWhile(condition, body.tree)), ";"))

C_parseVarDeclaration(at, declared, storageClass) ==
  expect(Made(IF check(at, "=") THEN C_parseInitializer(at + 1) ELSE Got(None, at),
              LAMBDA init : Variable(declared.identifier, declared.type, storageClass, init)),
         ";")

\* A specifier, a declarator, and what Rest makes of their cursor, name, type
\* and storage class.
Declared(at, Rest(_, _, _)) ==
  Then(C_parseTypeAndStorageClass(at), LAMBDA spec :
    Then(C_parseDeclarator(spec.at), LAMBDA decl :
      Rest(decl.at, processDeclarator(decl.tree, spec.tree.type), spec.tree.storageClass)))

C_parseForInit(at) ==
  IF Token(at) \in isSpecifierType
  THEN Declared(at, LAMBDA behind, declared, storageClass :
         IF declared.type[1] \in {"fun", "none"} THEN Failed
         ELSE C_parseVarDeclaration(behind, declared, storageClass))
  ELSE IF check(at, ";") THEN Got(None, at + 1)
  ELSE expect(Made(C_parseExpression(at, 0), Expression), ";")

\* An expression, or nothing, before a token.
OrNothing(at, token) ==
  expect(IF check(at, token) THEN Got(None, at) ELSE C_parseExpression(at, 0), token)

C_parseFor(at) ==
  Then(IF check(at + 1, "(") THEN C_parseForInit(at + 2) ELSE Failed, LAMBDA init :
    Then(OrNothing(init.at, ";"), LAMBDA condition :
      Then(OrNothing(condition.at, ")"), LAMBDA post :
        Made(C_parseStatement(post.at), LAMBDA body :
          For(init.tree, condition.tree, post.tree, body)))))

C_parseLoopStatement(at) ==
  CASE Token(at) \in {"break", "continue"} -> expect(Got(Jump(Token(at)), at + 1), ";")
    [] check(at, "while") -> C_parseWhile(at)
    [] check(at, "do") -> C_parseDoWhile(at)
    [] check(at, "for") -> C_parseFor(at)

RECURSIVE C_parseDeclaration(_)

C_parseBlockItem(at) ==
  IF Token(at) \in isSpecifierType THEN C_parseDeclaration(at) ELSE C_parseStatement(at)

\* C_parseBlock, with the brace behind it.
BlockItems(at, items) ==
  IF check(at, "}") THEN Got(Compound(items), at + 1)
  ELSE Then(C_parseBlockItem(at), LAMBDA item : BlockItems(item.at, Append(items, item.tree)))

C_parseStatement(at) ==
  CASE check(at, "return") -> C_parseReturn(at)
    [] check(at, "if") -> C_parseIf(at)
    [] check(at, "switch") -> C_parseSwitch(at)
    [] check(at, ";") -> Got(Null, at + 1)
    [] Token(at) \in isLoopStatement -> C_parseLoopStatement(at)
    [] check(at, "{") -> BlockItems(at + 1, <<>>)
    [] Token(at) \in checkFactorStart ->
         expect(Made(C_parseExpression(at, 0), Expression), ";")
    [] OTHER -> Failed

C_parseFunction(at, declared, storageClass) ==
  Made(IF check(at, "{") THEN BlockItems(at + 1, <<>>) ELSE expect(Got(None, at), ";"),
       LAMBDA body : Function(declared.identifier, declared.type, declared.parameters,
                              storageClass, body))

C_parseDeclaration(at) ==
  Declared(at, LAMBDA behind, declared, storageClass :
    CASE declared.type = None -> Failed
      [] declared.type[1] = "fun" -> C_parseFunction(behind, declared, storageClass)
      [] OTHER -> C_parseVarDeclaration(behind, declared, storageClass))

\* C_parseProgram: declarations up to the end of the file.
RECURSIVE C_parseDeclarations(_, _)
C_parseDeclarations(at, declarations) ==
  IF Token(at) \notin isSpecifierType THEN Got(declarations, at)
  ELSE Then(C_parseDeclaration(at), LAMBDA decl :
         C_parseDeclarations(decl.at, Append(declarations, decl.tree)))

\* Tokens left behind the last declaration are an error.
C_parseProgram ==
  Then(C_parseDeclarations(1, <<>>), LAMBDA program :
    IF program.at = Len(tokens) + 1 THEN program ELSE Failed)

(***************************************************************************)
(* A list is parsed in one go.                                             *)
(***************************************************************************)
Unparsed == Got(None, 1)

Init ==
  /\ \E input \in Source : goal = input[1] /\ tokens = input[2]
  /\ parsed = Unparsed

Parse(kind, result) ==
  /\ goal = kind
  /\ parsed = Unparsed
  /\ parsed' = result
  /\ UNCHANGED <<goal, tokens>>

Next ==
  \/ Parse("expression", C_parseExpression(1, 0))
  \/ Parse("statement", C_parseStatement(1))
  \/ Parse("program", C_parseProgram)

Spec == Init /\ [][Next]_vars

(***************************************************************************)
(* Properties.                                                             *)
(***************************************************************************)
Readings ==
  CASE goal = "expression" -> Reads(tokens, 1)
    [] goal = "statement" -> StatementReads(tokens)
    [] goal = "program" -> ProgramReads(tokens)

\* Whoever called the parser finds its next token behind the last one.
Accepted == parsed # Unparsed /\ parsed.at = Len(tokens) + 1

Follows(first, second) ==
  \E i \in DOMAIN tokens : tokens[i] \in first /\ Token(i + 1) \in second

\* What the parser does not do of what the grammar derives: ++ behind a
\* subscript, void as the first word of a cast or of a parameter, and the name
\* of a parameter whose declarator has brackets.
StepOfSubscript == Follows({"]"}, {"++", "--"})

VoidFirst ==
  \E i \in DOMAIN tokens :
    /\ tokens[i] = "void" /\ Token(i - 1) \in {"(", ","}
    /\ goal = "program" => ~check(i + 1, ")")

RECURSIVE Parts(_)
Parts(type) ==
  {type} \cup
  CASE type[1] = "fun" -> Parts(type[3]) \cup UNION {Parts(type[2][i]) : i \in DOMAIN type[2]}
    [] type[1] \in {"pointer", "array"} -> Parts(type[2])
    [] OTHER -> {}

ParameterOfArray(tree) ==
  tree[1] = "function" /\ \E i \in DOMAIN tree[3][2] :
    \E part \in Parts(tree[3][2][i]) : part[1] = "array"

\* A list that C's grammar derives is accepted, and its tree is the one that
\* the grammar gives it: no operator binds too tightly or too loosely, no else
\* goes to the wrong if, no declarator is read inside out.
SentencesRead ==
  parsed # Unparsed /\ ~StepOfSubscript /\ ~VoidFirst =>
    \A tree \in Readings :
      \/ Accepted /\ parsed.tree = tree
      \/ goal = "program" /\ \E i \in DOMAIN tree : ParameterOfArray(tree[i])

\* What the grammar does not derive and the parser accepts all the same.  An
\* assignment or a step of what is no lvalue:
RECURSIVE OfNoLvalue(_)
OfNoLvalue(tree) ==
  LET noLvalue(e) == e[1] \notin {"var", "subscript"} /\ SubSeq(e, 1, 2) # <<"unary", "dereference">>
      below(k) == \E i \in k .. Len(tree) : OfNoLvalue(tree[i])
  IN CASE tree[1] = "assignment" -> noLvalue(tree[2]) \/ below(2)
       [] tree[1] = "unary" ->
            \/ OfNoLvalue(tree[3])
            \/ noLvalue(tree[3])
               /\ tree[2] \notin {"negate", "complement", "not", "address of", "dereference"}
       [] tree[1] \in {"binary", "cast"} -> below(3)
       [] tree[1] \in {"conditional", "subscript", "expression", "return",
                       "if", "while", "do while", "for", "single"} -> below(2)
       [] tree[1] = "call" -> \E i \in DOMAIN tree[3] : OfNoLvalue(tree[3][i])
       [] tree[1] \in {"block", "compound"} -> \E i \in DOMAIN tree[2] : OfNoLvalue(tree[2][i])
       [] tree[1] = "switch" ->
            \/ OfNoLvalue(tree[2]) \/ OfNoLvalue(tree[4])
            \/ \E i \in DOMAIN tree[3] : OfNoLvalue(tree[3][i][3])
       [] tree[1] = "variable" -> OfNoLvalue(tree[5])
       [] tree[1] = "function" -> OfNoLvalue(tree[6])
       [] OTHER -> FALSE
\* Parentheses around no declarator in a cast; parameters with no comma
\* between them; void behind other parameters; an array returned; braces with
\* no commas, or with nothing in them; a case behind the default.
EmptyDeclarator == Follows({"(", "*", ")", "int"}, {"("}) /\ Follows({"("}, {")"})
NoComma == Follows(Identifier \cup {"]"}, isSpecifierType)
LateVoid == Follows({","}, {"void"})
ArrayReturned(tree) == tree[1] = "function" /\ tree[3][3][1] = "array"
LaxBraces ==
  LET last == Identifier \cup isConstantType \cup {"}"} IN
  Follows({"="}, {"{"}) /\ (Follows({"{"}, {"}"}) \/ Follows(last, last \cup {"{"}))
EarlyDefault == \E i, j \in DOMAIN tokens : i < j /\ check(i, "default") /\ check(j, "case")

\* Nothing else is accepted than what the grammar derives and these.
OnlySentencesRead ==
  Accepted =>
    \/ parsed.tree \in Readings
    \/ IF goal = "program"
       THEN \E i \in DOMAIN parsed.tree : OfNoLvalue(parsed.tree[i]) \/ ArrayReturned(parsed.tree[i])
       ELSE OfNoLvalue(parsed.tree)
    \/ EmptyDeclarator \/ NoComma \/ LateVoid \/ LaxBraces \/ EarlyDefault

\* "'void' must be the only parameter if present in parameter list"
VoidAlone ==
  Accepted /\ goal = "program" =>
    \A i \in DOMAIN tokens : check(i, "void") /\ check(i + 1, ")") => check(i - 1, "(")
==============================================================================
