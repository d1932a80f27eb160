-------------------------------- MODULE Tokens --------------------------------
(***************************************************************************)
(* The tokens a parser asks for, and what it makes of them.  A token is    *)
(* its text; which texts are identifiers and constants is up to the        *)
(* instance.                                                               *)
(***************************************************************************)
EXTENDS Naturals, Sequences, TLC

CONSTANTS
  Identifier,   \* texts of identifiers
  Number        \* texts of constants -> their values

isConstantType == DOMAIN Number

isSpecifierType ==
  {"int", "long", "static", "double", "extern", "unsigned", "signed", "void"}

\* What makes a parenthesis the start of a cast.
isCastType == {"int", "long", "double", "unsigned", "signed"}

tokenTypeToUnaryType ==
  "-" :> "negate" @@ "~" :> "complement" @@ "!" :> "not" @@
  "++" :> "increment prefix" @@ "--" :> "decrement prefix" @@
  "&" :> "address of" @@ "*" :> "dereference"

isUnaryOp == DOMAIN tokenTypeToUnaryType

prefixToPostfix ==
  "increment prefix" :> "increment postfix" @@ "decrement prefix" :> "decrement postfix"

tokenTypeToBinType ==
  "-" :> "subtract" @@ "+" :> "add" @@ "*" :> "multiply" @@ "/" :> "divide" @@
  "%" :> "remainder" @@ "&&" :> "and" @@ "||" :> "or" @@ "==" :> "equals" @@
  "!=" :> "not equals" @@ "<" :> "less" @@ ">" :> "greater" @@ "<=" :> "less equal" @@
  ">=" :> "greater equal" @@ "&" :> "bit and" @@ "|" :> "bit or" @@ "^" :> "bit xor" @@
  "<<" :> "left shift" @@ ">>" :> "right shift"

compoundAssignmentToBinType ==
  "+=" :> "add" @@ "-=" :> "subtract" @@ "*=" :> "multiply" @@ "/=" :> "divide" @@
  "%=" :> "remainder" @@ "&=" :> "bit and" @@ "|=" :> "bit or" @@ "^=" :> "bit xor" @@
  "<<=" :> "left shift" @@ ">>=" :> "right shift"

isCompoundAssignment == DOMAIN compoundAssignmentToBinType

isBinaryOp == DOMAIN tokenTypeToBinType \cup isCompoundAssignment \cup {"=", "?"}

precedence(op) ==
  CASE op \in {"*", "/", "%"} -> 50
    [] op \in {"-", "+"} -> 45
    [] op \in {"<<", ">>"} -> 40
    [] op \in {"<", ">", "<=", ">="} -> 35
    [] op \in {"==", "!="} -> 30
    [] op = "&" -> 25
    [] op = "^" -> 20
    [] op = "|" -> 15
    [] op = "&&" -> 10
    [] op = "||" -> 5
    [] op = "?" -> 3
    [] op = "=" \/ op \in isCompoundAssignment -> 1

checkFactorStart == isConstantType \cup Identifier \cup isUnaryOp \cup isBinaryOp \cup {"("}

isLoopStatement == {"break", "continue", "while", "for", "do"}

(***************************************************************************)
(* The nodes of the tree: a tag and its parts.                             *)
(***************************************************************************)
Constant(value) == <<"constant", value>>
Var(identifier) == <<"var", identifier>>
Unary(type, exp) == <<"unary", type, exp>>
Binary(type, left, right) == <<"binary", type, left, right>>
Assignment(exp1, exp2) == <<"assignment", exp1, exp2>>
Conditional(condition, then, else) == <<"conditional", condition, then, else>>
FunctionCall(identifier, arguments) == <<"call", identifier, arguments>>
Cast(targetType, exp) == <<"cast", targetType, exp>>
Subscript(pointer, index) == <<"subscript", pointer, index>>
SingleInit(exp) == <<"single", exp>>
CompoundInit(list) == <<"compound", list>>

\* Absent parts: an else, the clauses of a for, an initializer.
None == <<"none">>
Return(exp) == <<"return", exp>>
Expression(exp) == <<"expression", exp>>
Null == <<"null">>
If(condition, then, else) == <<"if", condition, then, else>>
Compound(items) == <<"block", items>>
While(condition, body) == <<"while", condition, body>>
DoWhile(condition, body) == <<"do while", condition, body>>
For(init, condition, post, body) == <<"for", init, condition, post, body>>
Jump(keyword) == <<keyword>>
Switch(exp, cases, default) == <<"switch", exp, cases, default>>
Case(matchVal, body, hasBreak) == <<"case", matchVal, body, hasBreak>>
Variable(identifier, type, storageClass, init) ==
  <<"variable", identifier, type, storageClass, init>>
Function(identifier, type, parameters, storageClass, body) ==
  <<"function", identifier, type, parameters, storageClass, body>>

\* Types.
Scalar(kind) == <<"scalar", kind>>
PointerType(referenced) == <<"pointer", referenced>>
ArrayType(elementType, size) == <<"array", elementType, size>>
FunType(params, ret) == <<"fun", params, ret>>
==============================================================================
