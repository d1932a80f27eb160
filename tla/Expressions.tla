----------------------------- MODULE Expressions -----------------------------
(***************************************************************************)
(* The type checker and the emitter on one expression, or on one           *)
(* declaration with initializers.  The type checker gives every node a     *)
(* type, lets arrays become pointers, puts in the casts that C leaves      *)
(* unwritten, or refuses the program; the emitter flattens the tree to     *)
(* TACKY, whose instructions then run.                                     *)
(*                                                                         *)
(* An operand is a variable, a temporary or a constant by name: what it    *)
(* holds is read when the instruction runs.  Calls are CallingConvention's *)
(* and Lowering's; a step behind an operand that is not a variable, or is  *)
(* an array, reads another node's record as a variable's, and is left out. *)
(***************************************************************************)
EXTENDS CExpressions

CONSTANTS
  Memory,      \* what the variables may hold: place -> [type, val]
  Shape,
  TreesOf(_)   \* the trees of a shape

VARIABLES
  tree,
  phase,       \* "parsed", "checked", "refused", "running", "done", "fault"
  typed,       \* the tree, with the types and the casts
  code,        \* [il, temps, val]: the list, the types of temporaries, the value
  pc,
  mem,
  begun        \* memory at the beginning

vars == <<tree, phase, typed, code, pc, mem, begun>>

(***************************************************************************)
(* Types and conversions.                                                  *)
(***************************************************************************)
setType(e, type) == [valueType |-> type] @@ e
getType(e) == e.valueType

\* exit(1): what is above a refused operand is refused.
Refused == [f |-> "refused"]
Refuses(e) == e.f = "refused"
Kept(e) == IF \E k \in Operands(e) : Refuses(e[k]) THEN Refused ELSE e

isArithmeticType(type) == ~isPointer(type)
ctypeEqual(t, u) == t = u
isLvalue(e) == e.f \in {"var", "dereference", "subscript"}
isNullPointerConstant(e) == e.f = "constant" /\ isInteger(e.type) /\ e.val = 0

\* Mutant: of two types of one size, the one on the left is taken.
LeftOfTwo(t, u) ==
  IF ctypeEqual(t, u) THEN t
  ELSE IF isDouble(t) \/ isDouble(u) THEN CTYPE_DOUBLE
  ELSE IF size(t) >= size(u) THEN t ELSE u

getCommonType(t, u) ==
  IF ctypeEqual(t, u) THEN t
  ELSE IF isDouble(t) \/ isDouble(u) THEN CTYPE_DOUBLE
  ELSE IF size(t) = size(u) THEN (IF isSignedType(t) THEN u ELSE t)
  ELSE IF size(t) > size(u) THEN t ELSE u

convertTo(e, target) ==
  IF ctypeEqual(getType(e), target) THEN e
  ELSE IF {getType(e).kind, target.kind} = {"pointer", "double"} THEN Refused
  ELSE setType([f |-> "cast", targetType |-> target, exp |-> e], target)

\* Mutant: any constant may become a pointer.
AnyConstant(e, target) ==
  IF ctypeEqual(getType(e), target) THEN e
  ELSE IF \/ isArithmeticType(getType(e)) /\ isArithmeticType(target)
          \/ e.f = "constant" /\ isPointer(target)
  THEN convertTo(e, target) ELSE Refused

convertByAssignment(e, target) ==
  IF ctypeEqual(getType(e), target) THEN e
  ELSE IF \/ isArithmeticType(getType(e)) /\ isArithmeticType(target)
          \/ isNullPointerConstant(e) /\ isPointer(target)
  THEN convertTo(e, target) ELSE Refused

(***************************************************************************)
(* The type checker: each handler gets its node with the operands done.    *)
(***************************************************************************)
handleTypeCheckVar(e) == setType(e, Declared[e.identifier].type)
handleTypeCheckConstant(e) == setType(e, e.type)

handleTypeCheckDereference(e) ==
  IF isPointer(getType(e.exp)) THEN setType(e, getType(e.exp).to) ELSE Refused

handleTypeCheckAddressOf(e) ==
  IF isLvalue(e.exp) THEN setType(e, PointerTo(getType(e.exp))) ELSE Refused

handleTypeCheckUnary(e) ==
  IF \/ isDouble(getType(e.exp)) /\ e.op = "complement"
     \/ isPointer(getType(e.exp)) /\ e.op \in {"negate", "complement"}
  THEN Refused
  ELSE setType(e, IF e.op = "not" THEN CTYPE_INT ELSE getType(e.exp))

isIntegral(type) == isArithmeticType(type) /\ ~isDouble(type)

\* With a pointer on either side.
handlePointerArithmetic(e) ==
  LET t == getType(e.left)
      u == getType(e.right)
  IN CASE e.op \in {"add", "subtract"} /\ isPointer(t) /\ isIntegral(u) ->
            setType([e EXCEPT !.right = convertTo(@, CTYPE_LONG)], t)
       [] e.op = "add" /\ isPointer(u) /\ isIntegral(t) ->
            setType([e EXCEPT !.left = convertTo(@, CTYPE_LONG)], u)
       [] e.op = "subtract" /\ isPointer(t) /\ ctypeEqual(t, u) -> setType(e, CTYPE_LONG)
       [] OTHER -> Refused

BothTo(e, common) ==
  [e EXCEPT !.left = convertTo(@, common), !.right = convertTo(@, common)]

\* A pointer never gets here: handlePointerArithmetic has refused it.
handleRelational(e) ==
  setType(BothTo(e, getCommonType(getType(e.left), getType(e.right))), CTYPE_INT)

handleTypeCheckBinary(e) ==
  LET t == getType(e.left)
      u == getType(e.right)
      common == getCommonType(t, u)
  IN IF e.op \in Logical THEN setType(e, CTYPE_INT)
     ELSE IF isPointer(t) \/ isPointer(u) THEN handlePointerArithmetic(e)
     ELSE IF e.op \in isRelationBinaryOp THEN handleRelational(e)
     ELSE IF e.op = "remainder" /\ (isDouble(t) \/ isDouble(u)) THEN Refused
     ELSE setType(BothTo(e, common), common)

handleTypeCheckSubscript(e) ==
  LET t == getType(e.pointer)
      u == getType(e.index)
  IN IF isPointer(t) /\ isIntegral(u)
     THEN setType([e EXCEPT !.index = convertTo(@, CTYPE_LONG)], t.to)
     ELSE IF isIntegral(t) /\ isPointer(u)
     THEN setType([e EXCEPT !.pointer = convertTo(@, CTYPE_LONG)], u.to)
     ELSE Refused

handleTypeCheckAssignment(e) ==
  IF isLvalue(e.exp1)
  THEN setType([e EXCEPT !.exp2 = convertByAssignment(@, getType(e.exp1))], getType(e.exp1))
  ELSE Refused

handleTypeCheckConditional(e) ==
  LET common == getCommonType(getType(e.then), getType(e.else_stmt)) IN
  setType([e EXCEPT !.then = convertTo(@, common), !.else_stmt = convertTo(@, common)], common)

handleTypeCheckCast(e) ==
  IF \/ e.targetType.kind = "array"
     \/ {getType(e.exp).kind, e.targetType.kind} = {"pointer", "double"}
  THEN Refused ELSE setType(e, e.targetType)

exprTypeCheckers(e) ==
  CASE e.f = "var" -> handleTypeCheckVar(e)
    [] e.f = "unary" -> handleTypeCheckUnary(e)
    [] e.f = "cast" -> handleTypeCheckCast(e)
    [] e.f = "binary" -> handleTypeCheckBinary(e)
    [] e.f = "assignment" -> handleTypeCheckAssignment(e)
    [] e.f = "conditional" -> handleTypeCheckConditional(e)
    [] e.f = "constant" -> handleTypeCheckConstant(e)
    [] e.f = "dereference" -> handleTypeCheckDereference(e)
    [] e.f = "address of" -> handleTypeCheckAddressOf(e)
    [] e.f = "subscript" -> handleTypeCheckSubscript(e)
    [] e.f = "refused" -> Refused

RECURSIVE typeCheckExpression(_)

\* An array is a pointer to its first element.
WithoutArray(t) ==
  IF ~Refuses(t) /\ getType(t).kind = "array"
  THEN setType([f |-> "address of", exp |-> t], PointerTo(getType(t).of)) ELSE t

typeCheckAndConvert(e) ==
  WithoutArray(typeCheckExpression(e))

\* Every handler converts its operands first, only & takes an array as it is.
typeCheckExpression(e) ==
  LET operand(k) ==
        IF e.f = "address of" THEN typeCheckExpression(e[k]) ELSE typeCheckAndConvert(e[k])
  IN Kept(exprTypeCheckers(Kept(
       [k \in DOMAIN e |-> IF k \in Operands(e) THEN operand(k) ELSE e[k]])))

\* Elements that are not given are the int 0, whatever their type is.
Padding == [f |-> "single", exp |-> [f |-> "constant", type |-> CTYPE_INT, val |-> 0]]

\* convertByAssignment leaves the type that setType writes again.
SingleInit(x, target) ==
  IF Refuses(x) THEN Refused
  ELSE LET y == convertByAssignment(x, target) IN
       IF Refuses(y) THEN Refused ELSE [f |-> "single", exp |-> y]

AllGiven(target, given) ==
  IF \E n \in DOMAIN given : Refuses(given[n]) THEN Refused
  ELSE [f |-> "compound", inits |-> given \o [n \in 1..(target.size - Len(given)) |-> Padding]]

RECURSIVE typeCheckInit(_, _)
typeCheckInit(target, initializer) ==
  IF initializer.f = "single" THEN SingleInit(typeCheckAndConvert(initializer.exp), target)
  ELSE IF target.kind = "array" /\ Len(initializer.inits) <= target.size
  THEN AllGiven(target, [n \in DOMAIN initializer.inits |->
                           typeCheckInit(target.of, initializer.inits[n])])
  ELSE Refused

(***************************************************************************)
(* The emitter.  `st' is the list and the temporaries so far; a result is  *)
(* what `val' holds or, behind a pointer, what it points at.               *)
(***************************************************************************)
Add(st, instructions) == [st EXCEPT !.il = @ \o instructions]
makeTACKYVariable(type, st) == [st EXCEPT !.temps = Append(@, type)]
Temp(n) == "tmp." \o ToString(n)
Newest(st) == createVarValue(Temp(Len(st.temps)))

createExpResult(st, plain, val) == [st |-> st, plain |-> plain, val |-> val]
PlainOperand(st, val) == createExpResult(st, TRUE, val)
DerefPointer(st, val) == createExpResult(st, FALSE, val)

\* A new temporary, and the instruction that fills it.
Filled(st, inst) == PlainOperand(Add(st, <<inst>>), inst.dest)
IntoNew(type, st, Inst(_)) ==
  LET next == makeTACKYVariable(type, st) IN Filled(next, Inst(Newest(next)))

IsPointerFactor(e) == isPointer(getType(e))
IsStep(e) == e.f = "unary" /\ e.op \in Step
isPostfixUnaryOp(e) == IsStep(e) /\ e.post

RECURSIVE emit_TACKY(_, _)

\* The variable is stepped after its name has been handed on.
emitUnaryPostfixInstruction(e, st) ==
  IntoNew(getType(e.exp), st, LAMBDA dst :
            createUnaryInstruction(e.op, createVarValue(e.exp.identifier), dst)).st

Resolved(e, r) ==
  IF r.plain THEN r
  ELSE IntoNew(getType(e), r.st, LAMBDA dst : createLoadInstruction(r.val, dst))

emit_TACKYAndConvert(e, st) ==
  [Resolved(e, emit_TACKY(e, st)) EXCEPT
     !.st = IF isPostfixUnaryOp(e) THEN emitUnaryPostfixInstruction(e, @) ELSE @]

\* What follows gets the operand; or a new temporary, and the list with it.
Operand(e, st, Then(_)) == Then(emit_TACKYAndConvert(e, st))
InTemporary(type, st, Then(_, _)) ==
  LET next == makeTACKYVariable(type, st) IN Then(next, Newest(next))

emit_TACKYUnary(e, st) ==
  IF isPostfixUnaryOp(e) THEN PlainOperand(st, createVarValue(e.exp.identifier))
  ELSE Operand(e.exp, st, LAMBDA src :
         IntoNew(getType(e), src.st, LAMBDA dst : createUnaryInstruction(e.op, src.val, dst)))

AddressOfOperand(e, r) ==
  IF ~r.plain THEN PlainOperand(r.st, r.val)
  ELSE IntoNew(getType(e), r.st, LAMBDA dst : createGetAddressInstruction(r.val, dst))

emit_TACKYAddressOf(e, st) == AddressOfOperand(e, emit_TACKY(e.exp, st))

emit_TACKYDereference(e, st) == Operand(e.exp, st, LAMBDA r : DerefPointer(r.st, r.val))

emit_TACKYSubscript(e, st) ==
  LET onLeft == IsPointerFactor(e.pointer)
      ptr == IF onLeft THEN e.pointer ELSE e.index
      int == IF onLeft THEN e.index ELSE e.pointer
  IN Operand(ptr, st, LAMBDA p :
     Operand(int, p.st, LAMBDA i :
       [IntoNew(getType(ptr), i.st, LAMBDA dst :
          createAddPtrInstruction(p.val, i.val, size(getType(e)), dst)) EXCEPT !.plain = FALSE]))

\* dst is there before the sign of the number changes.
emit_TACKYPointerArithmetic(e, src1, src2, st, dst) ==
  LET onLeft == IsPointerFactor(e.left)
      ptr == IF onLeft THEN src1 ELSE src2
      int == IF onLeft THEN src2 ELSE src1
      scale == size(getType(IF onLeft THEN e.left ELSE e.right))
  IN IF IsPointerFactor(e.left) /\ IsPointerFactor(e.right)
     THEN Add(st, <<createBinaryInstruction(e.op, src1, src2, dst)>>)
     ELSE Add(st, (IF e.op = "subtract" THEN <<createUnaryInstruction("negate", int, int)>>
                   ELSE <<>>)
                  \o <<createAddPtrInstruction(ptr, int, scale, dst)>>)

Label(what, st) == what \o ToString(Len(st.il))

shortCircuitTACKYInstruction(e, st) ==
  LET value(n) == createTackyValueFromConstant(CTYPE_INT, n)
      retVal == Truth(e.op = "and")
      jump == IF e.op = "and" THEN "jump if zero" ELSE "jump if not zero"
  IN Operand(e.left, st, LAMBDA left :
     InTemporary(getType(e), left.st, LAMBDA next, dst :
     Operand(e.right,
             Add(next, <<createJumpInstruction(jump, Label("short", left.st), left.val)>>),
             LAMBDA right :
       PlainOperand(Add(right.st,
         <<createJumpInstruction(jump, Label("short", left.st), right.val),
           createCopyInstruction(value(retVal), dst),
           createJumpInstruction("jump", Label("end", left.st), dst),
           createLabelInstruction(Label("short", left.st)),
           createCopyInstruction(value(1 - retVal), dst),
           createLabelInstruction(Label("end", left.st))>>), dst))))

emit_TACKYBinary(e, st) ==
  IF e.op \in Logical THEN shortCircuitTACKYInstruction(e, st)
  ELSE Operand(e.left, st, LAMBDA src1 :
       Operand(e.right, src1.st, LAMBDA src2 :
       InTemporary(getType(e), src2.st, LAMBDA next, dst :
         IF IsPointerFactor(e.left) \/ IsPointerFactor(e.right)
         THEN PlainOperand(emit_TACKYPointerArithmetic(e, src1.val, src2.val, next, dst), dst)
         ELSE PlainOperand(Add(next, <<createBinaryInstruction(e.op, src1.val, src2.val, dst)>>),
                           dst))))

AssignedTo(lhs, src) ==
  IF lhs.plain
  THEN PlainOperand(Add(src.st, <<createCopyInstruction(src.val, lhs.val)>>), lhs.val)
  ELSE PlainOperand(Add(src.st, <<createStoreInstruction(src.val, lhs.val)>>), src.val)

emit_TACKYAssignment(e, st) ==
  LET lhs == emit_TACKY(e.exp1, st) IN AssignedTo(lhs, emit_TACKYAndConvert(e.exp2, lhs.st))

emit_TACKYConditional(e, st) ==
  Operand(e.condition, st, LAMBDA cond :
  InTemporary(getType(e), cond.st, LAMBDA next, dst :
  Operand(e.then,
          Add(next, <<createJumpInstruction("jump if zero", Label("e2", cond.st), cond.val)>>),
          LAMBDA then :
  Operand(e.else_stmt,
          Add(then.st, <<createCopyInstruction(then.val, dst),
                         createJumpInstruction("jump", Label("end", cond.st), dst),
                         createLabelInstruction(Label("e2", cond.st))>>),
          LAMBDA else :
    PlainOperand(Add(else.st, <<createCopyInstruction(else.val, dst),
                                createLabelInstruction(Label("end", cond.st))>>), dst)))))

generateTACKYDoubleIntCast(src, dst, from, to) ==
  createDoubleIntCastInstruction(src, dst,
    IF isDouble(from) THEN (IF isSignedType(to) THEN "double to int" ELSE "double to uint")
    ELSE IF isSignedType(from) THEN "int to double" ELSE "uint to double")

\* Mutant: what is widened is filled up by the type it gets.
FilledByTarget(from, to, src, dst) ==
  IF isDouble(to) \/ isDouble(from) THEN generateTACKYDoubleIntCast(src, dst, from, to)
  ELSE IF size(to) = size(from) THEN createCopyInstruction(src, dst)
  ELSE IF size(to) < size(from) THEN createTruncateInstruction(src, dst)
  ELSE IF isSignedType(to) THEN createSignExtendInstruction(src, dst)
  ELSE createZeroExtendInstruction(src, dst)

CastInstruction(from, to, src, dst) ==
  IF isDouble(to) \/ isDouble(from) THEN generateTACKYDoubleIntCast(src, dst, from, to)
  ELSE IF size(to) = size(from) THEN createCopyInstruction(src, dst)
  ELSE IF size(to) < size(from) THEN createTruncateInstruction(src, dst)
  ELSE IF isSignedType(from) THEN createSignExtendInstruction(src, dst)
  ELSE createZeroExtendInstruction(src, dst)

\* The type getCastSourceType finds is the one the checker has given.
emit_TACKYCast(e, st) ==
  Operand(e.exp, st, LAMBDA r :
    IF ctypeEqual(getType(e.exp), e.targetType) THEN PlainOperand(r.st, r.val)
    ELSE IntoNew(e.targetType, r.st, LAMBDA dst :
                 CastInstruction(getType(e.exp), e.targetType, r.val, dst)))

emit_TACKY(e, st) ==
  CASE e.f = "constant" -> PlainOperand(st, createTackyValueFromConstant(e.type, e.val))
    [] e.f = "var" -> PlainOperand(st, createVarValue(e.identifier))
    [] e.f = "unary" -> emit_TACKYUnary(e, st)
    [] e.f = "binary" -> emit_TACKYBinary(e, st)
    [] e.f = "assignment" -> emit_TACKYAssignment(e, st)
    [] e.f = "conditional" -> emit_TACKYConditional(e, st)
    [] e.f = "cast" -> emit_TACKYCast(e, st)
    [] e.f = "dereference" -> emit_TACKYDereference(e, st)
    [] e.f = "address of" -> emit_TACKYAddressOf(e, st)
    [] e.f = "subscript" -> emit_TACKYSubscript(e, st)

RECURSIVE CompoundInitRecurse(_, _, _, _, _)
CompoundInitRecurse(init, targetType, varName, offset, st) ==
  IF init.f = "single" THEN
    Operand(init.exp, st, LAMBDA src :
      Add(src.st, <<createCopyToOffsetInstruction(src.val, createVarValue(varName), offset)>>))
  ELSE FoldLeftDomain(LAMBDA acc, n :
         CompoundInitRecurse(init.inits[n], targetType.of, varName,
                             offset + (n - 1) * size(targetType.of), acc), st, init.inits)

handleBlockItemDeclSingleInit(decl, st) ==
  Operand(decl.init.exp, st, LAMBDA src :
    Add(src.st, <<createCopyInstruction(src.val, createVarValue(decl.identifier))>>))

handleBlockItemDecl(decl, st) ==
  IF decl.init.f = "single" THEN handleBlockItemDeclSingleInit(decl, st)
  ELSE CompoundInitRecurse(decl.init, Declared[decl.identifier].type, decl.identifier, 0, st)

(***************************************************************************)
(* The passes, and the run.                                                *)
(***************************************************************************)
NoCode == [il |-> <<>>, temps |-> <<>>, val |-> createVarValue("none")]

\* Temporaries lie in the upper half of memory, each eight bytes.
TempPlace(n) == 2^(LongBits - 1) + 8 * (n - 1)

symbols ==
  [x \in DOMAIN Declared |-> [static |-> FALSE] @@ Declared[x]] @@
  [x \in {Temp(n) : n \in DOMAIN code.temps} |->
     LET n == CHOOSE k \in DOMAIN code.temps : Temp(k) = x IN
     [type |-> code.temps[n], static |-> FALSE, place |-> TempPlace(n)]]

\* A temporary holds what nobody has written.
Unset(type) == IF isDouble(type) THEN FromNumber(3) ELSE 2^Bits(type) - 1
TempMemory(temps) ==
  [p \in {TempPlace(n) : n \in DOMAIN temps} |->
     LET type == temps[CHOOSE n \in DOMAIN temps : TempPlace(n) = p] IN
     [type |-> type, val |-> Unset(type)]]

Init ==
  /\ \E shape \in Shape : tree \in TreesOf(shape)
  /\ begun \in Memory
  /\ phase = "parsed"
  /\ typed = Refused
  /\ code = NoCode /\ pc = 1
  /\ mem = begun

Declares == tree.f = "declaration"

Checked(result) ==
  /\ phase = "parsed"
  /\ typed' = result
  /\ phase' = IF Refuses(result) THEN "refused" ELSE "checked"
  /\ UNCHANGED <<tree, code, pc, mem, begun>>

typeCheck == ~Declares /\ Checked(typeCheckAndConvert(tree))

handleRegularLocalVar ==
  /\ Declares
  /\ LET init == typeCheckInit(Declared[tree.identifier].type, tree.init) IN
     Checked(IF Refuses(init) THEN Refused ELSE [tree EXCEPT !.init = init])

Emitted(st, val) ==
  /\ phase = "checked"
  /\ phase' = "running"
  /\ code' = [val |-> val] @@ st
  /\ mem' = begun @@ TempMemory(st.temps)
  /\ UNCHANGED <<tree, typed, pc, begun>>

Nothing == [il |-> <<>>, temps |-> <<>>]

emit ==
  /\ phase = "checked" /\ ~Declares
  /\ LET r == emit_TACKYAndConvert(typed, Nothing) IN Emitted(r.st, r.val)

emitDeclaration ==
  /\ phase = "checked" /\ Declares
  /\ Emitted(handleBlockItemDecl(typed, Nothing), NoCode.val)

LabelAt(label) ==
  CHOOSE n \in DOMAIN code.il : code.il[n] = createLabelInstruction(label)

Run ==
  /\ phase = "running"
  /\ UNCHANGED <<tree, typed, code, begun>>
  /\ IF pc > Len(code.il) THEN phase' = "done" /\ UNCHANGED <<pc, mem>>
     ELSE LET i == code.il[pc] IN
          IF ~WellTyped(i, symbols) \/ Undefined(i, symbols, mem)
          THEN phase' = "fault" /\ UNCHANGED <<pc, mem>>
          ELSE /\ mem' = After(i, symbols, mem)
               /\ pc' = IF i.op = "jump" \/ Taken(i, symbols, mem) THEN LabelAt(i.label) ELSE pc + 1
               /\ UNCHANGED phase

Next == typeCheck \/ handleRegularLocalVar \/ emit \/ emitDeclaration \/ Run

Spec == Init /\ [][Next]_vars

(***************************************************************************)
(* What is expected, and where it is known not to be so.                   *)
(***************************************************************************)
Somewhere(Holds(_)) == \E e \in Mentions(tree) : Holds(e)
T(e) == Decay(TypeC(e))
OnBinary(Holds(_, _, _)) ==
  Somewhere(LAMBDA e : e.f = "binary" /\ Holds(e.op, T(e.left), T(e.right)))

SlotsOf(d) == Slots(Declared[d.identifier].type, d.init)
InSlots(Holds(_, _)) == Declares /\ \E slot \in SlotsOf(tree) : Holds(slot[1], slot[2])

\* Known: C refuses these, and the compiler takes them; or they mean
\* something else: a number for an array is cast to the array.
OnDoubles(op, t, u) == op \in Bitwise \cup Shift /\ (isDouble(t) \/ isDouble(u))
Lax ==
  \/ InSlots(LAMBDA type, init : init.f = "single" /\ type.kind = "array")
  \/ OnBinary(OnDoubles)
  \/ Somewhere(LAMBDA e :
       \/ IsStep(e) /\ (e.exp.f \notin Lvalue \/ TypeC(e.exp).kind = "array")
       \/ e.f = "conditional" /\ \E k \in {"then", "else_stmt"} : isPointer(T(e[k])))

\* Known: C takes these, and the compiler refuses them: comparisons of
\* pointers, a 0 that is not written as one, and a number in braces.
ComparesPointers(op, t, u) == op \in isRelationBinaryOp /\ (isPointer(t) \/ isPointer(u))
Strict ==
  \/ InSlots(LAMBDA type, init : init.f = "compound" /\ type.kind # "array")
  \/ OnBinary(ComparesPointers)
  \/ Somewhere(LAMBDA e :
       \E k \in Operands(e) : <<e.f, k>> \in {<<"assignment", "exp2">>, <<"single", "exp">>}
                              /\ Null(e[k]) /\ e[k].f # "constant")

\* Known: the result of a step behind an operand is the new value.
PostfixUsed == Somewhere(LAMBDA e : e # tree /\ isPostfixUnaryOp(e))

\* Known: a step through a pointer is a step of the loaded copy, and one of
\* a pointer adds 1.
OtherStep ==
  Somewhere(LAMBDA e : IsStep(e) /\ (e.exp.f # "var" \/ isPointer(Declared[e.exp.identifier].type)))

\* Known: both operands of a shift get the common type.
ShiftWidened(op, t, u) == op \in Shift /\ getCommonType(t, u) # t

\* Known: the scale is the size of a pointer; a difference has none; and the
\* number that is subtracted from a pointer is negated where it is.
PointerSum(op, t, u) == op \in {"add", "subtract"} /\ (isPointer(t) \/ isPointer(u))
Unscaled(op, t, u) == PointerSum(op, t, u) /\ isPointer(t) /\ isPointer(u)
WrongScale(op, t, u) ==
  /\ PointerSum(op, t, u) /\ ~Unscaled(op, t, u)
  /\ size((IF isPointer(t) THEN t ELSE u).to) # 8
NegatedInPlace(op, t, u) == op = "subtract" /\ isPointer(t) /\ u = CTYPE_LONG

\* Known: the int 0 for a missing element fills four bytes.
PaddedShort ==
  InSlots(LAMBDA type, init : /\ init.f = "compound" /\ type.kind = "array"
                              /\ Len(init.inits) < type.size /\ size(type.of) # 4)

Known ==
  \/ PaddedShort \/ PostfixUsed \/ OtherStep
  \/ OnBinary(LAMBDA op, t, u : \/ ShiftWidened(op, t, u) \/ WrongScale(op, t, u)
                                \/ Unscaled(op, t, u) \/ NegatedInPlace(op, t, u))

\* The compiler takes what C takes and refuses what C refuses, and what it
\* takes has the type C gives it.  (typeCheckExpression)
TypedAsC ==
  /\ phase = "refused" => TypeC(tree) = NoType \/ Strict
  /\ phase = "checked" /\ ~Lax =>
       TypeC(tree) # NoType /\ (Declares \/ getType(typed) = T(tree) \/ OnBinary(ShiftWidened))

Left(c) ==
  ~c.undef =>
    /\ phase = "done"
    /\ \A p \in DOMAIN begun : mem[p] = c.mem[p]
    /\ Declares \/ isPostfixUnaryOp(tree) \/ Val(code.val, symbols, mem) = c.val

\* What runs leaves every variable, and the value, as C says.
\* (emit_TACKY and all it calls)
MeaningKept ==
  phase \in {"done", "fault"} /\ ~Lax /\ ~Known => Left(Eval(tree, Start(begun)))

\* Every instruction, jumps and labels aside, is one that Selection compiles:
\* its operands have places and types that go together.
\* (emit_TACKY, with the casts of the type checker)
EmittedWellTyped ==
  phase = "running" /\ ~Lax /\ ~OnBinary(NegatedInPlace) =>
    \A n \in DOMAIN code.il :
      code.il[n].op \notin {"jump", "label"} => Compilable(code.il[n], symbols)

(***************************************************************************)
(* What a comment of the emitter says of pointer arithmetic: the scale is  *)
(* "the size of the pointed-to type" (emit_TACKYPointerArithmetic).        *)
(***************************************************************************)
ScaleOfPointedTo ==
  phase = "done" /\ tree.f = "binary" /\ isPointer(getType(typed)) =>
    \E n \in DOMAIN code.il :
      LET i == code.il[n] IN
      i.op = "add pointer" /\ i.dest = code.val /\ i.scale = size(getType(typed).to)
==============================================================================
