----------------------------- MODULE CExpressions -----------------------------
(***************************************************************************)
(* What an expression of C is: whether it is one, of which type, what it   *)
(* comes to and what it leaves in memory.  Expressions, the model of the   *)
(* type checker and of the emitter, is compared with this module, which    *)
(* follows the language and not the compiler.                              *)
(*                                                                         *)
(* Arithmetic that overflows wraps around, as on the machine.  Operands    *)
(* whose order is open must not touch what the other one writes: a tree    *)
(* in which they do has no meaning.                                        *)
(***************************************************************************)
EXTENDS Tacky, SequencesExt

CONSTANT Declared      \* identifier -> [type, place]

NoType == Scalar("none")

Lvalue == {"var", "dereference", "subscript"}
Logical == {"and", "or"}
Bitwise == {"bit and", "bit or", "bit xor"}

\* In bytes, as on the machine the compiler is for.
RECURSIVE size(_)
size(type) ==
  CASE type.kind \in {"int", "uint"} -> 4
    [] type.kind \in {"long", "ulong", "double", "pointer"} -> 8
    [] type.kind = "array" -> size(type.of) * type.size

isArithmetic(type) == isInteger(type) \/ isDouble(type)
isScalar(type) == isArithmetic(type) \/ isPointer(type)

Decay(type) == IF type.kind = "array" THEN PointerTo(type.of) ELSE type

\* The usual arithmetic conversions: a long holds every unsigned int.
Unsigned(type) == IF type.kind \in {"int", "uint"} THEN CTYPE_UINT ELSE CTYPE_ULONG
Usual(t, u) ==
  IF isDouble(t) \/ isDouble(u) THEN CTYPE_DOUBLE
  ELSE IF size(t) # size(u) THEN (IF size(t) > size(u) THEN t ELSE u)
  ELSE IF isSignedType(t) = isSignedType(u) THEN t ELSE Unsigned(t)

(***************************************************************************)
(* Types.                                                                  *)
(***************************************************************************)
RECURSIVE Mentions(_)
Operands(e) ==
  CASE e.f \in {"unary", "cast", "dereference", "address of"} -> {"exp"}
    [] e.f = "binary" -> {"left", "right"}
    [] e.f = "assignment" -> {"exp1", "exp2"}
    [] e.f = "conditional" -> {"condition", "then", "else_stmt"}
    [] e.f = "subscript" -> {"pointer", "index"}
    [] e.f = "declaration" -> {"init"}
    [] e.f = "single" -> {"exp"}
    [] OTHER -> {}

\* The tree and all below it.
Children(e) ==
  {e[k] : k \in Operands(e)} \cup
  (IF e.f = "compound" THEN {e.inits[n] : n \in DOMAIN e.inits} ELSE {})
Mentions(e) == {e} \cup UNION {Mentions(x) : x \in Children(e)}

ConstantExpression(e) ==
  \A m \in Mentions(e) : m.f \in {"constant", "unary", "binary", "cast", "conditional"}

RECURSIVE TypeC(_)
RECURSIVE Eval(_, _)

\* Memory, with what has been read and written, and whether it had a meaning.
Start(mem) == [val |-> 0, mem |-> mem, reads |-> {}, writes |-> {}, undef |-> FALSE]

ComesToZero(r) == ~r.undef /\ r.val = 0

\* A constant expression that comes to 0 is a pointer to nothing.
Null(e) ==
  /\ ConstantExpression(e)
  /\ isInteger(TypeC(e))
  /\ ComesToZero(Eval(e, Start(<<>>)))

\* Of an assignment, t and u being the types of its sides, and null whether
\* the right one is a null pointer; so below.
Assignable(t, u, null) ==
  \/ isArithmetic(t) /\ isArithmetic(u)
  \/ isPointer(t) /\ (u = t \/ null)

Meet(t, u, null1, null2) ==        \* of the branches of a conditional
  IF isArithmetic(t) /\ isArithmetic(u) THEN Usual(t, u)
  ELSE IF isPointer(t) /\ (u = t \/ null2) THEN t
  ELSE IF isPointer(u) /\ null1 THEN u
  ELSE NoType

BinaryType(op, t, u, null1, null2) ==
  LET arithmetic == isArithmetic(t) /\ isArithmetic(u)
      integer == isInteger(t) /\ isInteger(u)
  IN CASE op \in Logical /\ isScalar(t) /\ isScalar(u) -> CTYPE_INT
       [] op \in {"add", "subtract", "multiply", "divide"} /\ arithmetic -> Usual(t, u)
       [] op \in Bitwise \cup {"remainder"} /\ integer -> Usual(t, u)
       [] op \in Shift /\ integer -> t
       [] op \in isRelationBinaryOp /\ (arithmetic \/ (isPointer(t) /\ u = t)) -> CTYPE_INT
       [] /\ op \in {"equals", "not equals"}
          /\ (isPointer(t) /\ null2) \/ (isPointer(u) /\ null1) -> CTYPE_INT
       [] op \in {"add", "subtract"} /\ isPointer(t) /\ isInteger(u) -> t
       [] op = "add" /\ isInteger(t) /\ isPointer(u) -> u
       [] op = "subtract" /\ isPointer(t) /\ t = u -> CTYPE_LONG
       [] OTHER -> NoType

UnaryType(op, lvalue, t) ==
  CASE op \in Step /\ lvalue /\ isScalar(t) -> t
    [] op = "not" /\ isScalar(Decay(t)) -> CTYPE_INT
    [] op = "negate" /\ isArithmetic(t) -> t
    [] op = "complement" /\ isInteger(t) -> t
    [] OTHER -> NoType

\* The braces of an array are never left out here.
RECURSIVE Fits(_, _)
Fits(type, init) ==
  IF init.f = "single"
  THEN type.kind # "array" /\ Assignable(type, Decay(TypeC(init.exp)), Null(init.exp))
  ELSE IF type.kind # "array" THEN Len(init.inits) = 1 /\ Fits(type, init.inits[1])
  ELSE /\ Len(init.inits) <= type.size
       /\ \A n \in DOMAIN init.inits : Fits(type.of, init.inits[n])

\* The initializers of a declaration, with what each of them is for.
RECURSIVE Slots(_, _)
Slots(type, init) ==
  {<<type, init>>} \cup
  (IF init.f = "compound" /\ type.kind = "array"
   THEN UNION {Slots(type.of, init.inits[n]) : n \in DOMAIN init.inits} ELSE {})

\* nulls: the operands that are null pointers.
TypeWith(e, nulls) ==
  LET T(k) == Decay(TypeC(e[k])) IN
  CASE e.f = "constant" -> e.type
    [] e.f = "var" -> Declared[e.identifier].type
    [] e.f = "unary" -> UnaryType(e.op, e.exp.f \in Lvalue, TypeC(e.exp))
    [] e.f = "binary" -> BinaryType(e.op, T("left"), T("right"), "left" \in nulls, "right" \in nulls)
    [] e.f = "cast" /\ isScalar(T("exp"))
                    /\ ~({T("exp").kind, e.targetType.kind} = {"pointer", "double"}) -> e.targetType
    [] e.f = "dereference" /\ isPointer(T("exp")) -> T("exp").to
    [] e.f = "address of" /\ e.exp.f \in Lvalue /\ TypeC(e.exp) # NoType -> PointerTo(TypeC(e.exp))
    [] e.f = "subscript" /\ isPointer(T("pointer")) /\ isInteger(T("index")) -> T("pointer").to
    [] e.f = "subscript" /\ isInteger(T("pointer")) /\ isPointer(T("index")) -> T("index").to
    [] e.f = "assignment" /\ e.exp1.f \in Lvalue
                          /\ Assignable(TypeC(e.exp1), T("exp2"), "exp2" \in nulls) -> TypeC(e.exp1)
    [] e.f = "conditional" /\ isScalar(T("condition")) ->
         Meet(T("then"), T("else_stmt"), "then" \in nulls, "else_stmt" \in nulls)
    [] e.f = "declaration" /\ Fits(Declared[e.identifier].type, e.init) ->
         Declared[e.identifier].type
    [] OTHER -> NoType

TypeC(e) == TypeWith(e, {k \in Operands(e) : Null(e[k])})

(***************************************************************************)
(* Values.                                                                 *)
(***************************************************************************)
\* b was come to after a, from a's memory.
Ordered(a, b) ==
  [b EXCEPT !.reads = @ \cup a.reads, !.writes = @ \cup a.writes, !.undef = @ \/ a.undef]

\* The order of a and b is open.
Open(a, b) ==
  [Ordered(a, b) EXCEPT
     !.undef = \/ @
               \/ a.writes \cap (b.reads \cup b.writes) # {}
               \/ b.writes \cap a.reads # {}]

As(from, to, r) ==
  [r EXCEPT !.undef = @ \/ UndefinedConversion(from, to, r.val),
            !.val = IF UndefinedConversion(from, to, @) THEN @ ELSE Converted(from, to, @)]

Accessible(r, type) ==
  /\ r.val \in DOMAIN r.mem
  /\ SameClass(r.mem[r.val].type, type)

Load(r, type) ==
  IF r.undef \/ ~Accessible(r, type) THEN [r EXCEPT !.undef = TRUE]
  ELSE [r EXCEPT !.val = r.mem[r.val].val, !.reads = @ \cup {r.val}]

\* Writes a value at the place r has come to; the value is the result.
Written(r, type, val) ==
  IF r.undef \/ ~Accessible(r, type) \/ r.val \in r.writes THEN [r EXCEPT !.undef = TRUE]
  ELSE [r EXCEPT !.mem[r.val].val = val, !.writes = @ \cup {r.val}, !.val = val]

Moved(type, p, n) == Wrap(p + n * size(type.to), LongBits)

\* What is come to next begins with the memory r leaves.
From(r) == [Start(r.mem) EXCEPT !.undef = r.undef]

\* t and u are the types of a and b; so below.
SubscriptPlace(t, u, a, b) ==
  [Open(a, b) EXCEPT !.val = IF isPointer(t) THEN Moved(t, a.val, Number(u, b.val))
                             ELSE Moved(u, b.val, Number(t, a.val))]

PlaceOf(e, m) ==
  CASE e.f = "var" -> [m EXCEPT !.val = Declared[e.identifier].place]
    [] e.f = "dereference" -> Eval(e.exp, m)
    [] e.f = "subscript" ->
         LET a == Eval(e.pointer, m) IN
         SubscriptPlace(Decay(TypeC(e.pointer)), Decay(TypeC(e.index)), a, Eval(e.index, From(a)))

Stepped(op, type, val) ==
  IF isPointer(type) THEN Moved(type, val, IF op = "increment" THEN 1 ELSE -1)
  ELSE UnaryValue(op, type, val)

\* `old' is what is at the place.
StepC(op, post, type, place, old) ==
  IF old.undef THEN old
  ELSE [Written([old EXCEPT !.val = place.val], type, Stepped(op, type, old.val)) EXCEPT
          !.val = IF post THEN old.val ELSE @]

PointerValue(op, t, u, m, n) ==
  CASE op \in isRelationBinaryOp -> Truth(Compare(op, m, n))
    [] isPointer(t) /\ isPointer(u) -> Wrap(Quotient(m - n, size(t.to)), LongBits)
    [] isPointer(t) -> Moved(t, m, IF op = "add" THEN Number(u, n) ELSE -Number(u, n))
    [] OTHER -> Moved(u, n, Number(t, m))

ArithmeticValue(op, type, x, y, r) ==
  IF UndefinedBinary(op, type, x, y) THEN [r EXCEPT !.undef = TRUE]
  ELSE [r EXCEPT !.val = BinaryValue(op, type, x, y)]

BinaryC(op, t, u, a, b) ==
  LET r == Open(a, b) IN
  IF r.undef THEN r
  ELSE IF isPointer(t) \/ isPointer(u)
  THEN [r EXCEPT !.val = PointerValue(op, t, u, a.val, b.val),
                 !.undef = /\ isPointer(t) /\ t = u /\ op = "subtract"
                           /\ (a.val - b.val) % size(t.to) # 0]
  ELSE LET type == IF op \in Shift THEN t ELSE Usual(t, u) IN
       ArithmeticValue(op, type, Converted(t, type, a.val),
                       IF op \in Shift THEN b.val ELSE Converted(u, type, b.val), r)

LogicalC(op, t, u, a, b) ==
  LET short == IsZero(t, a.val) # (op = "or") IN
  IF a.undef \/ short THEN [a EXCEPT !.val = Truth(op = "or")]
  ELSE IF b.undef THEN Ordered(a, b)
  ELSE [Ordered(a, b) EXCEPT !.val = Truth(~IsZero(u, @))]

Branch(e, type, c) == IF IsZero(type, c.val) THEN e.else_stmt ELSE e.then

ConditionalC(type, u, c, b) ==
  IF c.undef \/ b.undef THEN [b EXCEPT !.undef = TRUE] ELSE As(u, type, Ordered(c, b))

Assigned(type, place, r) == Written([r EXCEPT !.val = place], type, r.val)
AssignmentC(type, u, place, b) == Assigned(type, place.val, As(u, type, Open(place, b)))

\* What is not given is zero.
RECURSIVE Initialized(_, _, _, _)
Initialized(type, place, init, m) ==
  IF m.undef THEN m
  ELSE IF init.f = "single"
  THEN AssignmentC(type, Decay(TypeC(init.exp)), [m EXCEPT !.val = place], Eval(init.exp, From(m)))
  ELSE IF init.f = "zero" /\ type.kind # "array"
  THEN Written([m EXCEPT !.val = place], type, Converted(CTYPE_INT, type, 0))
  ELSE LET inits == IF init.f = "zero" THEN <<>> ELSE init.inits
           At(n) == IF n \in DOMAIN inits THEN inits[n] ELSE [f |-> "zero"]
       IN FoldLeftDomain(LAMBDA r, n :
            Initialized(type.of, place + (n - 1) * size(type.of), At(n), r),
            m, [n \in 1..type.size |-> n])

Eval(e, m) ==
  LET T(k) == Decay(TypeC(e[k])) IN
  IF m.undef THEN m
  ELSE CASE e.f = "constant" -> [m EXCEPT !.val = e.val]
         [] e.f \in Lvalue ->
              LET r == PlaceOf(e, m) IN
              IF TypeC(e).kind = "array" THEN r ELSE Load(r, TypeC(e))
         [] e.f = "address of" -> PlaceOf(e.exp, m)
         [] e.f = "unary" /\ e.op \in Step -> 
              LET place == PlaceOf(e.exp, m) IN
              StepC(e.op, e.post, TypeC(e), place, Load(place, TypeC(e)))
         [] e.f = "unary" /\ e.op \notin Step ->
              LET r == Eval(e.exp, m) IN
              IF r.undef THEN r ELSE [r EXCEPT !.val = UnaryValue(e.op, T("exp"), @)]
         [] e.f = "cast" ->
              LET r == Eval(e.exp, m) IN
              IF r.undef THEN r ELSE As(T("exp"), e.targetType, r)
         [] e.f = "binary" ->
              LET a == Eval(e.left, m)
                  b == Eval(e.right, From(a))
              IN IF e.op \in Logical THEN LogicalC(e.op, T("left"), T("right"), a, b)
                 ELSE BinaryC(e.op, T("left"), T("right"), a, b)
         [] e.f = "assignment" ->
              LET place == PlaceOf(e.exp1, m) IN
              AssignmentC(TypeC(e), T("exp2"), place, Eval(e.exp2, From(place)))
         [] e.f = "conditional" ->
              LET c == Eval(e.condition, m)
                  branch == Branch(e, T("condition"), c)
              IN ConditionalC(TypeC(e), Decay(TypeC(branch)), c, Eval(branch, From(c)))
         [] e.f = "declaration" ->
              Initialized(TypeC(e), Declared[e.identifier].place, e.init, m)
==============================================================================
